-------------------------- MODULE AgentSessionProofs --------------------------
(***************************************************************************)
(* Proofs about AgentSession, for any number of callers, retries, answers  *)
(* and inputs.  Whatever hosts do, the state keeps its types and an        *)
(* abort() that waits will be woken.  Until two calls find the session     *)
(* free at the same time (raced), which nothing in the code prevents:      *)
(*                                                                         *)
(*   - a session that is not active has no run, retry, compaction or       *)
(*     continuation pending and nothing deferred;                          *)
(*   - a tool result directly follows its call, in the context and in      *)
(*     every context rebuilt from the session file;                        *)
(*   - an overflow is recovered from once;                                 *)
(*   - the context is the one the session file gives, without some         *)
(*     answers and what came behind them.                                  *)
(*                                                                         *)
(* These rest on who may hold the prompt loop.  _isAgentRunActive is set   *)
(* when the Agent starts and cleared in the finally of one prompt() call;  *)
(* it is right as long as no second call gets past its preflight while it  *)
(* is set.  The invariant follows a call through its zones: past its       *)
(* input (cleared), in the loop, or neither.                               *)
(***************************************************************************)
EXTENDS AgentSession, WellFoundedInduction, TLAPS

(* The zones of a call. *)
LoopRec(r)    == r.at \in {"running", "post", "sleep"} \/ (r.at \in Compacting /\ r.then # "prompt")
ClearedRec(r) == r.at \in {"auth", "before"} \/ (r.at \in Compacting /\ r.then = "prompt")

IsCall(r) == "at" \in DOMAIN r /\ "then" \in DOMAIN r
CallShape ==
  /\ call = [c \in Callers |-> call[c]] /\ \A c \in Callers : IsCall(call[c])
  /\ active \in BOOLEAN /\ waiting \in BOOLEAN

(* One call at most is in the loop, while the session is active, and the
   Agent runs exactly when that call waits for it. *)
OneLoop ==
  /\ \A c \in Callers : LoopRec(call[c]) => active
  /\ \A c, d \in Callers : LoopRec(call[c]) /\ LoopRec(call[d]) => c = d
  /\ phase # "none" <=> \E c \in Callers : call[c].at = "running"

(* One call at most is cleared, and none beside a run. *)
OnePreflight ==
  /\ \A c, d \in Callers : ClearedRec(call[c]) /\ ClearedRec(call[d]) => c = d
  /\ \A c \in Callers : ClearedRec(call[c]) => ~active

NothingDeferred == ~active => customs = 0 /\ bash = 0

IInv ==
  CallShape /\ OneLoop /\ OnePreflight /\ NothingDeferred

-----------------------------------------------------------------------------
LEMMA Zones ==
  /\ \A c \in Callers : /\ InLoop(c) <=> LoopRec(call[c])
                        /\ Cleared(c) <=> ClearedRec(call[c])
  /\ \A r : /\ ~(LoopRec(r) /\ ClearedRec(r))
            /\ LoopRec(r) \/ ClearedRec(r) => r.at \notin {"idle", "input", "settle"}
BY DEF InLoop, Cleared, LoopRec, ClearedRec, Compacting

LEMMA InitIInv == Init => IInv
<1> SUFFICES ASSUME Init PROVE IInv
  OBVIOUS
<1>1. CallShape /\ \A c \in Callers : call[c].at = "idle"
  BY DEF Init, CallShape, IsCall, Idle
<1>2. \A c \in Callers : ~LoopRec(call[c]) /\ ~ClearedRec(call[c])
  BY <1>1, Zones
<1>3. OneLoop /\ OnePreflight
  BY <1>1, <1>2 DEF OneLoop, OnePreflight, ClearedRec, Init
<1>4. NothingDeferred
  BY DEF Init, NothingDeferred
<1> QED BY <1>1, <1>3, <1>4 DEF IInv

-----------------------------------------------------------------------------
(* The kinds of steps. *)

(* One call moves to r; the others stay. *)
Moves(c, r) == IsCall(r) /\ call' = [call EXCEPT ![c] = r]

LEMMA MoveFacts ==
  ASSUME IInv, NEW c \in Callers, NEW r, Moves(c, r)
  PROVE  /\ call' = [d \in Callers |-> call'[d]]
         /\ call'[c] = r /\ \A d \in Callers : d # c => call'[d] = call[d]
         /\ \A d \in Callers : IsCall(call'[d])
BY DEF IInv, CallShape, Moves

(* The call in the loop stays in it. *)
LEMMA LoopMove ==
  ASSUME IInv, NEW c \in Callers, LoopRec(call[c]), NEW r, Moves(c, r), LoopRec(r),
         UNCHANGED <<active, waiting>>, phase' # "none" <=> r.at = "running"
  PROVE  IInv'
<1>1. /\ call' = [d \in Callers |-> call'[d]]
      /\ call'[c] = r /\ \A d \in Callers : d # c => call'[d] = call[d]
      /\ \A d \in Callers : IsCall(call'[d])
  BY MoveFacts
<1>2. active /\ active' /\ active \in BOOLEAN /\ waiting \in BOOLEAN
  BY DEF IInv, CallShape, OneLoop
<1>3. CallShape'
  BY <1>1, <1>2 DEF CallShape, IsCall
<1>4. \A d \in Callers : d # c => ~LoopRec(call'[d]) /\ call'[d].at # "running"
  BY <1>1 DEF IInv, OneLoop, LoopRec
<1>5. OneLoop'
  BY <1>1, <1>2, <1>4 DEF OneLoop, LoopRec
<1>6. OnePreflight'
  BY <1>1, <1>2, Zones DEF IInv, OnePreflight, ClearedRec
<1>7. NothingDeferred'
  BY <1>2 DEF NothingDeferred
<1> QED BY <1>3, <1>5, <1>6, <1>7 DEF IInv

(* The call in the loop leaves it, in the finally of its prompt(). *)
LEMMA LoopEnds ==
  ASSUME IInv, NEW c \in Callers, LoopRec(call[c]), call[c].at # "running",
         Moves(c, [Idle EXCEPT !.at = "settle"]),
         active' = FALSE, UNCHANGED <<waiting, phase>>, customs' = 0, bash' = 0
  PROVE  IInv'
<1> DEFINE r == [Idle EXCEPT !.at = "settle"]
<1>1. /\ call' = [d \in Callers |-> call'[d]]
      /\ call'[c] = r /\ \A d \in Callers : d # c => call'[d] = call[d]
      /\ \A d \in Callers : IsCall(call'[d])
  BY MoveFacts
<1>2. r.at = "settle"
  BY DEF Idle
<1>3. CallShape'
  BY <1>1 DEF CallShape, IsCall, IInv
<1>4. \A d \in Callers : ~LoopRec(call'[d]) /\ call'[d].at # "running"
  BY <1>1, <1>2, Zones DEF IInv, OneLoop, LoopRec
<1>5. phase = "none"
  BY DEF IInv, OneLoop, LoopRec
<1>6. OneLoop'
  BY <1>4, <1>5 DEF OneLoop, LoopRec
<1>7. OnePreflight'
  BY <1>1, <1>2, Zones DEF IInv, OnePreflight, ClearedRec
<1>8. NothingDeferred'
  BY <1>1, <1>2 DEF NothingDeferred
<1> QED BY <1>3, <1>6, <1>7, <1>8 DEF IInv

(* A run of the Agent starts, for the call in the loop or the only one past
   its preflight. *)
LEMMA RunStarts ==
  ASSUME IInv, NEW c \in Callers, Moves(c, [Idle EXCEPT !.at = "running"]),
         \A d \in Callers : d # c => ~LoopRec(call[d]) /\ ~ClearedRec(call[d]),
         active' = TRUE, UNCHANGED waiting, phase' = "stream"
  PROVE  IInv'
<1> DEFINE r == [Idle EXCEPT !.at = "running"]
<1>1. /\ call' = [d \in Callers |-> call'[d]]
      /\ call'[c] = r /\ \A d \in Callers : d # c => call'[d] = call[d]
      /\ \A d \in Callers : IsCall(call'[d])
  BY MoveFacts
<1>2. r.at = "running" /\ LoopRec(r)
  BY DEF Idle, LoopRec
<1>3. CallShape'
  BY <1>1 DEF CallShape, IsCall, IInv
<1>4. OneLoop'
  BY <1>1, <1>2 DEF OneLoop, LoopRec
<1>5. OnePreflight'
  BY <1>1, <1>2, Zones DEF IInv, OnePreflight, ClearedRec
<1>6. NothingDeferred'
  BY DEF NothingDeferred
<1> QED BY <1>3, <1>4, <1>5, <1>6 DEF IInv

(* A call outside the loop stays outside. *)
LEMMA OutsideMove ==
  ASSUME IInv, NEW c \in Callers, ~LoopRec(call[c]), call[c].at # "settle", NEW r, Moves(c, r), ~LoopRec(r),
         ClearedRec(r) => ClearedRec(call[c]) \/ \A d \in Callers : ~ClearedRec(call[d]),
         ClearedRec(r) => ~active,
         UNCHANGED <<active, waiting, phase>>, ~active => customs' = 0 /\ bash' = 0
  PROVE  IInv'
<1>1. /\ call' = [d \in Callers |-> call'[d]]
      /\ call'[c] = r /\ \A d \in Callers : d # c => call'[d] = call[d]
      /\ \A d \in Callers : IsCall(call'[d])
  BY MoveFacts
<1>2. CallShape'
  BY <1>1 DEF CallShape, IsCall, IInv
<1>3. r.at # "running" /\ call[c].at # "running"
  BY DEF LoopRec
<1>4. OneLoop'
  BY <1>1, <1>3 DEF IInv, OneLoop, LoopRec
<1>5. OnePreflight'
  BY <1>1 DEF IInv, OnePreflight, ClearedRec
<1>6. NothingDeferred'
  BY <1>1 DEF IInv, NothingDeferred
<1> QED BY <1>2, <1>4, <1>5, <1>6 DEF IInv

(* No call changes its zone. *)
LEMMA NoMove ==
  ASSUME IInv, call' = [c \in Callers |-> call'[c]],
         \A c \in Callers : /\ IsCall(call'[c])
                            /\ call'[c].at = call[c].at /\ call'[c].then = call[c].then,
         UNCHANGED <<active, phase>>, waiting' \in {waiting, waiting \/ active},
         ~active => customs' = customs /\ bash' = bash
  PROVE  IInv'
<1>1. \A c \in Callers : /\ LoopRec(call'[c]) <=> LoopRec(call[c])
                         /\ ClearedRec(call'[c]) <=> ClearedRec(call[c])
  BY DEF LoopRec, ClearedRec
<1>2. CallShape'
  BY DEF CallShape, IsCall, IInv
<1>3. OneLoop'
  BY <1>1 DEF IInv, OneLoop, LoopRec
<1>4. OnePreflight'
  BY <1>1 DEF IInv, OnePreflight, ClearedRec
<1>5. NothingDeferred'
  BY DEF IInv, NothingDeferred
<1> QED BY <1>2, <1>3, <1>4, <1>5 DEF IInv

-----------------------------------------------------------------------------
(* What the parts of the loop do. *)

LEMMA Records ==
  /\ IsCall(Idle) /\ ~LoopRec(Idle) /\ ~ClearedRec(Idle)
  /\ \A a : /\ IsCall([Idle EXCEPT !.at = a])
           /\ [Idle EXCEPT !.at = a].at = a /\ [Idle EXCEPT !.at = a].then = "prompt"
  /\ \A r, a : IsCall(r) => /\ IsCall([r EXCEPT !.at = a])
                            /\ [r EXCEPT !.at = a].at = a /\ [r EXCEPT !.at = a].then = r.then
<1>1. IsCall(Idle) /\ Idle.at = "idle" /\ Idle.then = "prompt"
  BY DEF IsCall, Idle
<1>2. \A r, a : IsCall(r) => /\ IsCall([r EXCEPT !.at = a])
                            /\ [r EXCEPT !.at = a].at = a /\ [r EXCEPT !.at = a].then = r.then
  BY DEF IsCall
<1> QED BY <1>1, <1>2, Zones

Ends(c) ==
  /\ Moves(c, [Idle EXCEPT !.at = "settle"])
  /\ active' = FALSE /\ UNCHANGED phase /\ customs' = 0 /\ bash' = 0
Starts(c) ==
  /\ Moves(c, [Idle EXCEPT !.at = "running"])
  /\ active' = TRUE /\ phase' = "stream"

LEMMA SettleEnds ==
  ASSUME NEW c, NEW s, Settle(c, s)
  PROVE  Ends(c)
BY Records DEF Settle, Ends, Moves

LEMMA StartAgentStarts ==
  ASSUME NEW c, NEW s, NEW kinds, StartAgent(c, s, kinds)
  PROVE  Starts(c)
BY Records DEF StartAgent, Starts, Moves

LEMMA DecideKinds ==
  ASSUME NEW c, NEW s, NEW goOn \in BOOLEAN, Decide(c, s, goOn)
  PROVE  Ends(c) \/ Starts(c)
<1>1. Settle(c, s) \/ \E kinds : StartAgent(c, s, kinds)
  BY DEF Decide, Continue
<1> QED BY <1>1, SettleEnds, StartAgentStarts

(* A call in the loop that does not wait for the Agent settles, starts the
   Agent again, or stays in the loop. *)
Stays(c) ==
  \E r : Moves(c, r) /\ LoopRec(r) /\ r.at # "running" /\ UNCHANGED <<active, phase>>

LEMMA LoopStep ==
  ASSUME IInv, NEW c \in Callers, LoopRec(call[c]), call[c].at # "running",
         UNCHANGED waiting, Ends(c) \/ Starts(c) \/ Stays(c)
  PROVE  IInv'
<1>1. CASE Ends(c)
  BY <1>1, LoopEnds DEF Ends
<1>2. CASE Starts(c)
  <2>1. \A d \in Callers : d # c => ~LoopRec(call[d]) /\ ~ClearedRec(call[d])
    BY DEF IInv, OneLoop, OnePreflight
  <2> QED BY <1>2, <2>1, RunStarts DEF Starts
<1>3. CASE Stays(c)
  <2>1. PICK r : Moves(c, r) /\ LoopRec(r) /\ r.at # "running" /\ UNCHANGED <<active, phase>>
    BY <1>3 DEF Stays
  <2>2. phase = "none"
    BY DEF IInv, OneLoop, LoopRec
  <2> QED BY <2>1, <2>2, LoopMove
<1> QED BY <1>1, <1>2, <1>3

(* An automatic compaction begins: then says whose it is. *)
LEMMA CompactionBegins ==
  ASSUME NEW c, NEW s, NEW then, NEW retry, StartCompaction(c, s, then, retry)
  PROVE  \E r : /\ Moves(c, r) /\ r.at = "compactAuth" /\ r.then = then
               /\ UNCHANGED <<active, phase, customs, bash>>
<1> DEFINE r == [Idle EXCEPT !.at = "compactAuth", !.then = then, !.retry = retry]
<1>1. IsCall(r) /\ r.at = "compactAuth" /\ r.then = then
  BY DEF IsCall, Idle
<1> QED BY <1>1 DEF StartCompaction, Moves

LEMMA AfterRetryKinds ==
  ASSUME NEW c \in Callers, NEW m, AfterRetry(c, m)
  PROVE  Ends(c) \/ Starts(c) \/ Stays(c)
<1>1. \/ \E s, then, retry : StartCompaction(c, s, then, retry) /\ then \in {"mid", "loop"}
      \/ Decide(c, ctx, HasQueued)
  BY DEF AfterRetry, CheckedCompaction
<1>2. CASE Decide(c, ctx, HasQueued)
  BY <1>2, DecideKinds DEF HasQueued
<1>3. CASE \E s, then, retry : StartCompaction(c, s, then, retry) /\ then \in {"mid", "loop"}
  <2>1. PICK s, then, retry : StartCompaction(c, s, then, retry) /\ then \in {"mid", "loop"}
    BY <1>3
  <2>2. PICK r : /\ Moves(c, r) /\ r.at = "compactAuth" /\ r.then = then
                 /\ UNCHANGED <<active, phase, customs, bash>>
    BY <2>1, CompactionBegins
  <2> QED BY <2>1, <2>2 DEF Stays, LoopRec, Compacting
<1> QED BY <1>1, <1>2, <1>3

-----------------------------------------------------------------------------
(* The steps of a call in the loop. *)

LEMMA Streaming ==
  ASSUME IInv, NEW c \in Callers, (\E k \in AnswerKinds : StreamEnds(c, k)) \/ ToolsEnd(c)
  PROVE  IInv'
<1>1. call[c].at = "running" /\ LoopRec(call[c]) /\ UNCHANGED <<active, waiting>>
  BY DEF StreamEnds, ToolsEnd, hostVars, LoopRec
<1>2. \/ UNCHANGED call /\ phase' \in {"stream", "tools"}
      \/ call' = [call EXCEPT ![c].at = "post"] /\ phase' = "none"
  BY DEF StreamEnds, ToolsEnd, WouldStop, EndTurn
<1>3. IsCall(call[c]) /\ call = [d \in Callers |-> call[d]]
  BY DEF IInv, CallShape
<1>4. CASE UNCHANGED call /\ phase' \in {"stream", "tools"}
  <2>1. Moves(c, call[c])
    BY <1>3, <1>4 DEF Moves
  <2> QED BY <1>1, <1>4, <2>1, LoopMove
<1>5. CASE call' = [call EXCEPT ![c].at = "post"] /\ phase' = "none"
  <2> DEFINE r == [call[c] EXCEPT !.at = "post"]
  <2>1. IsCall(r) /\ r.at = "post" /\ LoopRec(r)
    BY <1>3, Records DEF LoopRec
  <2>2. Moves(c, r)
    BY <1>5, <2>1 DEF Moves
  <2> QED BY <1>1, <1>5, <2>1, <2>2, LoopMove
<1> QED BY <1>2, <1>4, <1>5

LEMMA AfterRun ==
  ASSUME IInv, NEW c \in Callers, PostRun(c) \/ RetrySleep(c)
  PROVE  IInv'
<1>1. call[c].at # "running" /\ LoopRec(call[c]) /\ UNCHANGED waiting
  BY DEF PostRun, RetrySleep, hostVars, LoopRec
<1>2. \/ \E s, goOn : Decide(c, s, goOn) /\ goOn \in BOOLEAN
      \/ \E m : AfterRetry(c, m)
      \/ call' = [call EXCEPT ![c].at = "sleep"] /\ UNCHANGED <<active, phase>>
  BY DEF PostRun, RetrySleep
<1>3. CASE \E s, goOn : Decide(c, s, goOn) /\ goOn \in BOOLEAN
  BY <1>1, <1>3, DecideKinds, LoopStep
<1>4. CASE \E m : AfterRetry(c, m)
  BY <1>1, <1>4, AfterRetryKinds, LoopStep
<1>5. CASE call' = [call EXCEPT ![c].at = "sleep"] /\ UNCHANGED <<active, phase>>
  <2> DEFINE r == [call[c] EXCEPT !.at = "sleep"]
  <2>1. IsCall(r) /\ r.at = "sleep" /\ LoopRec(r)
    BY Records DEF IInv, CallShape, LoopRec
  <2>2. Stays(c)
    BY <1>5, <2>1 DEF Stays, Moves
  <2> QED BY <1>1, <2>2, LoopStep
<1> QED BY <1>2, <1>3, <1>4, <1>5

(* A call past its input stays in the preflight, or is given up. *)
LEMMA ClearedStep ==
  ASSUME IInv, NEW c \in Callers, ClearedRec(call[c]), NEW r, Moves(c, r), ~LoopRec(r),
         UNCHANGED <<active, waiting, phase, customs, bash>>
  PROVE  IInv'
<1>1. ~LoopRec(call[c]) /\ call[c].at # "settle"
  BY Zones
<1>2. ~active /\ customs = 0 /\ bash = 0
  BY DEF IInv, OnePreflight, NothingDeferred
<1> QED BY <1>1, <1>2, OutsideMove

(* The messages of the prompt are put together. *)
LEMMA CollectMoves ==
  ASSUME NEW c \in Callers, Collect(c)
  PROVE  \E r : Moves(c, r) /\ r.at = "before" /\ ~LoopRec(r)
<1> DEFINE r == [Idle EXCEPT !.at = "before", !.carried = nextTurn]
<1>1. IsCall(r) /\ r.at = "before"
  BY DEF IsCall, Idle
<1>2. ~LoopRec(r)
  BY <1>1, Zones DEF ClearedRec
<1> QED BY <1>1, <1>2 DEF Collect, Moves

(* A compaction returns to the prompt or to the loop. *)
LEMMA ReturnsKeeps ==
  ASSUME IInv, NEW c \in Callers, call[c].at \in Compacting, NEW s, NEW yes \in BOOLEAN,
         Returns(c, s, yes), UNCHANGED waiting
  PROVE  IInv'
<1>1. CASE call[c].then = "prompt"
  <2>1. ClearedRec(call[c])
    BY <1>1 DEF ClearedRec, Compacting
  <2>2. Collect(c) /\ UNCHANGED <<active, phase, customs, bash>>
    BY <1>1 DEF Returns
  <2>3. PICK r : Moves(c, r) /\ r.at = "before" /\ ~LoopRec(r)
    BY <2>2, CollectMoves
  <2> QED BY <2>1, <2>2, <2>3, ClearedStep
<1>2. CASE call[c].then # "prompt"
  <2>1. LoopRec(call[c]) /\ call[c].at # "running"
    BY <1>2 DEF LoopRec, Compacting
  <2>2. Decide(c, s, yes \/ (call[c].then = "loop" /\ HasQueued))
    BY <1>2 DEF Returns
  <2>3. Ends(c) \/ Starts(c)
    BY <2>2, DecideKinds DEF HasQueued
  <2> QED BY <2>1, <2>3, LoopStep
<1> QED BY <1>1, <1>2

(* A compaction goes on to the next of its parts. *)
LEMMA CompactionGoesOn ==
  ASSUME IInv, NEW c \in Callers, call[c].at \in Compacting, NEW r, Moves(c, r),
         r.at \in Compacting, r.then = call[c].then,
         UNCHANGED <<active, waiting, phase, customs, bash>>
  PROVE  IInv'
<1>1. CASE call[c].then = "prompt"
  BY <1>1, ClearedStep DEF ClearedRec, LoopRec, Compacting
<1>2. CASE call[c].then # "prompt"
  <2>1. LoopRec(call[c]) /\ LoopRec(r) /\ call[c].at # "running" /\ r.at # "running"
    BY <1>2 DEF LoopRec, Compacting
  <2> QED BY <2>1, LoopStep DEF Stays
<1> QED BY <1>1, <1>2

LEMMA AutoCompaction ==
  ASSUME IInv, NEW c \in Callers, CompactAuth(c) \/ CompactSummary(c) \/ CompactDone(c)
  PROVE  IInv'
<1>1. call[c].at \in Compacting /\ IsCall(call[c]) /\ UNCHANGED waiting
  BY DEF CompactAuth, CompactSummary, CompactDone, Compacting, hostVars, IInv, CallShape
<1>2. CASE CompactAuth(c)
  <2>1. CASE Returns(c, ctx, FALSE)
    BY <1>1, <2>1, ReturnsKeeps
  <2>2. CASE /\ \E i \in CutPoints(path) :
                  call' = [call EXCEPT ![c].at = "summary", ![c].from = path[i].at]
             /\ UNCHANGED <<active, phase, sideVars>>
    <3>1. PICK x : call' = [call EXCEPT ![c].at = "summary", ![c].from = x]
      BY <2>2
    <3> DEFINE r == [call[c] EXCEPT !.at = "summary", !.from = x]
    <3>2. IsCall(r) /\ r.at = "summary" /\ r.then = call[c].then
      BY <1>1 DEF IsCall
    <3>3. Moves(c, r)
      BY <3>1, <3>2 DEF Moves, IInv, CallShape
    <3> QED BY <1>1, <2>2, <3>2, <3>3, CompactionGoesOn DEF Compacting, sideVars
  <2> QED BY <1>2, <2>1, <2>2 DEF CompactAuth
<1>3. CASE CompactSummary(c)
  <2>1. CASE Returns(c, ctx, FALSE)
    BY <1>1, <2>1, ReturnsKeeps
  <2>2. CASE call' = [call EXCEPT ![c].at = "compacted"] /\ UNCHANGED <<active, phase, sideVars>>
    <3> DEFINE r == [call[c] EXCEPT !.at = "compacted"]
    <3>1. IsCall(r) /\ r.at = "compacted" /\ r.then = call[c].then
      BY <1>1 DEF IsCall
    <3>2. Moves(c, r)
      BY <2>2, <3>1 DEF Moves
    <3> QED BY <1>1, <2>2, <3>1, <3>2, CompactionGoesOn DEF Compacting, sideVars
  <2> QED BY <1>3, <2>1, <2>2 DEF CompactSummary
<1>4. CASE CompactDone(c)
  <2>1. PICK s : Returns(c, s, call[c].retry \/ HasQueued)
    BY <1>4 DEF CompactDone
  <2> QED BY <1>1, <2>1, ReturnsKeeps
<1> QED BY <1>2, <1>3, <1>4

-----------------------------------------------------------------------------
(* The preflight. *)

LEMMA Inputs ==
  ASSUME IInv, ~raced', NEW c \in Callers, PromptCall(c) \/ PromptInput(c)
  PROVE  IInv'
<1>1. IsCall(call[c]) /\ call = [d \in Callers |-> call[d]] /\ UNCHANGED <<active, waiting, phase>>
  BY DEF IInv, CallShape, PromptCall, PromptInput, runVars, hostVars
<1>2. CASE PromptCall(c)
  <2> DEFINE r == [call[c] EXCEPT !.at = "input"]
  <2>1. IsCall(r) /\ r.at = "input" /\ Moves(c, r)
    BY <1>1, <1>2 DEF PromptCall, Moves, IsCall
  <2>2. ~LoopRec(r) /\ ~ClearedRec(r)
    BY <2>1, Zones
  <2>4. ~LoopRec(call[c]) /\ call[c].at # "settle"
    BY <1>2, Zones DEF PromptCall
  <2>5. ~active => customs' = 0 /\ bash' = 0
    BY <1>2 DEF PromptCall, sideVars, IInv, NothingDeferred
  <2> QED BY <1>1, <2>1, <2>2, <2>4, <2>5, OutsideMove
<1>3. CASE PromptInput(c)
  <2>1. call[c].at = "input" /\ ~LoopRec(call[c])
    BY <1>3, Zones DEF PromptInput
  <2>2. CASE call' = [call EXCEPT ![c] = Idle] /\ (~active => UNCHANGED <<customs, bash>>)
    <3>1. Moves(c, Idle) /\ ~ClearedRec(Idle)
      BY <2>2, Records DEF Moves
    <3>2. ~active => customs' = 0 /\ bash' = 0
      BY <2>2 DEF IInv, NothingDeferred
    <3> QED BY <1>1, <2>1, <3>1, <3>2, Records, OutsideMove
  <2>3. CASE /\ ~active /\ call' = [call EXCEPT ![c].at = "auth"] /\ customs' = 0 /\ bash' = 0
             /\ raced' = (raced \/ Underway)
    <3> DEFINE r == [call[c] EXCEPT !.at = "auth"]
    <3>1. IsCall(r) /\ r.at = "auth" /\ Moves(c, r)
      BY <1>1, <2>3 DEF Moves, IsCall
    <3>2. ~LoopRec(r)
      BY <3>1, Zones DEF ClearedRec
    <3>3. \A d \in Callers : ~ClearedRec(call[d])
      BY <2>3, Zones DEF Underway
    <3> QED BY <1>1, <2>1, <2>3, <3>1, <3>2, <3>3, OutsideMove
  <2> QED BY <1>3, <2>2, <2>3 DEF PromptInput, sideVars
<1> QED BY <1>2, <1>3

LEMMA Auth ==
  ASSUME IInv, NEW c \in Callers, PromptAuth(c)
  PROVE  IInv'
<1>1. ClearedRec(call[c]) /\ UNCHANGED waiting
  BY DEF PromptAuth, ClearedRec, hostVars
<1>2. CASE call' = [call EXCEPT ![c] = Idle] /\ UNCHANGED <<runVars, sideVars>>
  <2>1. Moves(c, Idle)
    BY <1>2, Records DEF Moves
  <2> QED BY <1>1, <1>2, <2>1, Records, ClearedStep DEF runVars, sideVars
<1>3. CASE Collect(c) /\ UNCHANGED <<runVars, customs, bash>>
  <2>1. PICK r : Moves(c, r) /\ r.at = "before" /\ ~LoopRec(r)
    BY <1>3, CollectMoves
  <2> QED BY <1>1, <1>3, <2>1, ClearedStep DEF runVars
<1>4. CASE \E s, retry : StartCompaction(c, s, "prompt", retry)
  <2>1. PICK r : /\ Moves(c, r) /\ r.at = "compactAuth" /\ r.then = "prompt"
                 /\ UNCHANGED <<active, phase, customs, bash>>
    BY <1>4, CompactionBegins
  <2>2. ~LoopRec(r)
    BY <2>1 DEF LoopRec
  <2> QED BY <1>1, <2>1, <2>2, ClearedStep
<1> QED BY <1>2, <1>3, <1>4 DEF PromptAuth, CheckedCompaction

(* A run begins: nothing else is in the loop or cleared, so the Agent is free. *)
LEMMA Running ==
  ASSUME IInv, ~raced', NEW c \in Callers, StartRun(c) \/ TriggerTurn(c)
  PROVE  IInv'
<1>1. ~active /\ UNCHANGED waiting
  BY DEF StartRun, TriggerTurn, hostVars, IInv, OnePreflight, ClearedRec
<1>2. \A d \in Callers : ~LoopRec(call[d])
  BY <1>1 DEF IInv, OneLoop
<1>3. \A d \in Callers : d # c => ~ClearedRec(call[d])
  <2>1. CASE StartRun(c)
    BY <2>1 DEF StartRun, IInv, OnePreflight, ClearedRec
  <2>2. CASE TriggerTurn(c)
    BY <2>2, Zones DEF TriggerTurn, Underway
  <2> QED BY <2>1, <2>2
<1>4. phase = "none"
  BY <1>2 DEF IInv, OneLoop, LoopRec
<1>5. \E kinds : StartAgent(c, ctx, kinds)
  BY <1>4 DEF StartRun, TriggerTurn, Run
<1>6. Starts(c)
  BY <1>5, StartAgentStarts
<1> QED BY <1>1, <1>2, <1>3, <1>6, RunStarts DEF Starts

(* The listeners of the end are done. *)
LEMMA Settling ==
  ASSUME IInv, NEW c \in Callers, Settled(c)
  PROVE  IInv'
<1>1. /\ call[c].at = "settle" /\ Moves(c, Idle)
      /\ UNCHANGED <<active, phase, customs, bash>> /\ waiting' = (waiting /\ active)
  BY Records DEF Settled, Moves, runVars, sideVars
<1>2. /\ call' = [d \in Callers |-> call'[d]]
      /\ call'[c] = Idle /\ \A d \in Callers : d # c => call'[d] = call[d]
      /\ \A d \in Callers : IsCall(call'[d])
  BY <1>1, MoveFacts
<1>3. ~LoopRec(Idle) /\ ~ClearedRec(Idle) /\ Idle.at # "running" /\ call[c].at # "running"
  BY <1>1, Records DEF Idle
<1>4. CallShape'
  BY <1>1, <1>2 DEF CallShape, IsCall, IInv
<1>5. OneLoop'
  BY <1>1, <1>2, <1>3 DEF IInv, OneLoop, LoopRec
<1>6. OnePreflight'
  BY <1>1, <1>2, <1>3 DEF IInv, OnePreflight, ClearedRec
<1>7. NothingDeferred'
  BY <1>1 DEF IInv, NothingDeferred
<1> QED BY <1>4, <1>5, <1>6, <1>7 DEF IInv

-----------------------------------------------------------------------------
(* Asides, and what hosts and extensions do. *)

LEMMA Unmoved ==
  ASSUME IInv, UNCHANGED <<call, active, phase, waiting>>,
         ~active => customs' = customs /\ bash' = bash
  PROVE  IInv'
BY NoMove DEF IInv, CallShape

LEMMA Asides ==
  ASSUME IInv, SendCustom \/ RecordBash
  PROVE  IInv'
<1>1. UNCHANGED <<call, active, phase, waiting>>
  BY DEF SendCustom, RecordBash, runVars, hostVars
<1>2. ~active => customs' = customs /\ bash' = bash
  BY DEF SendCustom, RecordBash
<1> QED BY <1>1, <1>2, Unmoved

LEMMA Hosts ==
  ASSUME IInv, \/ AbortResponse \/ Navigate \/ ManualBegins \/ ManualPrepared \/ ManualDone
               \/ NavigateDone
  PROVE  IInv'
<1>1. UNCHANGED <<call, active, phase, waiting, customs, bash>>
  BY DEF AbortResponse, Navigate, Command, ManualBegins, ManualPrepared, ManualDone, NavigateDone,
         runVars, sideVars, hostVars
<1> QED BY <1>1, Unmoved

LEMMA Aborts ==
  ASSUME IInv, Abort \/ AbortCompaction \/ Compact
  PROVE  IInv'
<1>1. UNCHANGED <<active, phase, customs, bash>> /\ waiting' \in {waiting, waiting \/ active}
  BY DEF Abort, AbortCompaction, Compact, Command, Interrupt
<1>2. \E cs : call' = Cancelled(cs)
  BY DEF Abort, AbortCompaction, Compact, Interrupt
<1>3. \A r, b : IsCall(r) => /\ IsCall([r EXCEPT !.cancelled = b])
                            /\ [r EXCEPT !.cancelled = b].at = r.at
                            /\ [r EXCEPT !.cancelled = b].then = r.then
  BY DEF IsCall
<1>4. \A c \in Callers : /\ IsCall(call'[c])
                         /\ call'[c].at = call[c].at /\ call'[c].then = call[c].then
  <2> SUFFICES ASSUME NEW c \in Callers
               PROVE  /\ IsCall(call'[c])
                      /\ call'[c].at = call[c].at /\ call'[c].then = call[c].then
    OBVIOUS
  <2>1. IsCall(call[c])
    BY DEF IInv, CallShape
  <2>2. \E b : call'[c] = [call[c] EXCEPT !.cancelled = b]
    BY <1>2 DEF Cancelled
  <2> QED BY <1>3, <2>1, <2>2
<1>5. call' = [c \in Callers |-> call'[c]]
  BY <1>2 DEF Cancelled
<1> QED BY <1>1, <1>4, <1>5, NoMove

-----------------------------------------------------------------------------
(* Every step keeps the invariant. *)
LEMMA NextIInv == IInv /\ ~raced' /\ [Next]_vars => IInv'
<1> SUFFICES ASSUME IInv, ~raced', [Next]_vars PROVE IInv'
  OBVIOUS
<1>1. CASE UNCHANGED vars
  BY <1>1, Unmoved DEF vars, runVars, sideVars, hostVars
<1>2. CASE Environment
  BY <1>2, Inputs, Running, Asides, Hosts, Aborts DEF Environment
<1>3. CASE HostStep
  BY <1>3, Hosts DEF HostStep
<1>4. ASSUME NEW c \in Callers, CallStep(c) PROVE IInv'
  BY <1>4, Inputs, Auth, Running, Streaming, AfterRun, AutoCompaction, Settling DEF CallStep
<1> QED BY <1>1, <1>2, <1>3, <1>4 DEF Next

(* What happened stays happened. *)
LEMMA RacedStays ==
  ASSUME [Next]_vars
  PROVE  (raced => raced') /\ (raced \in BOOLEAN => raced' \in BOOLEAN)
<1>1. CASE UNCHANGED raced
  BY <1>1
<1>2. CASE \E b \in BOOLEAN : raced' = (raced \/ b)
  BY <1>2
<1>3. (Underway \/ active) \in BOOLEAN /\ Underway \in BOOLEAN
  BY DEF Underway
<1>4. CASE raced' = (raced \/ Underway) \/ raced' = (raced \/ Underway \/ active)
  BY <1>4
<1>5. CASE Environment
  BY <1>1, <1>4, <1>5 DEF Environment, PromptCall, TriggerTurn, SendCustom, RecordBash, Abort, AbortCompaction,
              AbortResponse, Compact, Navigate, Command, Input
<1>6. CASE HostStep
  BY <1>1, <1>4, <1>6 DEF HostStep, ManualBegins, ManualPrepared, ManualDone, NavigateDone, envVars
<1>7. ASSUME NEW c \in Callers, CallStep(c), ~UNCHANGED raced
      PROVE  raced' = (raced \/ Underway)
  BY <1>7 DEF CallStep, PromptInput, PromptAuth, StartRun, StreamEnds, ToolsEnd, PostRun, RetrySleep,
              CompactAuth, CompactSummary, CompactDone, Settled, envVars
<1>8. CASE UNCHANGED vars
  BY <1>1, <1>8 DEF vars, envVars
<1> QED BY <1>1, <1>4, <1>5, <1>6, <1>7, <1>8 DEF Next

(* As long as no two calls found the session free at the same time, the loop
   and the preflights exclude each other. *)
THEOREM Invariance == Spec => [](~raced => IInv)
<1>1. Init => (~raced => IInv)
  BY InitIInv
<1>2. (~raced => IInv) /\ [Next]_vars => (~raced => IInv)'
  BY NextIInv, RacedStays
<1> QED BY <1>1, <1>2, PTL DEF Spec

(* A session that reports itself idle has no run of its Agent, nothing of the
   prompt loop pending and nothing deferred, for every interleaving of
   prompts, retries, compactions, aborts and asides, until two calls find the
   session free at the same time, which nothing in the code prevents
   (agent-session.ts, _runAgentPrompt and its finally). *)
THEOREM IdleIsIdle == Spec => []SettledIsIdle
<1>1. (~raced => IInv) => SettledIsIdle
  BY Zones DEF IInv, SettledIsIdle, IdleHasNoRun, OneLoop, NothingDeferred, LoopRec
<1> QED BY <1>1, Invariance, PTL

-----------------------------------------------------------------------------
(* The conversation: sequences of messages and how they grow. *)

Plain == {"user", "custom", "bash"}
NewKinds == Kinds \ Compaction

(* t is s with messages of these kinds, numbered from n on. *)
Grown(s, t, n, kinds) ==
  /\ t \in Seq(Messages) /\ Len(t) = Len(s) + Len(kinds)
  /\ \A i \in 1..Len(s) : t[i] = s[i]
  /\ \A i \in 1..Len(kinds) : t[Len(s) + i].kind = kinds[i] /\ t[Len(s) + i].at = n + i

(* s is the beginning of t. *)
Begins(s, t) ==
  s \in Seq(Messages) /\ Len(s) <= Len(t) /\ \A i \in 1..Len(s) : s[i] = t[i]

LEMMA KindFacts ==
  /\ Plain \subseteq NewKinds /\ AnswerKinds \subseteq NewKinds /\ NewKinds \subseteq Kinds
  /\ "tool" \in NewKinds /\ "tool" \notin Plain \cup AnswerKinds /\ "branch" \in NewKinds
  /\ ToolCalls \subseteq AnswerKinds /\ Compaction \cap (NewKinds \cup ToolCalls) = {}
  /\ Compaction \subseteq Kinds
BY DEF Plain, NewKinds, Kinds, AnswerKinds, ToolCalls, Failed, Truncated, Compaction

LEMMA LastIndex ==
  ASSUME NEW n \in Nat, NEW S, S \subseteq 1..n, S # {}
  PROVE  \E i \in S : \A j \in S : j <= i
<1> DEFINE R == OpToRel(<, Nat)
           T == {m \in Nat : n - m \in S}
<1>0. \A i \in S : n - i \in T /\ i \in Nat /\ n - (n - i) = i
  OBVIOUS
<1>1. T \subseteq Nat /\ T # {}
  BY <1>0
<1>2. IsWellFoundedOn(R, Nat)
  BY NatLessThanWellFounded
<1> HIDE DEF R
<1>3. PICK x \in T : \A y \in T : ~(<<y, x>> \in R)
  BY <1>1, <1>2, WFMin
<1>4. \A y \in T : ~(y < x)
  BY <1>1, <1>3 DEF R, OpToRel
<1>5. n - x \in S /\ x \in Nat
  OBVIOUS
<1> HIDE DEF T
<1>6. \A j \in S : j <= n - x
  BY <1>0, <1>1, <1>4, <1>5
<1> QED BY <1>5, <1>6

LEMMA Repeats ==
  ASSUME NEW S, NEW kind \in S, NEW n \in Nat
  PROVE  /\ Repeat(kind, n) \in Seq(S) /\ Len(Repeat(kind, n)) = n
         /\ \A i \in 1..n : Repeat(kind, n)[i] = kind
BY DEF Repeat

LEMMA NewMessages ==
  ASSUME NEW kinds \in Seq(Kinds), clock \in Nat
  PROVE  /\ New(kinds) \in Seq(Messages) /\ Len(New(kinds)) = Len(kinds)
         /\ \A i \in 1..Len(kinds) : New(kinds)[i].kind = kinds[i] /\ New(kinds)[i].at = clock + i
<1>1. DOMAIN kinds = 1..Len(kinds) /\ Len(kinds) \in Nat /\ \A i \in 1..Len(kinds) : kinds[i] \in Kinds
  OBVIOUS
<1>2. New(kinds) = [i \in 1..Len(kinds) |-> [kind |-> kinds[i], at |-> clock + i, from |-> 0]]
  BY <1>1 DEF New
<1>3. \A i \in 1..Len(kinds) : [kind |-> kinds[i], at |-> clock + i, from |-> 0] \in Messages
  BY <1>1 DEF Messages
<1>4. New(kinds) \in [1..Len(kinds) -> Messages]
  BY <1>2, <1>3
<1>5. New(kinds) \in Seq(Messages) /\ Len(New(kinds)) = Len(kinds)
  BY <1>1, <1>4
<1>6. \A i \in 1..Len(kinds) : New(kinds)[i] = [kind |-> kinds[i], at |-> clock + i, from |-> 0]
  BY <1>2
<1>7. \A i \in 1..Len(kinds) : New(kinds)[i].kind = kinds[i] /\ New(kinds)[i].at = clock + i
  <2> SUFFICES ASSUME NEW i \in 1..Len(kinds)
               PROVE  New(kinds)[i].kind = kinds[i] /\ New(kinds)[i].at = clock + i
    OBVIOUS
  <2>1. New(kinds)[i] = [kind |-> kinds[i], at |-> clock + i, from |-> 0]
    BY <1>6
  <2> QED BY <2>1
<1> QED BY <1>5, <1>7

LEMMA Growing ==
  ASSUME NEW s \in Seq(Messages), NEW kinds \in Seq(Kinds), clock \in Nat
  PROVE  Grown(s, s \o New(kinds), clock, kinds)
<1> DEFINE new == New(kinds)
<1>1. /\ new \in Seq(Messages) /\ Len(new) = Len(kinds)
      /\ \A i \in 1..Len(kinds) : new[i].kind = kinds[i] /\ new[i].at = clock + i
  BY NewMessages
<1> HIDE DEF new
<1>2. /\ s \o new \in Seq(Messages) /\ Len(s \o new) = Len(s) + Len(kinds)
      /\ \A i \in 1..Len(s) : (s \o new)[i] = s[i]
      /\ \A i \in 1..Len(kinds) : (s \o new)[Len(s) + i] = new[i]
  BY <1>1
<1> QED BY <1>1, <1>2 DEF Grown, new

LEMMA Drops ==
  ASSUME NEW s \in Seq(Messages)
  PROVE  /\ Begins(s, s) /\ Begins(DropAnswer(s), s)
         /\ s # <<>> => Begins(Front(s), s)
         /\ Answers(s) # {} => Begins(SubSeq(s, 1, LastAnswer(s) - 1), s)
<1>1. Begins(s, s)
  BY DEF Begins
<1>2. \A n \in 0..Len(s) : Begins(SubSeq(s, 1, n), s)
  BY DEF Begins
<1>3. s # <<>> => Begins(Front(s), s)
  BY <1>2 DEF Front
<1>4. Begins(DropAnswer(s), s)
  BY <1>1, <1>3 DEF DropAnswer
<1>5. Answers(s) # {} => LastAnswer(s) - 1 \in 0..Len(s)
  <2> SUFFICES ASSUME Answers(s) # {} PROVE LastAnswer(s) - 1 \in 0..Len(s)
    OBVIOUS
  <2>1. Answers(s) \subseteq 1..Len(s) /\ Len(s) \in Nat
    BY DEF Answers
  <2>2. \E i \in Answers(s) : \A j \in Answers(s) : j <= i
    BY <2>1, LastIndex
  <2>3. LastAnswer(s) \in Answers(s)
    BY <2>2 DEF LastAnswer
  <2> QED BY <2>1, <2>3
<1> QED BY <1>1, <1>2, <1>3, <1>4, <1>5

LEMMA Queues ==
  ASSUME NEW S, NEW q \in Seq(S)
  PROVE  Poll(q) \in Seq(S) /\ Rest(q) \in Seq(S)
BY DEF Poll, Rest

LEMMA Joined ==
  ASSUME NEW S, NEW s \in Seq(S), NEW t \in Seq(S)
  PROVE  s \o t \in Seq(S)
OBVIOUS

(* Contexts built from a branch p of the session tree. *)
Rising(p)   == \A i, j \in 1..Len(p) : i < j => p[i].at < p[j].at
CutIn(p, n) == \A j \in 1..Len(p) : p[j].at = n => p[j].kind # "tool"
Cuts(p)     == \A i \in 1..Len(p) : p[i].kind \in Compaction => CutIn(p, p[i].from)

LEMMA Concatenated ==
  ASSUME NEW S, NEW s \in Seq(S), NEW t \in Seq(S)
  PROVE  /\ s \o t \in Seq(S) /\ Len(s \o t) = Len(s) + Len(t)
         /\ \A i \in 1..Len(s) : (s \o t)[i] = s[i]
         /\ \A i \in 1..Len(t) : (s \o t)[Len(s) + i] = t[i]
OBVIOUS

(* x, then a, then b. *)
LEMMA Assembled ==
  ASSUME NEW x \in Messages, NEW a \in Seq(Messages), NEW b \in Seq(Messages),
         NEW s, s = <<x>> \o a \o b
  PROVE  /\ s \in Seq(Messages) /\ Len(s) = 1 + Len(a) + Len(b) /\ s[1] = x
         /\ \A i \in 1..Len(a) : s[1 + i] = a[i]
         /\ \A i \in 1..Len(b) : s[1 + Len(a) + i] = b[i]
<1> DEFINE h == <<x>>
<1>1. h \in Seq(Messages) /\ Len(h) = 1 /\ h[1] = x
  OBVIOUS
<1>a. h \in Seq(Messages)
  BY <1>1
<1> HIDE DEF h
<1> DEFINE t == h \o a
<1>2. /\ t \in Seq(Messages) /\ Len(t) = 1 + Len(a) /\ t[1] = x
      /\ \A i \in 1..Len(a) : t[1 + i] = a[i]
  <2>1. /\ t \in Seq(Messages) /\ Len(t) = Len(h) + Len(a)
        /\ \A i \in 1..Len(h) : t[i] = h[i]
        /\ \A i \in 1..Len(a) : t[Len(h) + i] = a[i]
    BY <1>a, SMTT(30), Concatenated
  <2> HIDE DEF t
  <2> QED BY <1>1, <2>1
<1> HIDE DEF t
<1>3. s = t \o b
  BY DEF t, h
<1> QED BY <1>2, <1>3

LEMMA Newest ==
  ASSUME NEW p \in Seq(Messages), Compactions(p) # {}
  PROVE  Latest(p) \in 1..Len(p) /\ p[Latest(p)].kind \in Compaction
<1>1. Compactions(p) \subseteq 1..Len(p) /\ Len(p) \in Nat
  BY DEF Compactions
<1>2. \E i \in Compactions(p) : \A j \in Compactions(p) : j <= i
  BY <1>1, LastIndex
<1>3. Latest(p) \in Compactions(p)
  BY <1>2 DEF Latest
<1> QED BY <1>3 DEF Compactions

(* What ContextOf puts together: a compaction, what it kept and the rest. *)
LEMMA ContextParts ==
  ASSUME NEW p \in Seq(Messages), Compactions(p) # {}
  PROVE  \E c \in 1..Len(p), a \in Seq(Messages) :
           /\ p[c].kind \in Compaction
           /\ ContextOf(p) = <<p[c]>> \o a \o SubSeq(p, c + 1, Len(p))
           /\ \/ a = <<>>
              \/ \E k \in 1..Len(p) : p[k].at = p[c].from /\ a = SubSeq(p, k, c - 1)
<1> DEFINE c == Latest(p)
           kept == {i \in 1..(c - 1) : p[i].at = p[c].from}
           k == IndexOf(p, p[c].from)
           a == IF kept = {} THEN <<>> ELSE SubSeq(p, k, c - 1)
<1>1. c \in 1..Len(p) /\ p[c].kind \in Compaction
  BY Newest
<1>2. ContextOf(p) = <<p[c]>> \o a \o SubSeq(p, c + 1, Len(p))
  BY DEF ContextOf
<1> HIDE DEF c
<1>3. kept # {} => k \in 1..Len(p) /\ p[k].at = p[c].from
  BY <1>1 DEF IndexOf
<1> HIDE DEF k
<1>4. a \in Seq(Messages)
  <2>1. kept # {} => SubSeq(p, k, c - 1) \in Seq(Messages)
    BY <1>1, <1>3
  <2>2. <<>> \in Seq(Messages)
    OBVIOUS
  <2> QED BY <2>1, <2>2
<1>5. a = <<>> \/ \E j \in 1..Len(p) : p[j].at = p[c].from /\ a = SubSeq(p, j, c - 1)
  BY <1>3
<1> HIDE DEF a
<1> QED BY <1>1, <1>2, <1>4, <1>5

(* Where a compaction may cut: at a message that is no tool result. *)
LEMMA CutFacts ==
  ASSUME NEW p \in Seq(Messages), NEW i \in CutPoints(p)
  PROVE  /\ i \in 1..Len(p) /\ p[i].kind # "tool"
         /\ p[i] \in Messages /\ p[i].at \in Nat
<1>1. Boundary(p) \in Nat
  <2>1. CASE Compactions(p) = {}
    BY <2>1 DEF Boundary
  <2>2. CASE Compactions(p) # {}
    <3> DEFINE c == Latest(p)
    <3>1. c \in 1..Len(p)
      BY <2>2, Newest
    <3>2. (\E j \in DOMAIN p : p[j].at = p[c].from) => IndexOf(p, p[c].from) \in DOMAIN p
      BY DEF IndexOf
    <3>3. Boundary(p) \in {c + 1} \cup DOMAIN p
      BY <2>2, <3>2 DEF Boundary
    <3>4. DOMAIN p \subseteq Nat
      OBVIOUS
    <3> HIDE DEF c
    <3> QED BY <3>1, <3>3, <3>4
  <2> QED BY <2>1, <2>2
<1>2. i \in (Boundary(p) + 1)..Len(p) /\ p[i].kind \notin {"tool"} \cup Compaction
  BY DEF CutPoints
<1>3. i \in 1..Len(p)
  BY <1>1, <1>2
<1>4. p[i] \in Messages
  BY <1>3
<1>5. p[i].at \in Nat
  BY <1>4 DEF Messages
<1> QED BY <1>2, <1>3, <1>4, <1>5

LEMMA ContextType ==
  ASSUME NEW p \in Seq(Messages)
  PROVE  ContextOf(p) \in Seq(Messages)
<1>1. CASE Compactions(p) = {}
  BY <1>1 DEF ContextOf
<1>2. CASE Compactions(p) # {}
  <2>1. PICK c \in 1..Len(p), a \in Seq(Messages) :
               ContextOf(p) = <<p[c]>> \o a \o SubSeq(p, c + 1, Len(p))
    BY <1>2, ContextParts
  <2>2. p[c] \in Messages /\ SubSeq(p, c + 1, Len(p)) \in Seq(Messages)
    OBVIOUS
  <2> QED BY <2>1, <2>2, Assembled
<1> QED BY <1>1, <1>2

(* A compaction does not take a tool result away from its call. *)
LEMMA ContextPaired ==
  ASSUME NEW p \in Seq(Messages), Rising(p), Cuts(p), Paired(p)
  PROVE  Paired(ContextOf(p))
<1>1. CASE Compactions(p) = {}
  BY <1>1 DEF ContextOf
<1>2. CASE Compactions(p) # {}
  <2>1. PICK c \in 1..Len(p), a \in Seq(Messages) :
           /\ p[c].kind \in Compaction
           /\ ContextOf(p) = <<p[c]>> \o a \o SubSeq(p, c + 1, Len(p))
           /\ \/ a = <<>>
              \/ \E k \in 1..Len(p) : p[k].at = p[c].from /\ a = SubSeq(p, k, c - 1)
    BY <1>2, ContextParts
  <2> DEFINE b == SubSeq(p, c + 1, Len(p))
             s == ContextOf(p)
  <2>2. /\ p[c] \in Messages /\ b \in Seq(Messages) /\ Len(b) = Len(p) - c
        /\ \A i \in 1..Len(b) : b[i] = p[c + i]
    OBVIOUS
  <2> HIDE DEF b
  <2>3. /\ s \in Seq(Messages) /\ Len(s) = 1 + Len(a) + Len(b) /\ s[1] = p[c]
        /\ \A i \in 1..Len(a) : s[1 + i] = a[i]
        /\ \A i \in 1..Len(b) : s[1 + Len(a) + i] = b[i]
    <3>1. s = <<p[c]>> \o a \o b
      BY <2>1 DEF b
    <3>2. p[c] \in Messages /\ b \in Seq(Messages)
      BY <2>2
    <3> HIDE DEF s
    <3> QED BY <3>1, <3>2, Assembled
  <2> HIDE DEF s
  <2>4. p[c].kind # "tool" /\ p[c].kind \notin ToolCalls
    BY <2>1 DEF Compaction, ToolCalls
  <2>5. ASSUME NEW i \in 1..Len(a), a[i].kind = "tool" PROVE i > 1 /\ a[i - 1].kind \in ToolCalls
    <3>1. PICK k \in 1..Len(p) : p[k].at = p[c].from /\ a = SubSeq(p, k, c - 1)
      BY <2>1, <2>5
    <3>2. i \in 1..(c - k) /\ \A j \in 1..(c - k) : a[j] = p[k + j - 1]
      BY <3>1
    <3>3. p[k].kind # "tool"
      BY <2>1, <3>1 DEF Cuts, CutIn
    <3>4. i > 1
      BY <2>5, <3>2, <3>3
    <3>5. p[k + i - 1].kind = "tool" /\ k + i - 1 \in 1..Len(p)
      BY <2>5, <3>2
    <3>6. p[k + i - 2].kind \in ToolCalls
      <4> DEFINE j == k + i - 1
      <4>1. j \in DOMAIN p /\ p[j].kind = "tool" /\ j - 1 = k + i - 2
        BY <3>5
      <4>2. p[j - 1].kind \in ToolCalls
        BY <4>1 DEF Paired
      <4> QED BY <4>1, <4>2
    <3>7. a[i - 1] = p[k + i - 2]
      BY <3>2, <3>4
    <3> QED BY <3>4, <3>6, <3>7
  <2>6. ASSUME NEW i \in 1..Len(b), b[i].kind = "tool" PROVE i > 1 /\ b[i - 1].kind \in ToolCalls
    <3>1. p[c + i].kind = "tool" /\ c + i \in 1..Len(p)
      BY <2>2, <2>6
    <3>2. p[c + i - 1].kind \in ToolCalls
      BY <3>1 DEF Paired
    <3>3. i > 1
      BY <2>4, <3>2
    <3>4. b[i - 1] = p[c + i - 1]
      BY <2>2, <3>3
    <3> QED BY <3>2, <3>3, <3>4
  <2>7. ASSUME NEW i \in 1..Len(s), s[i].kind = "tool" PROVE i > 1 /\ s[i - 1].kind \in ToolCalls
    <3>1. i # 1
      BY <2>3, <2>4, <2>7
    <3>2. CASE i <= 1 + Len(a)
      <4>1. i - 1 \in 1..Len(a) /\ s[i] = a[i - 1]
        BY <2>3, <3>1, <3>2
      <4>2. i - 1 > 1 /\ a[i - 2].kind \in ToolCalls
        BY <2>5, <2>7, <4>1
      <4>3. s[i - 1] = a[i - 2]
        BY <2>3, <4>1, <4>2
      <4> QED BY <4>2, <4>3
    <3>3. CASE i > 1 + Len(a)
      <4>0. Len(a) \in Nat /\ Len(b) \in Nat
        BY <2>2
      <4>1. PICK j \in 1..Len(b) : i = 1 + Len(a) + j
        <5>1. i - 1 - Len(a) \in 1..Len(b) /\ i = 1 + Len(a) + (i - 1 - Len(a))
          BY <2>3, <3>3, <4>0
        <5> QED BY <5>1
      <4>2. j > 1 /\ b[j - 1].kind \in ToolCalls
        BY <2>3, <2>6, <2>7, <4>1
      <4>3. s[i - 1] = b[j - 1]
        <5>1. j - 1 \in 1..Len(b) /\ 1 + Len(a) + (j - 1) = i - 1
          BY <4>0, <4>1, <4>2
        <5> QED BY <2>3, <5>1
      <4> QED BY <4>1, <4>2, <4>3
    <3> QED BY <3>2, <3>3, <2>3
  <2>8. DOMAIN s = 1..Len(s)
    BY <2>3
  <2>9. Paired(s)
    BY <2>7, <2>8 DEF Paired
  <2> QED BY <2>9 DEF s
<1> QED BY <1>1, <1>2

-----------------------------------------------------------------------------
(* Types. *)

Ats == {"idle", "running", "post", "sleep", "settle", "waiting"} \cup Preflight \cup Compacting
Thens == {"prompt", "loop", "mid"}
Queue == Seq({"user", "custom"})

LogOK  == ctx \in Seq(Messages) /\ path \in Seq(Messages) /\ clock \in Nat /\ navigation <= Len(path)
RunOK  == /\ active \in BOOLEAN /\ phase \in {"none", "stream", "tools"} /\ aborted \in BOOLEAN
          /\ last \in Messages \cup {Nothing} /\ attempt \in 0..MaxRetries
          /\ recovered \in BOOLEAN /\ midTurn \in BOOLEAN /\ lapsed \in BOOLEAN /\ guard \in {"none", "retry", "stop"}
SideOK == /\ steering \in Queue /\ followUp \in Queue
          /\ customs \in Nat /\ bash \in Nat /\ nextTurn \in Nat
CallOK == call \in [Callers -> CallRecords]
HostOK == /\ manual \in CallRecords /\ navigation \in Nat /\ waiting \in BOOLEAN /\ refused \in BOOLEAN
          /\ inputs \in 0..MaxInputs /\ answers \in 0..MaxAnswers
TypeInv == LogOK /\ RunOK /\ SideOK /\ CallOK /\ HostOK

LEMMA CallTypes ==
  /\ Idle \in CallRecords
  /\ \A r \in CallRecords, a \in Ats : [r EXCEPT !.at = a] \in CallRecords
  /\ \A a \in Ats, n \in Nat : [Idle EXCEPT !.at = a, !.carried = n] \in CallRecords
  /\ \A a \in Ats, t \in Thens, b \in BOOLEAN : [Idle EXCEPT !.at = a, !.then = t, !.retry = b] \in CallRecords
  /\ \A r \in CallRecords, a \in Ats, n \in Nat : [r EXCEPT !.at = a, !.from = n] \in CallRecords
  /\ \A r \in CallRecords, b \in BOOLEAN : [r EXCEPT !.cancelled = b] \in CallRecords
BY DEF CallRecords, Idle, Ats, Thens, Preflight, Compacting

LEMMA InitTypeInv == Init => TypeInv
<1> SUFFICES ASSUME Init PROVE TypeInv
  OBVIOUS
<1>1. LogOK /\ SideOK
  BY DEF Init, LogOK, SideOK, Queue
<1>2. RunOK /\ HostOK
  <2>1. 0 \in 0..MaxRetries /\ 0 \in 0..MaxInputs /\ 0 \in 0..MaxAnswers /\ 0 \in Nat
    BY BoundsAssumption
  <2>2. RunOK
    BY <2>1, Zenon DEF Init, RunOK
  <2>3. HostOK
    BY <2>1, CallTypes, Zenon DEF Init, HostOK
  <2> QED BY <2>2, <2>3
<1>3. CallOK
  BY CallTypes DEF Init, CallOK
<1> QED BY <1>1, <1>2, <1>3 DEF TypeInv

(* The parts of the loop. *)
LEMMA SettleTypes ==
  ASSUME TypeInv, NEW c \in Callers, NEW s, Settle(c, s)
  PROVE  /\ CallOK' /\ active' \in BOOLEAN /\ UNCHANGED <<phase, aborted, recovered, lapsed>>
         /\ steering' \in Queue /\ followUp' \in Queue /\ customs' \in Nat /\ bash' \in Nat
<1>1. [Idle EXCEPT !.at = "settle"] \in CallRecords
  BY CallTypes DEF Ats
<1> QED BY <1>1 DEF Settle, TypeInv, CallOK, SideOK

LEMMA StartTypes ==
  ASSUME TypeInv, NEW c \in Callers, NEW s, NEW kinds, StartAgent(c, s, kinds)
  PROVE  /\ CallOK' /\ active' \in BOOLEAN /\ phase' = "stream" /\ aborted' = FALSE
         /\ recovered' \in BOOLEAN /\ lapsed' \in BOOLEAN /\ customs' \in Nat /\ bash' \in Nat
<1>1. [Idle EXCEPT !.at = "running"] \in CallRecords
  BY CallTypes DEF Ats
<1> QED BY <1>1 DEF StartAgent, TypeInv, CallOK, SideOK, RunOK

LoopTyped ==
  /\ CallOK' /\ active' \in BOOLEAN /\ phase' \in {"none", "stream", "tools"}
  /\ aborted' \in BOOLEAN /\ recovered' \in BOOLEAN /\ lapsed' \in BOOLEAN /\ refused' \in BOOLEAN
  /\ steering' \in Queue /\ followUp' \in Queue /\ customs' \in Nat /\ bash' \in Nat

LEMMA DecideTypes ==
  ASSUME TypeInv, NEW c \in Callers, NEW s, NEW goOn, Decide(c, s, goOn)
  PROVE  LoopTyped
<1>0. Rest(steering) \in Queue /\ Rest(followUp) \in Queue
  BY Queues DEF TypeInv, SideOK, Queue
<1>1. CASE Settle(c, s) /\ refused' \in {TRUE, refused}
  BY <1>1, SettleTypes DEF TypeInv, RunOK, HostOK, LoopTyped
<1>2. CASE /\ \E kinds : StartAgent(c, s, kinds)
           /\ steering' = Rest(steering) /\ followUp' \in {followUp, Rest(followUp)} /\ UNCHANGED refused
  BY <1>0, <1>2, StartTypes DEF TypeInv, SideOK, HostOK, LoopTyped
<1>3. \/ Settle(c, s) /\ refused' \in {TRUE, refused}
      \/ /\ \E kinds : StartAgent(c, s, kinds)
         /\ steering' = Rest(steering) /\ followUp' \in {followUp, Rest(followUp)} /\ UNCHANGED refused
  BY DEF Decide, Continue
<1> QED BY <1>1, <1>2, <1>3

LEMMA CompactionTypes ==
  ASSUME TypeInv, NEW c \in Callers, NEW s, NEW then \in Thens, NEW retry \in BOOLEAN,
         StartCompaction(c, s, then, retry)
  PROVE  /\ CallOK' /\ UNCHANGED <<phase, aborted, active, lapsed, customs, bash, steering, followUp, refused>>
<1>1. [Idle EXCEPT !.at = "compactAuth", !.then = then, !.retry = retry] \in CallRecords
  BY CallTypes DEF Ats, Compacting
<1> QED BY <1>1 DEF StartCompaction, TypeInv, CallOK

LEMMA CollectTypes ==
  ASSUME TypeInv, NEW c \in Callers, Collect(c)
  PROVE  CallOK' /\ nextTurn' \in Nat
<1>1. [Idle EXCEPT !.at = "before", !.carried = nextTurn] \in CallRecords
  BY CallTypes DEF Ats, Preflight, TypeInv, SideOK
<1> QED BY <1>1 DEF Collect, TypeInv, CallOK

LEMMA CheckedTypes ==
  ASSUME TypeInv, NEW c \in Callers, NEW v, NEW then \in Thens, CheckedCompaction(c, v, then)
  PROVE  LoopTyped
<1>1. recovered' \in BOOLEAN /\ \E s : StartCompaction(c, s, then, v = "recover")
  BY DEF CheckedCompaction
<1>2. (v = "recover") \in BOOLEAN
  OBVIOUS
<1>3. /\ CallOK' /\ UNCHANGED <<phase, aborted, active, lapsed, customs, bash, steering, followUp, refused>>
  BY <1>1, <1>2, CompactionTypes
<1> QED BY <1>1, <1>3 DEF LoopTyped, TypeInv, RunOK, SideOK, HostOK

LEMMA AfterRetryTypes ==
  ASSUME TypeInv, NEW c \in Callers, NEW m, AfterRetry(c, m)
  PROVE  LoopTyped /\ attempt' \in 0..MaxRetries /\ midTurn' \in BOOLEAN
<1>1. attempt' \in 0..MaxRetries /\ midTurn' \in BOOLEAN
  <2>1. attempt' \in {0, attempt} /\ midTurn' = FALSE
    BY Zenon DEF AfterRetry
  <2>2. 0 \in 0..MaxRetries /\ attempt \in 0..MaxRetries
    BY BoundsAssumption DEF TypeInv, RunOK
  <2> QED BY <2>1, <2>2, Zenon
<1>2. CASE (\E s : StartCompaction(c, s, "mid", TRUE)) /\ UNCHANGED recovered
  <2>1. /\ CallOK' /\ UNCHANGED <<phase, aborted, active, lapsed, customs, bash, steering, followUp, refused>>
    BY <1>2, CompactionTypes DEF Thens
  <2> QED BY <1>1, <1>2, <2>1 DEF LoopTyped, TypeInv, RunOK, SideOK, HostOK
<1>3. CASE Decide(c, ctx, HasQueued)
  BY <1>1, <1>3, DecideTypes
<1>4. CASE \E v : CheckedCompaction(c, v, "loop")
  BY <1>1, <1>4, CheckedTypes DEF Thens
<1> QED BY <1>2, <1>3, <1>4 DEF AfterRetry

LEMMA ReturnsTypes ==
  ASSUME TypeInv, NEW c \in Callers, NEW s, NEW yes, Returns(c, s, yes)
  PROVE  LoopTyped /\ nextTurn' \in Nat
<1>1. CASE Collect(c) /\ UNCHANGED <<active, phase, aborted, recovered, lapsed, steering, followUp, customs, bash, refused>>
  BY <1>1, CollectTypes DEF LoopTyped, TypeInv, RunOK, SideOK, HostOK
<1>2. CASE (\E goOn : Decide(c, s, goOn)) /\ UNCHANGED nextTurn
  BY <1>2, DecideTypes DEF TypeInv, SideOK
<1> QED BY <1>1, <1>2 DEF Returns

(* What a call in the loop or in its preflight does, but for the log. *)
Typed == RunOK' /\ SideOK' /\ CallOK' /\ HostOK'

LEMMA LoopTypes ==
  ASSUME TypeInv, LoopTyped, nextTurn' \in Nat, UNCHANGED <<hostVars, envVars>>,
         last' \in Messages \cup {Nothing}, attempt' \in 0..MaxRetries, midTurn' \in BOOLEAN,
         guard' \in {"none", "retry", "stop"}
  PROVE  Typed
<1>1. RunOK' /\ SideOK' /\ CallOK'
  BY Zenon DEF LoopTyped, RunOK, SideOK
<1>2. HostOK'
  BY Zenon DEF LoopTyped, HostOK, hostVars, envVars, TypeInv
<1> QED BY <1>1, <1>2 DEF Typed

LEMMA PostTypes ==
  ASSUME TypeInv, NEW c \in Callers, PostRun(c) \/ RetrySleep(c)
  PROVE  Typed
<1>1. /\ UNCHANGED <<nextTurn, hostVars, envVars>> /\ last' \in {last, Nothing} /\ guard' \in {guard, "none"}
  BY DEF PostRun, RetrySleep
<1>2. /\ nextTurn' \in Nat /\ last' \in Messages \cup {Nothing} /\ guard' \in {"none", "retry", "stop"}
  BY <1>1 DEF TypeInv, RunOK, SideOK
<1>3. LoopTyped /\ attempt' \in 0..MaxRetries /\ midTurn' \in BOOLEAN
  <2>0. attempt \in 0..MaxRetries /\ midTurn \in BOOLEAN
    BY DEF TypeInv, RunOK
  <2>1. CASE (\E s, goOn : Decide(c, s, goOn)) /\ UNCHANGED <<attempt, midTurn>>
    BY <2>0, <2>1, DecideTypes
  <2>2. CASE \E m : AfterRetry(c, m)
    BY <2>2, AfterRetryTypes
  <2>3. CASE /\ attempt < MaxRetries /\ attempt' = attempt + 1 /\ call' = [call EXCEPT ![c].at = "sleep"]
             /\ UNCHANGED <<active, phase, aborted, recovered, midTurn, lapsed, steering, followUp, customs,
                            bash, refused>>
    <3>1. attempt' \in 0..MaxRetries
      BY <2>0, <2>3, BoundsAssumption
    <3>2. [call[c] EXCEPT !.at = "sleep"] \in CallRecords
      BY CallTypes DEF Ats, TypeInv, CallOK
    <3>3. CallOK'
      BY <2>3, <3>2 DEF TypeInv, CallOK
    <3> QED BY <2>0, <2>3, <3>1, <3>3 DEF LoopTyped, TypeInv, RunOK, SideOK, HostOK
  <2> QED BY <2>1, <2>2, <2>3 DEF PostRun, RetrySleep, MayRetry
<1> QED BY <1>1, <1>2, <1>3, LoopTypes

LEMMA AutoTypes ==
  ASSUME TypeInv, NEW c \in Callers, CompactAuth(c) \/ CompactSummary(c) \/ CompactDone(c)
  PROVE  Typed
<1>1. UNCHANGED <<last, attempt, midTurn, guard, hostVars, envVars>>
  BY DEF CompactAuth, CompactSummary, CompactDone
<1>2. /\ last' \in Messages \cup {Nothing} /\ attempt' \in 0..MaxRetries /\ midTurn' \in BOOLEAN
      /\ guard' \in {"none", "retry", "stop"}
  BY <1>1 DEF TypeInv, RunOK
<1>3. LoopTyped /\ nextTurn' \in Nat
  <2>1. CASE \E s, yes : Returns(c, s, yes)
    BY <2>1, ReturnsTypes
  <2>2. CASE CallOK' /\ UNCHANGED <<active, phase, aborted, recovered, lapsed, sideVars, refused>>
    BY <2>2 DEF LoopTyped, TypeInv, RunOK, SideOK, HostOK, sideVars
  <2>3. ASSUME NEW i \in CutPoints(path), call' = [call EXCEPT ![c].at = "summary", ![c].from = path[i].at]
        PROVE  CallOK'
    <3>1. path[i].at \in Nat
      BY CutFacts DEF TypeInv, LogOK
    <3>2. [call[c] EXCEPT !.at = "summary", !.from = path[i].at] \in CallRecords
      BY <3>1, CallTypes DEF Ats, Compacting, TypeInv, CallOK
    <3>3. call' = [call EXCEPT ![c] = [call[c] EXCEPT !.at = "summary", !.from = path[i].at]]
      BY <2>3 DEF TypeInv, CallOK
    <3> QED BY <3>2, <3>3 DEF TypeInv, CallOK
  <2>4. ASSUME call' = [call EXCEPT ![c].at = "compacted"] PROVE CallOK'
    <3>1. [call[c] EXCEPT !.at = "compacted"] \in CallRecords
      BY CallTypes DEF Ats, Compacting, TypeInv, CallOK
    <3> QED BY <2>4, <3>1 DEF TypeInv, CallOK
  <2> QED BY <2>1, <2>2, <2>3, <2>4 DEF CompactAuth, CompactSummary, CompactDone
<1> QED BY <1>1, <1>2, <1>3, LoopTypes

LEMMA InputTypes ==
  ASSUME TypeInv, Arrival
  PROVE  inputs' \in 0..MaxInputs /\ answers' \in 0..MaxAnswers
BY BoundsAssumption DEF Arrival, TypeInv, HostOK

LEMMA PendingTypes ==
  ASSUME TypeInv
  PROVE  Pending \in Seq(Plain)
<1>1. Repeat("bash", bash) \in Seq(Plain) /\ Repeat("custom", customs) \in Seq(Plain)
  BY Repeats DEF Plain, TypeInv, SideOK
<1> QED BY <1>1, Joined DEF Pending

(* A call changes its place, or becomes idle. *)
LEMMA PlaceTypes ==
  ASSUME TypeInv, NEW c \in Callers, NEW a \in Ats,
         call' \in {[call EXCEPT ![c].at = a], [call EXCEPT ![c] = Idle]}
  PROVE  CallOK'
<1>1. [call[c] EXCEPT !.at = a] \in CallRecords /\ Idle \in CallRecords
  BY CallTypes DEF TypeInv, CallOK
<1>2. CASE call' = [call EXCEPT ![c].at = a]
  <2>1. call' = [call EXCEPT ![c] = [call[c] EXCEPT !.at = a]]
    BY <1>2
  <2> QED BY <1>1, <2>1 DEF TypeInv, CallOK
<1>3. CASE call' = [call EXCEPT ![c] = Idle]
  BY <1>1, <1>3 DEF TypeInv, CallOK
<1> QED BY <1>2, <1>3

LEMMA PromptTypes ==
  ASSUME TypeInv, NEW c \in Callers, PromptCall(c) \/ PromptInput(c) \/ PromptAuth(c)
  PROVE  Typed
<1>1. CASE PromptCall(c)
  <2>1. CallOK'
    BY <1>1, PlaceTypes DEF PromptCall, Ats, Preflight
  <2>2. RunOK' /\ SideOK'
    BY <1>1, Zenon DEF PromptCall, TypeInv, RunOK, SideOK, runVars, sideVars
  <2>3. HostOK'
    <3>1. inputs' \in 0..MaxInputs /\ answers' \in 0..MaxAnswers
      BY <1>1, InputTypes DEF PromptCall, Input
    <3> QED BY <1>1, <3>1, Zenon DEF PromptCall, TypeInv, HostOK, hostVars
  <2> QED BY <2>1, <2>2, <2>3 DEF Typed
<1>2. CASE PromptInput(c)
  <2>1. CallOK'
    BY <1>2, PlaceTypes DEF PromptInput, Ats, Preflight
  <2>2. RunOK' /\ HostOK'
    BY <1>2, Zenon DEF PromptInput, TypeInv, RunOK, HostOK, runVars, hostVars, envVars
  <2>3. SideOK'
    <3>1. Append(steering, "user") \in Queue /\ Append(followUp, "user") \in Queue /\ 0 \in Nat
      BY DEF TypeInv, SideOK, Queue
    <3>2. /\ steering' \in {steering, Append(steering, "user")} /\ followUp' \in {followUp, Append(followUp, "user")}
          /\ customs' \in {0, customs} /\ bash' \in {0, bash} /\ nextTurn' = nextTurn
      BY <1>2 DEF PromptInput, sideVars
    <3> QED BY <3>1, <3>2 DEF TypeInv, SideOK
  <2> QED BY <2>1, <2>2, <2>3 DEF Typed
<1>3. CASE PromptAuth(c)
  <2>1. UNCHANGED <<last, attempt, midTurn, guard, hostVars, envVars>>
    BY <1>3 DEF PromptAuth, runVars
  <2>2. /\ last' \in Messages \cup {Nothing} /\ attempt' \in 0..MaxRetries /\ midTurn' \in BOOLEAN
        /\ guard' \in {"none", "retry", "stop"}
    BY <2>1 DEF TypeInv, RunOK
  <2>3. LoopTyped /\ nextTurn' \in Nat
    <3>1. CASE call' = [call EXCEPT ![c] = Idle] /\ UNCHANGED <<runVars, sideVars, refused>>
      <4>1. CallOK'
        BY <3>1, PlaceTypes DEF Ats
      <4> QED BY <3>1, <4>1 DEF LoopTyped, TypeInv, RunOK, SideOK, HostOK, runVars, sideVars
    <3>2. CASE Collect(c) /\ UNCHANGED <<runVars, steering, followUp, customs, bash, refused>>
      BY <3>2, CollectTypes DEF LoopTyped, TypeInv, RunOK, SideOK, HostOK, runVars
    <3>3. CASE (\E v : CheckedCompaction(c, v, "prompt")) /\ UNCHANGED nextTurn
      <4>1. LoopTyped
        BY <3>3, CheckedTypes DEF Thens
      <4> QED BY <3>3, <4>1 DEF TypeInv, SideOK
    <3> QED BY <1>3, <3>1, <3>2, <3>3 DEF PromptAuth
  <2> QED BY <2>1, <2>2, <2>3, LoopTypes
<1> QED BY <1>1, <1>2, <1>3

LEMMA RunTypes ==
  ASSUME TypeInv, NEW c \in Callers, StartRun(c) \/ TriggerTurn(c)
  PROVE  Typed
<1>1. PICK kinds : Run(c, kinds)
  BY DEF StartRun, TriggerTurn
<1>2. UNCHANGED <<last, attempt, midTurn, guard, nextTurn, hostVars, refused>>
  BY DEF StartRun, TriggerTurn
<1>3. inputs' \in 0..MaxInputs /\ answers' \in 0..MaxAnswers
  BY InputTypes DEF StartRun, TriggerTurn, envVars, TypeInv, HostOK
<1>4. LoopTyped
  <2>0. Rest(steering) \in Queue
    BY Queues DEF TypeInv, SideOK, Queue
  <2>1. CASE Settle(c, ctx)
    BY <1>2, <2>1, SettleTypes DEF LoopTyped, TypeInv, RunOK, HostOK
  <2>2. CASE (\E s, k : StartAgent(c, s, k)) /\ steering' = Rest(steering) /\ UNCHANGED followUp
    BY <1>2, <2>0, <2>2, StartTypes DEF LoopTyped, TypeInv, SideOK, HostOK
  <2> QED BY <1>1, <2>1, <2>2 DEF Run
<1>5. RunOK' /\ CallOK'
  BY <1>2, <1>4, Zenon DEF LoopTyped, RunOK, TypeInv
<1>6. SideOK'
  BY <1>2, <1>4, Zenon DEF LoopTyped, SideOK, TypeInv
<1>7. HostOK'
  BY <1>2, <1>3, Zenon DEF hostVars, HostOK, TypeInv
<1> QED BY <1>5, <1>6, <1>7 DEF Typed

LEMMA AsideTypes ==
  ASSUME TypeInv, SendCustom \/ RecordBash
  PROVE  Typed
<1>1. UNCHANGED <<runVars, call, hostVars, refused>> /\ Input
  BY DEF SendCustom, RecordBash
<1>2. inputs' \in 0..MaxInputs /\ answers' \in 0..MaxAnswers
  BY <1>1, InputTypes DEF Input
<1>3. RunOK' /\ CallOK' /\ HostOK'
  BY <1>1, <1>2, Zenon DEF TypeInv, RunOK, CallOK, HostOK, runVars, hostVars
<1>4. SideOK'
  <2>1. /\ Append(steering, "custom") \in Queue /\ Append(followUp, "custom") \in Queue
        /\ customs + 1 \in Nat /\ bash + 1 \in Nat /\ nextTurn + 1 \in Nat
    BY DEF TypeInv, SideOK, Queue
  <2>2. /\ steering' \in {steering, Append(steering, "custom")}
        /\ followUp' \in {followUp, Append(followUp, "custom")}
        /\ customs' \in {customs, customs + 1} /\ bash' \in {bash, bash + 1}
        /\ nextTurn' \in {nextTurn, nextTurn + 1}
    BY DEF SendCustom, RecordBash
  <2> QED BY <2>1, <2>2 DEF TypeInv, SideOK
<1> QED BY <1>3, <1>4 DEF Typed

LEMMA StreamTypes ==
  ASSUME TypeInv, NEW c \in Callers, (\E k \in AnswerKinds : StreamEnds(c, k)) \/ ToolsEnd(c)
  PROVE  Typed
<1>0. Rest(steering) \in Queue /\ Rest(followUp) \in Queue /\ 0 \in Nat
  BY Queues DEF TypeInv, SideOK, Queue
<1>1. CallOK'
  <2>1. call' \in {call, [call EXCEPT ![c].at = "post"]}
    BY DEF StreamEnds, ToolsEnd, WouldStop, EndTurn
  <2> QED BY <2>1, PlaceTypes DEF Ats, TypeInv, CallOK
<1>2. SideOK'
  <2>1. /\ steering' \in {steering, Rest(steering)} /\ followUp' \in {followUp, Rest(followUp)}
        /\ customs' \in {customs, 0} /\ UNCHANGED <<bash, nextTurn>>
    BY DEF StreamEnds, ToolsEnd, WouldStop, EndTurn
  <2> QED BY <1>0, <2>1 DEF TypeInv, SideOK
<1>3. RunOK'
  <2>1. active' = active /\ guard' = guard /\ lapsed' = lapsed /\ phase' \in {"none", "stream", "tools"}
    BY DEF StreamEnds, ToolsEnd, WouldStop, EndTurn
  <2>2. recovered' \in BOOLEAN
    BY DEF StreamEnds, ToolsEnd, WouldStop, EndTurn
  <2>3. aborted' \in BOOLEAN /\ midTurn' \in BOOLEAN
    BY Zenon DEF StreamEnds, OnAnswer, ToolsEnd, TypeInv, RunOK
  <2>4. attempt' \in 0..MaxRetries
    <3>1. attempt' \in {0, attempt}
      BY Zenon DEF StreamEnds, OnAnswer, ToolsEnd
    <3> QED BY <3>1, BoundsAssumption DEF TypeInv, RunOK
  <2>5. last' \in Messages \cup {Nothing}
    <3>1. ASSUME NEW k \in AnswerKinds PROVE [kind |-> k, at |-> clock + 1, from |-> 0] \in Messages
      BY KindFacts DEF TypeInv, LogOK, Messages
    <3>2. last' = last \/ \E k \in AnswerKinds : last' = [kind |-> k, at |-> clock + 1, from |-> 0]
      BY DEF StreamEnds, OnAnswer, ToolsEnd
    <3> QED BY <3>1, <3>2 DEF TypeInv, RunOK
  <2> QED BY <2>1, <2>2, <2>3, <2>4, <2>5, Zenon DEF TypeInv, RunOK
<1>4. HostOK'
  <2>1. UNCHANGED <<hostVars, refused, inputs>> /\ answers' \in {answers, IF answers < MaxAnswers THEN answers + 1 ELSE answers}
    BY DEF StreamEnds, OnAnswer, ToolsEnd, envVars
  <2>2. answers' \in 0..MaxAnswers
    BY <2>1, BoundsAssumption DEF TypeInv, HostOK
  <2> QED BY <2>1, <2>2, Zenon DEF hostVars, HostOK, TypeInv
<1> QED BY <1>1, <1>2, <1>3, <1>4 DEF Typed

LEMMA SettledTypes ==
  ASSUME TypeInv, NEW c \in Callers, Settled(c)
  PROVE  Typed
<1>1. CallOK'
  BY PlaceTypes DEF Settled, Ats
<1>2. RunOK' /\ SideOK'
  BY Zenon DEF Settled, TypeInv, RunOK, SideOK, runVars, sideVars
<1>3. HostOK'
  BY Zenon DEF Settled, TypeInv, HostOK, RunOK, envVars
<1> QED BY <1>1, <1>2, <1>3 DEF Typed

(* abort() and abortCompaction() only mark calls as cancelled. *)
LEMMA CancelledCalls ==
  ASSUME TypeInv, Abort \/ AbortCompaction \/ Compact
  PROVE  /\ CallOK'
         /\ \A c \in Callers : /\ call'[c].at = call[c].at /\ call'[c].then = call[c].then
                               /\ call'[c].retry = call[c].retry /\ call'[c].from = call[c].from
                               /\ call'[c].carried = call[c].carried
<1>1. PICK cs : call' = Cancelled(cs)
  BY DEF Abort, AbortCompaction, Compact, Interrupt
<1>2. call' = [c \in Callers |-> call'[c]]
  BY <1>1 DEF Cancelled
<1>3. ASSUME NEW c \in Callers
      PROVE  \E b \in BOOLEAN : call'[c] = [call[c] EXCEPT !.cancelled = b]
  <2>1. call'[c] = [call[c] EXCEPT !.cancelled = @ \/ c \in cs]
    BY <1>1 DEF Cancelled
  <2>2. (call[c].cancelled \/ c \in cs) \in BOOLEAN
    OBVIOUS
  <2> QED BY <2>1, <2>2
<1>4. \A r \in CallRecords, b \in BOOLEAN :
        LET q == [r EXCEPT !.cancelled = b]
        IN  q.at = r.at /\ q.then = r.then /\ q.retry = r.retry /\ q.from = r.from /\ q.carried = r.carried
  BY DEF CallRecords
<1>5. \A c \in Callers : call[c] \in CallRecords
  BY DEF TypeInv, CallOK
<1>6. ASSUME NEW c \in Callers
      PROVE  /\ call'[c] \in CallRecords
             /\ call'[c].at = call[c].at /\ call'[c].then = call[c].then
             /\ call'[c].retry = call[c].retry /\ call'[c].from = call[c].from
             /\ call'[c].carried = call[c].carried
  <2>1. PICK b \in BOOLEAN : call'[c] = [call[c] EXCEPT !.cancelled = b]
    BY <1>3
  <2> DEFINE r == call[c]
             q == [r EXCEPT !.cancelled = b]
  <2>2. r \in CallRecords
    BY <1>5
  <2> HIDE DEF r
  <2>3. q \in CallRecords
    BY <2>2, CallTypes, Zenon
  <2>4. q.at = r.at /\ q.then = r.then /\ q.retry = r.retry /\ q.from = r.from /\ q.carried = r.carried
    BY <1>4, <2>2
  <2>5. call'[c] = q
    BY <2>1 DEF r
  <2> HIDE DEF q
  <2> QED BY <2>3, <2>4, <2>5 DEF r
<1>7. \A c \in Callers : call'[c] \in CallRecords
  BY <1>6
<1>8. CallOK'
  BY <1>2, <1>7 DEF CallOK
<1> QED BY <1>6, <1>8

LEMMA HostTypes ==
  ASSUME TypeInv, Abort \/ AbortCompaction \/ AbortResponse \/ Compact \/ Navigate
  PROVE  Typed
<1>1. /\ Arrival
      /\ UNCHANGED <<logVars, active, phase, last, attempt, recovered, midTurn, lapsed, customs, bash,
                     nextTurn, refused>>
  BY DEF Abort, AbortCompaction, AbortResponse, Compact, Navigate, Command, Input, runVars, sideVars
<1>2. inputs' \in 0..MaxInputs /\ answers' \in 0..MaxAnswers
  BY <1>1, InputTypes
<1>3. RunOK'
  <2>1. aborted' \in BOOLEAN
    BY Zenon DEF Abort, AbortCompaction, AbortResponse, Compact, Navigate, Interrupt, runVars, TypeInv, RunOK
  <2>2. guard' \in {"none", "retry", "stop"}
    BY DEF Abort, AbortCompaction, AbortResponse, Compact, Navigate, runVars, TypeInv, RunOK
  <2> QED BY <1>1, <2>1, <2>2, Zenon DEF TypeInv, RunOK
<1>4. SideOK'
  <2>1. steering' \in {steering, <<>>} /\ followUp' \in {followUp, <<>>}
    BY DEF Abort, AbortCompaction, AbortResponse, Compact, Navigate, Interrupt, sideVars
  <2>2. <<>> \in Queue
    BY DEF Queue
  <2> QED BY <1>1, <2>1, <2>2, Zenon DEF TypeInv, SideOK
<1>5. CallOK'
  BY CancelledCalls DEF AbortResponse, Navigate, TypeInv, CallOK
<1>6. HostOK'
  <2>1. manual' \in CallRecords
    <3>1. [Idle EXCEPT !.at = "waiting"] \in CallRecords
      BY CallTypes DEF Ats
    <3>2. [manual EXCEPT !.cancelled = @ \/ manual.at \in {"auth", "summary"}] \in CallRecords
      <4>1. (manual.cancelled \/ manual.at \in {"auth", "summary"}) \in BOOLEAN
        OBVIOUS
      <4> QED BY <4>1, CallTypes DEF TypeInv, HostOK
    <3>3. \/ manual' = manual \/ manual' = [Idle EXCEPT !.at = "waiting"]
          \/ manual' = [manual EXCEPT !.cancelled = @ \/ manual.at \in {"auth", "summary"}]
      BY DEF Abort, AbortCompaction, AbortResponse, Compact, Navigate, hostVars
    <3> QED BY <3>1, <3>2, <3>3 DEF TypeInv, HostOK
  <2>2. navigation' \in Nat
    BY DEF Abort, AbortCompaction, AbortResponse, Compact, Navigate, hostVars, TypeInv, HostOK, LogOK
  <2>3. waiting' \in BOOLEAN
    BY Zenon DEF Abort, AbortCompaction, AbortResponse, Compact, Navigate, Interrupt, hostVars, TypeInv, HostOK
  <2> QED BY <1>1, <1>2, <2>1, <2>2, <2>3, Zenon DEF TypeInv, HostOK
<1> QED BY <1>3, <1>4, <1>5, <1>6 DEF Typed

LEMMA HostStepTypes ==
  ASSUME TypeInv, HostStep
  PROVE  Typed
<1>1. UNCHANGED <<runVars, sideVars, call, waiting, refused, inputs, answers>>
  BY DEF HostStep, ManualBegins, ManualPrepared, ManualDone, NavigateDone, envVars
<1>2. manual' \in CallRecords
  <2>1. [Idle EXCEPT !.at = "auth"] \in CallRecords
    BY CallTypes DEF Ats, Preflight
  <2>2. \A i \in CutPoints(path) : [manual EXCEPT !.at = "summary", !.from = path[i].at] \in CallRecords
    BY CutFacts, CallTypes DEF Ats, Compacting, TypeInv, HostOK, LogOK
  <2>3. \/ manual' \in {manual, Idle, [Idle EXCEPT !.at = "auth"]}
        \/ \E i \in CutPoints(path) : manual' = [manual EXCEPT !.at = "summary", !.from = path[i].at]
    BY DEF HostStep, ManualBegins, ManualPrepared, ManualDone, NavigateDone
  <2> QED BY <2>1, <2>2, <2>3, CallTypes DEF TypeInv, HostOK
<1>3. navigation' \in Nat
  <2>1. navigation' \in {navigation, 0}
    BY DEF HostStep, ManualBegins, ManualPrepared, ManualDone, NavigateDone
  <2> QED BY <2>1 DEF TypeInv, HostOK
<1>4. RunOK' /\ SideOK' /\ CallOK'
  BY <1>1, Zenon DEF TypeInv, RunOK, SideOK, CallOK, runVars, sideVars
<1>5. HostOK'
  BY <1>1, <1>2, <1>3, Zenon DEF TypeInv, HostOK, envVars
<1> QED BY <1>4, <1>5 DEF Typed

-----------------------------------------------------------------------------
(* What a step does to the context and to the session file: it adds messages
   to a beginning of the one and to the whole of the other, compacts, or
   navigates. *)

Resets == {"user"} \cup (AnswerKinds \ (Failed \cup Truncated))

(* t is s, or s up to an answer; only if u, messages of the user came after it. *)
Shed(t, s, u) ==
  /\ Begins(t, s)
  /\ Len(t) < Len(s) => /\ IsAnswer(s[Len(t) + 1])
                        /\ \A i \in (Len(t) + 2)..Len(s) : s[i].kind = "user" => u

(* No message of the user comes after the last answer. *)
Answered(s) == \E j \in 1..Len(s) : IsAnswer(s[j]) /\ \A i \in j..Len(s) : s[i].kind # "user"

(* The compaction before the next step is asked for, and the context may be
   cut at an answer to an earlier message of the user. *)
Overlooks ==
  /\ midTurn
  /\ \E c \in Callers : call[c].at = "sleep" \/ (call[c].at = "post" /\ ~Answered(ctx))
Dropped(s) == Shed(s, ctx, Overlooks)

Said(s, kinds) ==
  /\ Dropped(s) /\ kinds \in Seq(NewKinds) /\ Record(s, kinds)
  /\ Grown(s, ctx', clock, kinds) /\ Grown(path, path', clock, kinds)
  /\ clock' = clock + Len(kinds)

(* A recovery is forgotten only for a user message or an answer. *)
Frees(kinds)   == recovered /\ ~recovered' => \E i \in 1..Len(kinds) : kinds[i] \in Resets
NoTools(kinds) == \A i \in 1..Len(kinds) : kinds[i] # "tool"
Calm == \E s, kinds : Said(s, kinds) /\ Frees(kinds) /\ NoTools(kinds)

LEMMA AnswerDropped ==
  ASSUME TypeInv
  PROVE  /\ Dropped(ctx) /\ Dropped(DropAnswer(ctx))
         /\ ctx # <<>> /\ IsAnswer(Last(ctx)) => Dropped(Front(ctx))
<1>1. ctx \in Seq(Messages) /\ Len(ctx) \in Nat
  BY DEF TypeInv, LogOK
<1>2. Dropped(ctx)
  BY <1>1, Drops DEF Dropped, Shed
<1>3. ASSUME ctx # <<>>, IsAnswer(Last(ctx)) PROVE Dropped(Front(ctx))
  <2>1. Begins(Front(ctx), ctx)
    BY <1>1, <1>3, Drops
  <2>2. Len(ctx) > 0 /\ Last(ctx) = ctx[Len(ctx)]
    BY <1>1, <1>3 DEF Last
  <2>3. Len(Front(ctx)) = Len(ctx) - 1
    <3>1. \A n \in 0..Len(ctx) : Len(SubSeq(ctx, 1, n)) = n
      BY <1>1
    <3>2. Len(ctx) - 1 \in 0..Len(ctx)
      BY <1>1, <2>2
    <3> QED BY <3>1, <3>2 DEF Front
  <2> QED BY <1>1, <1>3, <2>1, <2>2, <2>3 DEF Dropped, Shed
<1> QED BY <1>2, <1>3 DEF DropAnswer

LEMMA TurnDropped ==
  ASSUME TypeInv, NEW c \in Callers, call[c].at \in {"post", "sleep"}, midTurn, Answers(ctx) # {}
  PROVE  Dropped(SubSeq(ctx, 1, LastAnswer(ctx) - 1))
<1> DEFINE n == LastAnswer(ctx)
           t == SubSeq(ctx, 1, n - 1)
<1>1. ctx \in Seq(Messages) /\ Len(ctx) \in Nat /\ Answers(ctx) \subseteq 1..Len(ctx)
  BY DEF TypeInv, LogOK, Answers
<1>2. \E i \in Answers(ctx) : \A j \in Answers(ctx) : j <= i
  BY <1>1, LastIndex
<1>3. n \in Answers(ctx) /\ \A j \in Answers(ctx) : j <= n
  BY <1>2 DEF LastAnswer
<1>4. Begins(t, ctx)
  BY <1>1, Drops
<1> HIDE DEF n
<1>5. Len(t) = n - 1 /\ n \in 1..Len(ctx) /\ IsAnswer(ctx[n])
  BY <1>1, <1>3 DEF Answers
<1> HIDE DEF t
<1>6. Overlooks \/ Answered(ctx)
  BY DEF Overlooks
<1>7. ASSUME Answered(ctx), NEW i \in (n + 1)..Len(ctx) PROVE ctx[i].kind # "user"
  <2>1. PICK j \in 1..Len(ctx) : IsAnswer(ctx[j]) /\ \A k \in j..Len(ctx) : ctx[k].kind # "user"
    BY <1>7 DEF Answered
  <2>2. j \in Answers(ctx)
    BY <1>1, <2>1 DEF Answers
  <2>3. i \in j..Len(ctx)
    BY <1>1, <1>3, <1>5, <2>2
  <2> QED BY <2>1, <2>3
<1>8. Len(t) + 1 = n /\ Len(t) + 2 = n + 1
  BY <1>5
<1>9. \A i \in (n + 1)..Len(ctx) : ctx[i].kind = "user" => Overlooks
  BY <1>6, <1>7
<1> QED BY <1>4, <1>5, <1>8, <1>9 DEF Dropped, Shed, t, n

LEMMA SaidRecord ==
  ASSUME TypeInv, NEW s, Dropped(s), NEW kinds \in Seq(NewKinds), Record(s, kinds)
  PROVE  Said(s, kinds)
<1>1. kinds \in Seq(Kinds) /\ s \in Seq(Messages) /\ path \in Seq(Messages) /\ clock \in Nat
  BY KindFacts DEF TypeInv, LogOK, Dropped, Shed, Begins
<1>2. Grown(s, s \o New(kinds), clock, kinds) /\ Grown(path, path \o New(kinds), clock, kinds)
  BY <1>1, Growing
<1> QED BY <1>2 DEF Said, Record

LEMMA PlainKinds ==
  ASSUME NEW kinds \in Seq(Plain)
  PROVE  kinds \in Seq(NewKinds) /\ NoTools(kinds)
<1>1. \A i \in 1..Len(kinds) : kinds[i] \in Plain
  OBVIOUS
<1>2. kinds \in Seq(NewKinds)
  BY KindFacts
<1> QED BY <1>1, <1>2, KindFacts DEF NoTools

LEMMA Silence ==
  ASSUME TypeInv, NEW s, Dropped(s), ctx' = s, UNCHANGED <<path, clock>>, recovered => recovered'
  PROVE  Calm
<1>1. <<>> \in Seq(NewKinds) /\ <<>> \in Seq(Kinds) /\ Len(<<>>) = 0
  OBVIOUS
<1>2. Record(s, <<>>)
  <2>1. s \in Seq(Messages) /\ path \in Seq(Messages) /\ clock \in Nat
    BY DEF TypeInv, LogOK, Dropped, Shed, Begins
  <2>2. New(<<>>) \in Seq(Messages) /\ Len(New(<<>>)) = 0
    BY <1>1, <2>1, NewMessages
  <2>3. New(<<>>) = <<>>
    BY <2>2
  <2> QED BY <1>1, <2>1, <2>3 DEF Record
<1>3. Said(s, <<>>)
  BY <1>1, <1>2, SaidRecord
<1>4. Frees(<<>>) /\ NoTools(<<>>)
  BY <1>1 DEF Frees, NoTools
<1> QED BY <1>3, <1>4 DEF Calm

LEMMA Unspoken ==
  ASSUME TypeInv, UNCHANGED logVars, UNCHANGED recovered
  PROVE  Calm
<1>1. Dropped(ctx)
  BY AnswerDropped
<1> QED BY <1>1, Silence DEF logVars

LEMMA SettleSaid ==
  ASSUME TypeInv, NEW c, NEW s, Dropped(s), Settle(c, s)
  PROVE  Calm
<1>1. Pending \in Seq(NewKinds) /\ NoTools(Pending)
  BY PendingTypes, PlainKinds
<1>2. Said(s, Pending)
  BY <1>1, SaidRecord DEF Settle
<1>3. Frees(Pending)
  BY DEF Settle, Frees
<1> QED BY <1>1, <1>2, <1>3 DEF Calm

LEMMA StartSaid ==
  ASSUME TypeInv, NEW c, NEW s, Dropped(s), NEW kinds \in Seq(Plain), StartAgent(c, s, kinds)
  PROVE  Calm
<1>1. kinds \in Seq(NewKinds) /\ NoTools(kinds)
  BY PlainKinds
<1>2. Said(s, kinds)
  BY <1>1, SaidRecord DEF StartAgent
<1>3. Frees(kinds)
  <2> SUFFICES ASSUME recovered, ~recovered' PROVE \E i \in 1..Len(kinds) : kinds[i] \in Resets
    BY DEF Frees
  <2>1. "user" \in Range(kinds)
    BY DEF StartAgent
  <2>2. \E i \in DOMAIN kinds : kinds[i] = "user"
    BY <2>1 DEF Range
  <2>3. DOMAIN kinds = 1..Len(kinds)
    OBVIOUS
  <2> QED BY <2>2, <2>3 DEF Resets
<1> QED BY <1>1, <1>2, <1>3 DEF Calm

LEMMA Polls ==
  ASSUME TypeInv
  PROVE  Poll(steering) \in Seq(Plain) /\ Poll(followUp) \in Seq(Plain)
<1>1. Poll(steering) \in Queue /\ Poll(followUp) \in Queue
  BY Queues DEF TypeInv, SideOK, Queue
<1>2. Queue \subseteq Seq(Plain)
  BY DEF Queue, Plain
<1> QED BY <1>1, <1>2

LEMMA DecideSaid ==
  ASSUME TypeInv, NEW c, NEW s, Dropped(s), NEW goOn, Decide(c, s, goOn)
  PROVE  Calm
<1>1. Settle(c, s) \/ StartAgent(c, s, Poll(followUp)) \/ StartAgent(c, s, Poll(steering))
  BY DEF Decide, Continue
<1> QED BY <1>1, SettleSaid, StartSaid, Polls

LEMMA CompactionSaid ==
  ASSUME TypeInv, NEW c, NEW s, Dropped(s), NEW then, NEW retry, StartCompaction(c, s, then, retry),
         recovered => recovered'
  PROVE  Calm
BY Silence DEF StartCompaction

LEMMA CheckedSaid ==
  ASSUME TypeInv, NEW c, NEW v, NEW then, CheckedCompaction(c, v, then)
  PROVE  Calm
<1>1. Dropped(ctx) /\ Dropped(DropAnswer(ctx))
  BY AnswerDropped
<1>2. recovered => recovered'
  BY DEF CheckedCompaction
<1> QED BY <1>1, <1>2, CompactionSaid DEF CheckedCompaction

LEMMA AfterRetrySaid ==
  ASSUME TypeInv, NEW c \in Callers, call[c].at \in {"post", "sleep"}, NEW m, AfterRetry(c, m)
  PROVE  Calm
<1>1. /\ Dropped(ctx)
      /\ midTurn => Dropped(IF Answers(ctx) = {} THEN ctx ELSE SubSeq(ctx, 1, LastAnswer(ctx) - 1))
  BY AnswerDropped, TurnDropped
<1>2. CASE /\ midTurn
           /\ StartCompaction(c, IF Answers(ctx) = {} THEN ctx ELSE SubSeq(ctx, 1, LastAnswer(ctx) - 1),
                              "mid", TRUE)
           /\ UNCHANGED recovered
  BY <1>1, <1>2, CompactionSaid
<1>3. CASE Decide(c, ctx, HasQueued)
  BY <1>1, <1>3, DecideSaid
<1>4. CASE \E v : CheckedCompaction(c, v, "loop")
  BY <1>4, CheckedSaid
<1> QED BY <1>2, <1>3, <1>4 DEF AfterRetry

LEMMA ReturnsSaid ==
  ASSUME TypeInv, NEW c, NEW s, Dropped(s), NEW yes, Returns(c, s, yes)
  PROVE  Calm
<1>1. CASE ctx' = s /\ UNCHANGED <<path, clock, recovered>>
  BY <1>1, Silence
<1>2. CASE \E goOn : Decide(c, s, goOn)
  BY <1>2, DecideSaid
<1> QED BY <1>1, <1>2 DEF Returns

(* The steps of a call that only speak. *)
LEMMA PostSaid ==
  ASSUME TypeInv, NEW c \in Callers, PostRun(c) \/ RetrySleep(c)
  PROVE  Calm
<1>1. Dropped(ctx) /\ Dropped(DropAnswer(ctx))
  BY AnswerDropped
<1>2. CASE \E goOn : Decide(c, ctx, goOn) \/ Decide(c, DropAnswer(ctx), goOn)
  BY <1>1, <1>2, DecideSaid
<1>3. CASE \E m : AfterRetry(c, m)
  <2>1. call[c].at \in {"post", "sleep"}
    BY DEF PostRun, RetrySleep
  <2> QED BY <1>3, <2>1, AfterRetrySaid
<1>4. CASE ctx' = DropAnswer(ctx) /\ UNCHANGED <<path, clock, recovered>>
  BY <1>1, <1>4, Silence
<1> QED BY <1>2, <1>3, <1>4 DEF PostRun, RetrySleep

LEMMA AutoSaid ==
  ASSUME TypeInv, NEW c \in Callers, CompactAuth(c) \/ CompactSummary(c) \/ CompactDone(c)
  PROVE  \/ Calm
         \/ /\ CompactSummary(c) /\ ~call[c].cancelled
            /\ AppendCompaction(IF call[c].retry /\ call[c].then # "mid" THEN "recovery" ELSE "compaction",
                                call[c].from)
            /\ call' = [call EXCEPT ![c].at = "compacted"] /\ UNCHANGED <<active, phase, recovered>>
<1>1. Dropped(ctx) /\ (ctx # <<>> /\ Last(ctx).kind \in Removable => Dropped(Front(ctx)))
  BY AnswerDropped DEF Removable, IsAnswer, AnswerKinds, ToolCalls, Truncated
<1>2. CASE \E yes : Returns(c, ctx, yes)
  BY <1>1, <1>2, ReturnsSaid
<1>3. CASE CompactDone(c)
  BY <1>1, <1>3, ReturnsSaid DEF CompactDone
<1>4. CASE UNCHANGED <<logVars, recovered>>
  BY <1>4, Unspoken
<1> QED BY <1>2, <1>3, <1>4 DEF CompactAuth, CompactSummary

LEMMA PromptSaid ==
  ASSUME TypeInv, NEW c \in Callers, PromptCall(c) \/ PromptInput(c) \/ PromptAuth(c)
  PROVE  Calm
<1>1. CASE UNCHANGED <<logVars, recovered>>
  BY <1>1, Unspoken
<1>2. CASE \E v : CheckedCompaction(c, v, "prompt")
  BY <1>2, CheckedSaid
<1>3. CASE Record(ctx, Pending) /\ UNCHANGED recovered
  <2>1. Pending \in Seq(NewKinds) /\ NoTools(Pending) /\ Dropped(ctx)
    BY PendingTypes, PlainKinds, AnswerDropped
  <2>2. Said(ctx, Pending) /\ Frees(Pending)
    BY <1>3, <2>1, SaidRecord DEF Frees
  <2> QED BY <2>1, <2>2 DEF Calm
<1> QED BY <1>1, <1>2, <1>3 DEF PromptCall, PromptInput, PromptAuth, runVars

LEMMA RunSaid ==
  ASSUME TypeInv, NEW c \in Callers, StartRun(c) \/ TriggerTurn(c)
  PROVE  Calm
<1>1. Dropped(ctx)
  BY AnswerDropped
<1>2. PICK kinds \in Seq(Plain) : Run(c, kinds)
  <2>1. call[c].carried \in Nat
    BY DEF TypeInv, CallOK, CallRecords
  <2>2. Repeat("custom", call[c].carried) \in Seq(Plain) /\ <<"user">> \in Seq(Plain) /\ <<"custom">> \in Seq(Plain)
    <3>1. "custom" \in Plain /\ "user" \in Plain
      BY DEF Plain
    <3>2. Repeat("custom", call[c].carried) \in Seq(Plain)
      BY <2>1, <3>1, Repeats
    <3> QED BY <3>1, <3>2
  <2>3. <<"user">> \o Repeat("custom", call[c].carried) \in Seq(Plain)
    BY <2>2, Joined
  <2> QED BY <2>2, <2>3 DEF StartRun, TriggerTurn
<1>3. kinds \o Poll(steering) \in Seq(Plain)
  BY Polls, Joined
<1>4. StartAgent(c, ctx, kinds \o Poll(steering)) \/ Settle(c, ctx)
  BY <1>2 DEF Run
<1> QED BY <1>1, <1>3, <1>4, StartSaid, SettleSaid

LEMMA AsideSaid ==
  ASSUME TypeInv, SendCustom \/ RecordBash
  PROVE  Calm
<1>1. UNCHANGED recovered
  BY DEF SendCustom, RecordBash, runVars
<1>2. CASE UNCHANGED logVars
  BY <1>1, <1>2, Unspoken
<1>3. ASSUME NEW k \in Plain, Record(ctx, <<k>>) PROVE Calm
  <2>1. <<k>> \in Seq(Plain)
    OBVIOUS
  <2>2. <<k>> \in Seq(NewKinds) /\ NoTools(<<k>>) /\ Dropped(ctx)
    BY <2>1, PlainKinds, AnswerDropped
  <2>3. Said(ctx, <<k>>) /\ Frees(<<k>>)
    BY <1>1, <1>3, <2>2, SaidRecord DEF Frees
  <2> QED BY <2>2, <2>3 DEF Calm
<1> QED BY <1>2, <1>3 DEF SendCustom, RecordBash, Plain

LEMMA HostSaid ==
  ASSUME TypeInv, \/ Abort \/ AbortCompaction \/ AbortResponse \/ Compact \/ Navigate
                  \/ ManualBegins \/ ManualPrepared \/ \E c \in Callers : Settled(c)
  PROVE  UNCHANGED logVars /\ Calm
<1>1. UNCHANGED <<logVars, recovered>>
  BY DEF Abort, AbortCompaction, AbortResponse, Compact, Navigate, Command, ManualBegins, ManualPrepared,
         Settled, runVars
<1> QED BY <1>1, Unspoken

(* An answer, or the results of its tools, and what follows them. *)
LEMMA TurnSaid ==
  ASSUME TypeInv, NEW c, NEW k \in AnswerKinds \cup {"tool"}, NEW queued \in Seq(Plain), NEW on,
         EndTurn(c, <<k>>, queued, on)
  PROVE  \E rest \in Seq(Plain) : Said(ctx, <<k>> \o rest) /\ Frees(<<k>> \o rest)
<1> DEFINE asides == Repeat("custom", customs)
           rest == asides \o queued
           kinds == <<k>> \o rest
<1>1. asides \in Seq(Plain)
  BY Repeats DEF TypeInv, SideOK, Plain
<1> HIDE DEF asides
<1>2. rest \in Seq(Plain)
  BY <1>1, Joined
<1>3. /\ <<k>> \in Seq(NewKinds) /\ rest \in Seq(NewKinds) /\ asides \in Seq(NewKinds)
      /\ queued \in Seq(NewKinds)
  BY <1>1, <1>2, KindFacts, PlainKinds
<1>4. kinds \in Seq(NewKinds) /\ kinds = <<k>> \o asides \o queued
  BY <1>3
<1>5. Dropped(ctx)
  BY AnswerDropped
<1>6. Said(ctx, kinds)
  BY <1>4, <1>5, SaidRecord DEF EndTurn, asides
<1>7. Frees(kinds)
  <2> SUFFICES ASSUME recovered, ~recovered' PROVE \E i \in 1..Len(kinds) : kinds[i] \in Resets
    BY DEF Frees
  <2>1. "user" \in Range(queued) \/ \E x \in Range(<<k>>) : x \notin Failed \cup Truncated \cup {"tool"}
    BY DEF EndTurn
  <2>2. Len(kinds) = 1 + Len(rest) /\ kinds[1] = k /\ \A i \in 1..Len(rest) : kinds[1 + i] = rest[i]
    BY <1>3
  <2>3. Len(rest) = Len(asides) + Len(queued) /\ \A i \in 1..Len(queued) : rest[Len(asides) + i] = queued[i]
    BY <1>1
  <2>4. Len(asides) \in Nat /\ Len(queued) \in Nat
    BY <1>1
  <2> HIDE DEF rest, kinds
  <2>5. CASE "user" \in Range(queued)
    <3>1. PICK i \in 1..Len(queued) : queued[i] = "user"
      BY <2>5 DEF Range
    <3> DEFINE j == Len(asides) + i
    <3>2. j \in 1..Len(rest) /\ rest[j] = "user"
      BY <2>3, <2>4, <3>1
    <3>3. 1 + j \in 1..Len(kinds) /\ kinds[1 + j] = "user"
      BY <2>2, <2>3, <2>4, <3>2
    <3> QED BY <3>3 DEF Resets
  <2>6. CASE \E x \in Range(<<k>>) : x \notin Failed \cup Truncated \cup {"tool"}
    <3>1. k \notin Failed \cup Truncated \cup {"tool"}
      BY <2>6 DEF Range
    <3>2. k \in Resets
      BY <3>1 DEF Resets
    <3>3. 1 \in 1..Len(kinds)
      BY <2>2, <2>3, <2>4
    <3> QED BY <2>2, <3>2, <3>3
  <2> QED BY <2>1, <2>5, <2>6
<1> QED BY <1>2, <1>6, <1>7

LEMMA StreamSaid ==
  ASSUME TypeInv, NEW c \in Callers, NEW k \in AnswerKinds, StreamEnds(c, k)
  PROVE  \/ Calm /\ phase' # "tools"
         \/ k \in ToolCalls /\ Said(ctx, <<k>>) /\ Frees(<<k>>) /\ phase' = "tools"
<1>1. CASE /\ k \in ToolCalls /\ Record(ctx, <<k>>) /\ phase' = "tools"
           /\ recovered' = (recovered /\ k \in Truncated)
  <2>1. k \in NewKinds /\ (k \notin Truncated => k \in Resets)
    BY <1>1, KindFacts DEF Resets, ToolCalls, Failed
  <2>2. <<k>> \in Seq(NewKinds) /\ Dropped(ctx) /\ Len(<<k>>) = 1 /\ <<k>>[1] = k
    BY <2>1, AnswerDropped
  <2>3. Said(ctx, <<k>>)
    BY <1>1, <2>2, SaidRecord
  <2>4. recovered /\ ~recovered' => k \in Resets
    BY <1>1, <2>1, Zenon
  <2>5. 1 \in 1..Len(<<k>>)
    BY <2>2
  <2>6. Frees(<<k>>)
    BY <2>2, <2>4, <2>5, Zenon DEF Frees
  <2> QED BY <1>1, <2>3, <2>6
<1>2. CASE \E queued \in Seq(Plain) : \E on : EndTurn(c, <<k>>, queued, on)
  <2>1. PICK rest \in Seq(Plain) : Said(ctx, <<k>> \o rest) /\ Frees(<<k>> \o rest)
    BY <1>2, TurnSaid
  <2>2. NoTools(<<k>> \o rest)
    <3> DEFINE kinds == <<k>> \o rest
    <3>1. Len(kinds) = 1 + Len(rest) /\ kinds[1] = k /\ \A i \in 1..Len(rest) : kinds[1 + i] = rest[i]
      OBVIOUS
    <3>2. NoTools(rest) /\ k # "tool" /\ Len(rest) \in Nat
      BY PlainKinds, KindFacts
    <3> HIDE DEF kinds
    <3>3. ASSUME NEW i \in 1..Len(kinds) PROVE kinds[i] # "tool"
      <4>1. i = 1 \/ (i - 1 \in 1..Len(rest) /\ 1 + (i - 1) = i)
        BY <3>1, <3>2
      <4>2. CASE i = 1
        BY <3>1, <3>2, <4>2
      <4>3. CASE i - 1 \in 1..Len(rest) /\ 1 + (i - 1) = i
        <5>1. kinds[1 + (i - 1)] = rest[i - 1]
          BY <3>1, <4>3
        <5>2. rest[i - 1] # "tool"
          BY <3>2, <4>3 DEF NoTools
        <5> QED BY <4>3, <5>1, <5>2
      <4> QED BY <4>1, <4>2, <4>3
    <3> QED BY <3>3 DEF NoTools, kinds
  <2>3. phase' # "tools"
    BY <1>2 DEF EndTurn
  <2> QED BY <2>1, <2>2, <2>3 DEF Calm
<1>3. <<>> \in Seq(Plain)
  OBVIOUS
<1> QED BY <1>1, <1>2, <1>3, Polls DEF StreamEnds, WouldStop

LEMMA ToolsSaid ==
  ASSUME TypeInv, NEW c \in Callers, ToolsEnd(c)
  PROVE  /\ phase' # "tools"
         /\ \E rest \in Seq(Plain) : Said(ctx, <<"tool">> \o rest) /\ Frees(<<"tool">> \o rest)
<1>1. \E queued \in Seq(Plain) : \E on : EndTurn(c, <<"tool">>, queued, on)
  BY Polls DEF ToolsEnd, WouldStop
<1>2. phase' # "tools"
  BY <1>1 DEF EndTurn
<1> QED BY <1>1, <1>2, TurnSaid

LEMMA SaidTypes ==
  ASSUME TypeInv, NEW s, NEW kinds, Said(s, kinds)
  PROVE  /\ ctx' \in Seq(Messages) /\ path' \in Seq(Messages) /\ clock' \in Nat
         /\ Len(path) <= Len(path')
<1>1. Len(kinds) \in Nat /\ clock \in Nat /\ Len(path) \in Nat
  BY DEF Said, TypeInv, LogOK
<1> QED BY <1>1 DEF Said, Grown

LEMMA CompactionLog ==
  ASSUME TypeInv, NEW kind \in Compaction, NEW from \in Nat, AppendCompaction(kind, from)
  PROVE  /\ path' \in Seq(Messages) /\ ctx' = ContextOf(path') /\ ctx' \in Seq(Messages)
         /\ clock' = clock + 1 /\ clock' \in Nat
         /\ Grown(path, path', clock, <<kind>>) /\ path'[Len(path) + 1].from = from
<1> DEFINE m == [kind |-> kind, at |-> clock + 1, from |-> from]
<1>1. m \in Messages /\ m.kind = kind /\ m.at = clock + 1 /\ m.from = from
  BY KindFacts DEF Messages, TypeInv, LogOK
<1>2. path' = Append(path, m) /\ ctx' = ContextOf(path') /\ clock' = clock + 1
  BY DEF AppendCompaction
<1>3. path \in Seq(Messages) /\ clock \in Nat
  BY DEF TypeInv, LogOK
<1> HIDE DEF m
<1>4. /\ path' \in Seq(Messages) /\ Len(path') = Len(path) + 1
      /\ \A i \in 1..Len(path) : path'[i] = path[i]
  BY <1>1, <1>2, <1>3
<1>5. path'[Len(path) + 1] = m
  BY <1>1, <1>2, <1>3
<1>6. Grown(path, path', clock, <<kind>>)
  BY <1>1, <1>4, <1>5 DEF Grown
<1>7. ctx' \in Seq(Messages)
  BY <1>2, <1>4, ContextType
<1>8. clock' \in Nat
  BY <1>2, <1>3
<1> QED BY <1>1, <1>2, <1>4, <1>5, <1>6, <1>7, <1>8

LEMMA NavigateLog ==
  ASSUME TypeInv, NavigateDone
  PROVE  \/ UNCHANGED logVars
         \/ \E r, kinds : /\ kinds \in Seq({"branch"}) /\ Begins(r, path) /\ Grown(r, path', clock, kinds)
                          /\ clock' = clock + Len(kinds) /\ ctx' = ContextOf(path')
<1> SUFFICES ASSUME NEW summary \in {<<>>, New(<<"branch">>)},
                    path' = SubSeq(path, 1, LeafOf(navigation)) \o summary,
                    clock' = clock + Len(summary), ctx' = ContextOf(path')
             PROVE  \E r, kinds : /\ kinds \in Seq({"branch"}) /\ Begins(r, path) /\ Grown(r, path', clock, kinds)
                                  /\ clock' = clock + Len(kinds) /\ ctx' = ContextOf(path')
  BY DEF NavigateDone
<1> DEFINE r == SubSeq(path, 1, LeafOf(navigation))
<1>1. path \in Seq(Messages) /\ clock \in Nat /\ navigation \in 1..Len(path)
  BY DEF TypeInv, LogOK, HostOK, NavigateDone
<1>2. LeafOf(navigation) \in 0..Len(path)
  BY <1>1 DEF LeafOf
<1>3. Begins(r, path)
  BY <1>1, <1>2 DEF Begins
<1> HIDE DEF r
<1>4. r \in Seq(Messages)
  BY <1>3 DEF Begins
<1>5. CASE summary = <<>>
  <2>1. path' = r /\ clock' = clock
    BY <1>1, <1>4, <1>5 DEF r
  <2>2. Grown(r, r, clock, <<>>) /\ <<>> \in Seq({"branch"}) /\ clock = clock + Len(<<>>)
    BY <1>1, <1>4 DEF Grown
  <2> QED BY <1>3, <2>1, <2>2
<1>6. CASE summary = New(<<"branch">>)
  <2>1. <<"branch">> \in Seq(Kinds) /\ <<"branch">> \in Seq({"branch"})
    BY KindFacts
  <2>2. Len(summary) = Len(<<"branch">>)
    BY <1>1, <1>6, <2>1, NewMessages
  <2>3. Grown(r, r \o summary, clock, <<"branch">>)
    BY <1>1, <1>4, <1>6, <2>1, Growing
  <2> QED BY <1>3, <2>1, <2>2, <2>3 DEF r
<1> QED BY <1>5, <1>6

LEMMA CalmTypes ==
  ASSUME TypeInv, Calm, navigation' \in {navigation, 0}
  PROVE  LogOK'
<1>1. PICK s, kinds : Said(s, kinds)
  BY DEF Calm
<1>2. /\ ctx' \in Seq(Messages) /\ path' \in Seq(Messages) /\ clock' \in Nat
      /\ Len(path) <= Len(path')
  BY <1>1, SaidTypes
<1>3. Len(path) \in Nat /\ Len(path') \in Nat /\ navigation \in Nat /\ navigation <= Len(path)
  BY <1>2 DEF TypeInv, LogOK, HostOK
<1> QED BY <1>2, <1>3 DEF LogOK

LEMMA FromTypes ==
  ASSUME TypeInv
  PROVE  manual.from \in Nat /\ \A c \in Callers : call[c].from \in Nat
<1>1. manual \in CallRecords /\ \A c \in Callers : call[c] \in CallRecords
  BY DEF TypeInv, CallOK, HostOK
<1> QED BY <1>1 DEF CallRecords

LEMMA CompactedTypes ==
  ASSUME TypeInv, NEW kind \in Compaction, NEW from \in Nat, AppendCompaction(kind, from),
         UNCHANGED navigation
  PROVE  LogOK'
<1>1. /\ path' \in Seq(Messages) /\ ctx' \in Seq(Messages) /\ clock' \in Nat
      /\ Grown(path, path', clock, <<kind>>)
  BY CompactionLog
<1>2. Len(path') = Len(path) + 1
  BY <1>1 DEF Grown
<1>3. Len(path) \in Nat /\ navigation \in Nat /\ navigation <= Len(path)
  BY DEF TypeInv, LogOK, HostOK
<1> QED BY <1>1, <1>2, <1>3 DEF LogOK

(* Every step keeps the types. *)
LEMMA NextTypes == TypeInv /\ [Next]_vars => TypeInv'
<1> SUFFICES ASSUME TypeInv, [Next]_vars PROVE TypeInv'
  OBVIOUS
<1>1. CASE UNCHANGED vars
  <2>1. RunOK' /\ SideOK'
    BY <1>1, Zenon DEF vars, runVars, sideVars, TypeInv, RunOK, SideOK
  <2>2. LogOK' /\ CallOK' /\ HostOK'
    BY <1>1, Zenon DEF vars, logVars, hostVars, envVars, TypeInv, LogOK, CallOK, HostOK
  <2> QED BY <2>1, <2>2 DEF TypeInv
<1>2. ASSUME NEW c \in Callers, PromptCall(c) \/ TriggerTurn(c) PROVE TypeInv'
  <2>1. UNCHANGED navigation
    BY <1>2 DEF PromptCall, TriggerTurn, hostVars
  <2>2. Calm /\ Typed
    BY <1>2, PromptSaid, RunSaid, PromptTypes, RunTypes
  <2> QED BY <2>1, <2>2, CalmTypes DEF TypeInv, Typed
<1>3. CASE SendCustom \/ RecordBash
  <2>1. UNCHANGED navigation
    BY <1>3 DEF SendCustom, RecordBash, hostVars
  <2> QED BY <1>3, <2>1, AsideSaid, AsideTypes, CalmTypes DEF TypeInv, Typed
<1>4. CASE Abort \/ AbortCompaction \/ AbortResponse \/ Compact
  <2>1. UNCHANGED navigation
    BY <1>4 DEF Abort, AbortCompaction, AbortResponse, Compact, hostVars
  <2> QED BY <1>4, <2>1, HostSaid, HostTypes, CalmTypes DEF TypeInv, Typed
<1>5. CASE Navigate
  <2>1. UNCHANGED logVars /\ navigation' \in 1..Len(path)
    BY <1>5, HostSaid DEF Navigate
  <2>2. LogOK'
    BY <2>1 DEF TypeInv, LogOK, logVars
  <2> QED BY <1>5, <2>2, HostTypes DEF TypeInv, Typed
<1>6. CASE HostStep
  <2>1. Typed
    BY <1>6, HostStepTypes
  <2>2. CASE ManualBegins \/ ManualPrepared
    <3>1. UNCHANGED navigation
      BY <2>2 DEF ManualBegins, ManualPrepared
    <3> QED BY <2>1, <2>2, <3>1, HostSaid, CalmTypes DEF TypeInv, Typed
  <2>3. CASE ManualDone
    <3>1. UNCHANGED <<navigation, recovered>>
      BY <2>3 DEF ManualDone, runVars
    <3>2. LogOK'
      BY <2>3, <3>1, Unspoken, CalmTypes, CompactedTypes, FromTypes DEF ManualDone, Compaction
    <3> QED BY <2>1, <3>2 DEF TypeInv, Typed
  <2>4. CASE NavigateDone
    <3>1. navigation' = 0 /\ UNCHANGED recovered
      BY <2>4 DEF NavigateDone, runVars
    <3>2. CASE UNCHANGED logVars
      BY <2>1, <3>1, <3>2, Unspoken, CalmTypes DEF TypeInv, Typed
    <3>3. CASE \E r, kinds : /\ kinds \in Seq({"branch"}) /\ Begins(r, path) /\ Grown(r, path', clock, kinds)
                             /\ clock' = clock + Len(kinds) /\ ctx' = ContextOf(path')
      <4>1. path' \in Seq(Messages) /\ clock' \in Nat
        BY <3>3 DEF Grown, TypeInv, LogOK
      <4>2. ctx' \in Seq(Messages)
        BY <3>3, <4>1, ContextType
      <4>3. LogOK'
        BY <3>1, <4>1, <4>2 DEF LogOK
      <4> QED BY <2>1, <4>3 DEF TypeInv, Typed
    <3> QED BY <2>4, <3>2, <3>3, NavigateLog
  <2> QED BY <1>6, <2>2, <2>3, <2>4 DEF HostStep
<1>7. ASSUME NEW c \in Callers, CallStep(c) PROVE TypeInv'
  <2>1. UNCHANGED navigation
    BY <1>7 DEF CallStep, PromptInput, PromptAuth, StartRun, StreamEnds, ToolsEnd, PostRun, RetrySleep,
                CompactAuth, CompactSummary, CompactDone, Settled, hostVars
  <2>2. Typed
    BY <1>7, PromptTypes, RunTypes, StreamTypes, PostTypes, AutoTypes, SettledTypes DEF CallStep
  <2>3. CASE Calm
    BY <2>1, <2>2, <2>3, CalmTypes DEF TypeInv, Typed
  <2>4. CASE \E s, kinds : Said(s, kinds)
    <3>1. /\ ctx' \in Seq(Messages) /\ path' \in Seq(Messages) /\ clock' \in Nat
          /\ Len(path) <= Len(path')
      BY <2>4, SaidTypes
    <3>2. Len(path) \in Nat /\ Len(path') \in Nat /\ navigation \in Nat /\ navigation <= Len(path)
      BY <3>1 DEF TypeInv, LogOK, HostOK
    <3>3. LogOK'
      BY <2>1, <3>1, <3>2 DEF LogOK
    <3> QED BY <2>2, <3>3 DEF TypeInv, Typed
  <2>5. CASE \E kind \in Compaction, from \in Nat : AppendCompaction(kind, from)
    BY <2>1, <2>2, <2>5, CompactedTypes DEF TypeInv, Typed
  <2>6. CASE CompactAuth(c) \/ CompactSummary(c) \/ CompactDone(c)
    <3>1. Calm \/ \E kind \in Compaction, from \in Nat : AppendCompaction(kind, from)
      BY <2>6, AutoSaid, FromTypes DEF Compaction
    <3> QED BY <2>3, <2>5, <3>1
  <2> QED BY <1>7, <2>3, <2>4, <2>6, PromptSaid, RunSaid, StreamSaid, ToolsSaid, PostSaid, HostSaid DEF CallStep
<1> QED BY <1>1, <1>2, <1>3, <1>4, <1>5, <1>6, <1>7 DEF Next, Environment

(* The state of a session keeps its types, whatever hosts do at the same time. *)
THEOREM TypesHold == Spec => []TypeInv
<1>1. Init => TypeInv
  BY InitTypeInv
<1>2. TypeInv /\ [Next]_vars => TypeInv'
  BY NextTypes
<1> QED BY <1>1, <1>2, PTL DEF Spec

(* Types of the session: every message in the context and in the session
   file is one, the retries stay within their limit and an entry navigated
   to exists, whether or not hosts keep their operations apart. *)
THEOREM TypeCorrect == Spec => []TypeOK
<1>1. Init => raced \in BOOLEAN
  BY DEF Init
<1>2. raced \in BOOLEAN /\ [Next]_vars => (raced \in BOOLEAN)'
  BY RacedStays
<1>3. TypeInv /\ raced \in BOOLEAN => TypeOK
  BY Zenon DEF TypeInv, TypeOK, LogOK, RunOK, SideOK, CallOK, HostOK, Queue
<1> QED BY <1>1, <1>2, <1>3, TypesHold, PTL DEF Spec

-----------------------------------------------------------------------------
(* abort() and the end of runs. *)

LEMMA AbortKept == TypeInv /\ AbortIsHeard /\ [Next]_vars => AbortIsHeard'
<1> SUFFICES ASSUME TypeInv, AbortIsHeard, [Next]_vars PROVE AbortIsHeard'
  OBVIOUS
<1>1. call \in [Callers -> CallRecords] /\ active \in BOOLEAN /\ waiting \in BOOLEAN
  BY DEF TypeInv, CallOK, RunOK, HostOK
<1> DEFINE Elsewhere(c) == \A d \in Callers : d # c => call'[d] = call[d]
<1>2. ASSUME NEW c \in Callers, call[c].at # "settle", Elsewhere(c), UNCHANGED <<active, waiting>>
      PROVE  AbortIsHeard'
  BY <1>2 DEF AbortIsHeard
<1>3. ASSUME NEW c \in Callers, Ends(c) \/ Starts(c) PROVE AbortIsHeard'
  <2>1. [Idle EXCEPT !.at = "settle"].at = "settle"
    BY Records
  <2>2. CASE Ends(c)
    <3>1. call'[c] = [Idle EXCEPT !.at = "settle"]
      BY <1>1, <2>2 DEF Ends, Moves
    <3> QED BY <2>1, <3>1 DEF AbortIsHeard
  <2>3. CASE Starts(c)
    BY <2>3 DEF Starts, AbortIsHeard
  <2> QED BY <1>3, <2>2, <2>3
<1>4. CASE UNCHANGED <<call, active, waiting>>
  BY <1>4 DEF AbortIsHeard
<1>5. CASE Abort \/ AbortCompaction \/ Compact
  <2>1. UNCHANGED active /\ waiting' \in {waiting, waiting \/ active}
    BY <1>5 DEF Abort, AbortCompaction, Compact, Command, Interrupt
  <2>2. \A c \in Callers : call'[c].at = call[c].at
    BY <1>5, CancelledCalls
  <2> QED BY <1>1, <2>1, <2>2 DEF AbortIsHeard
<1>6. ASSUME NEW c \in Callers, PromptCall(c) PROVE AbortIsHeard'
  <2>1. call[c].at # "settle" /\ Elsewhere(c) /\ UNCHANGED <<active, waiting>>
    BY <1>1, <1>6 DEF PromptCall, runVars, hostVars
  <2> QED BY <1>2, <2>1
<1>7. ASSUME NEW c \in Callers, StartRun(c) \/ TriggerTurn(c) PROVE AbortIsHeard'
  <2>1. Settle(c, ctx) \/ \E kinds : StartAgent(c, ctx, kinds)
    BY <1>7 DEF StartRun, TriggerTurn, Run
  <2> QED BY <1>3, <2>1, SettleEnds, StartAgentStarts
<1>8. CASE Environment
  <2>1. CASE SendCustom \/ RecordBash \/ AbortResponse \/ Navigate
    BY <1>4, <2>1 DEF SendCustom, RecordBash, AbortResponse, Navigate, Command, runVars, hostVars
  <2> QED BY <1>5, <1>6, <1>7, <1>8, <2>1 DEF Environment
<1>9. CASE HostStep \/ UNCHANGED vars
  BY <1>4, <1>9 DEF HostStep, ManualBegins, ManualPrepared, ManualDone, NavigateDone, vars, runVars, hostVars
<1>10. ASSUME NEW c \in Callers, CallStep(c) PROVE AbortIsHeard'
  <2>1. ASSUME NEW s, NEW goOn \in BOOLEAN, Decide(c, s, goOn) PROVE AbortIsHeard'
    BY <1>3, <2>1, DecideKinds
  <2>2. CASE Settled(c)
    <3>1. UNCHANGED active /\ waiting' = (waiting /\ active)
      BY <2>2 DEF Settled, runVars
    <3> QED BY <3>1 DEF AbortIsHeard
  <2>3. CASE PromptInput(c)
    <3>1. call[c].at # "settle" /\ Elsewhere(c) /\ UNCHANGED <<active, waiting>>
      BY <1>1, <2>3 DEF PromptInput, runVars, hostVars
    <3> QED BY <1>2, <3>1
  <2>4. ASSUME NEW s, NEW then, NEW retry, StartCompaction(c, s, then, retry) PROVE UNCHANGED active /\ Elsewhere(c)
    BY <1>1, <2>4 DEF StartCompaction
  <2>5. ASSUME Collect(c) PROVE Elsewhere(c)
    BY <1>1, <2>5 DEF Collect
  <2>6. CASE PromptAuth(c)
    <3>1. call[c].at # "settle" /\ UNCHANGED waiting
      BY <2>6 DEF PromptAuth, hostVars
    <3>2. UNCHANGED active /\ Elsewhere(c)
      BY <1>1, <2>4, <2>5, <2>6 DEF PromptAuth, CheckedCompaction, runVars
    <3> QED BY <1>2, <3>1, <3>2
  <2>7. CASE (\E k \in AnswerKinds : StreamEnds(c, k)) \/ ToolsEnd(c)
    <3>1. call[c].at # "settle" /\ UNCHANGED <<active, waiting>>
      BY <2>7 DEF StreamEnds, ToolsEnd, hostVars
    <3>2. call' = call \/ call' = [call EXCEPT ![c].at = "post"]
      BY <2>7 DEF StreamEnds, ToolsEnd, WouldStop, EndTurn
    <3>3. Elsewhere(c)
      BY <1>1, <3>2
    <3> QED BY <1>2, <3>1, <3>3
  <2>8. CASE PostRun(c) \/ RetrySleep(c)
    <3>1. call[c].at # "settle" /\ UNCHANGED waiting
      BY <2>8 DEF PostRun, RetrySleep, hostVars
    <3>2. CASE call' = [call EXCEPT ![c].at = "sleep"] /\ UNCHANGED active
      BY <1>1, <1>2, <3>1, <3>2
    <3>3. ASSUME NEW m, AfterRetry(c, m) PROVE AbortIsHeard'
      <4>1. CASE Decide(c, ctx, HasQueued)
        BY <2>1, <4>1 DEF HasQueued
      <4>2. CASE \E s, then, retry : StartCompaction(c, s, then, retry)
        BY <1>2, <2>4, <3>1, <4>2
      <4> QED BY <3>3, <4>1, <4>2 DEF AfterRetry, CheckedCompaction
    <3>4. \/ \E s, goOn : Decide(c, s, goOn) /\ goOn \in BOOLEAN
          \/ \E m : AfterRetry(c, m)
          \/ call' = [call EXCEPT ![c].at = "sleep"] /\ UNCHANGED active
      BY <2>8 DEF PostRun, RetrySleep
    <3> QED BY <2>1, <3>2, <3>3, <3>4
  <2>9. CASE CompactAuth(c) \/ CompactSummary(c) \/ CompactDone(c)
    <3>1. call[c].at # "settle" /\ UNCHANGED waiting
      BY <2>9 DEF CompactAuth, CompactSummary, CompactDone, hostVars
    <3>2. ASSUME NEW s, NEW yes \in BOOLEAN, Returns(c, s, yes) PROVE AbortIsHeard'
      <4>1. CASE Collect(c) /\ UNCHANGED active
        BY <1>2, <2>5, <3>1, <4>1
      <4>2. CASE Decide(c, s, yes \/ (call[c].then = "loop" /\ HasQueued))
        BY <2>1, <4>2 DEF HasQueued
      <4> QED BY <3>2, <4>1, <4>2 DEF Returns
    <3>3. CASE UNCHANGED active /\ \E x : \/ call' = [call EXCEPT ![c].at = "summary", ![c].from = x]
                                         \/ call' = [call EXCEPT ![c].at = "compacted"]
      BY <1>1, <1>2, <3>1, <3>3
    <3>4. (call[c].retry \/ HasQueued) \in BOOLEAN /\ FALSE \in BOOLEAN
      OBVIOUS
    <3> QED BY <2>9, <3>2, <3>3, <3>4 DEF CompactAuth, CompactSummary, CompactDone
  <2> QED BY <1>7, <1>10, <2>2, <2>3, <2>6, <2>7, <2>8, <2>9 DEF CallStep
<1> QED BY <1>8, <1>9, <1>10 DEF Next

(* An abort() that waits has a run to end, or listeners of an end to wait
   for, and so hears of it, whatever hosts do at the same time
   (_resolveIdleWaitIfIdle in the finally of _emitAgentSettled). *)
THEOREM AbortsAreHeard == Spec => []AbortIsHeard
<1>1. Init => AbortIsHeard
  BY DEF Init, AbortIsHeard
<1>2. TypeInv /\ AbortIsHeard /\ [Next]_vars => AbortIsHeard'
  BY AbortKept
<1> QED BY <1>1, <1>2, TypesHold, PTL DEF Spec

-----------------------------------------------------------------------------
(* Branches of the session tree and what adding to them keeps: the branch p,
   when n is the newest serial number. *)

(* A cut: no tool result carries the number m. *)
CutOK(p, n, m) == m \in Nat /\ m <= n /\ CutIn(p, m)

PathOK(p, n) ==
  /\ p \in Seq(Messages) /\ n \in Nat
  /\ Rising(p) /\ \A i \in 1..Len(p) : p[i].at <= n
  /\ Paired(p)
  /\ \A i \in 1..Len(p) : p[i].kind \in Compaction => CutOK(p, n, p[i].from)

(* s ends with tool calls. *)
Asks(s) == s # <<>> /\ s[Len(s)].kind \in ToolCalls
(* Tool results only come first, and only after their calls. *)
Answering(s, kinds) == \A i \in 1..Len(kinds) : kinds[i] = "tool" => i = 1 /\ Asks(s)

(* A place of t is one of s or a new one. *)
OldOrNew(s, t, n, kinds, i) ==
  \/ i \in 1..Len(s) /\ t[i] = s[i]
  \/ \E j \in 1..Len(kinds) : i = Len(s) + j /\ t[i].kind = kinds[j] /\ t[i].at = n + j

LEMMA GrownPlaces ==
  ASSUME NEW s \in Seq(Messages), NEW t, NEW n \in Nat, NEW kinds \in Seq(Kinds), Grown(s, t, n, kinds),
         NEW i \in 1..Len(t)
  PROVE  OldOrNew(s, t, n, kinds, i)
<1>1. Len(s) \in Nat /\ Len(kinds) \in Nat /\ Len(t) = Len(s) + Len(kinds)
  BY DEF Grown
<1>2. CASE i <= Len(s)
  <2>1. i \in 1..Len(s) /\ t[i] = s[i]
    BY <1>1, <1>2 DEF Grown
  <2> QED BY <2>1 DEF OldOrNew
<1>3. CASE i > Len(s)
  <2> DEFINE j == i - Len(s)
  <2>1. j \in 1..Len(kinds) /\ i = Len(s) + j
    BY <1>1, <1>3
  <2>2. t[Len(s) + j].kind = kinds[j] /\ t[Len(s) + j].at = n + j
    BY <2>1 DEF Grown
  <2>3. t[i].kind = kinds[j] /\ t[i].at = n + j
    BY <2>1, <2>2
  <2> HIDE DEF j
  <2> QED BY <2>1, <2>3 DEF OldOrNew
<1> QED BY <1>1, <1>2, <1>3

LEMMA PairedGrows ==
  ASSUME NEW s \in Seq(Messages), NEW t, NEW n \in Nat, NEW kinds \in Seq(Kinds), Grown(s, t, n, kinds),
         Paired(s), Answering(s, kinds)
  PROVE  Paired(t)
<1>1. /\ t \in Seq(Messages) /\ Len(s) \in Nat /\ DOMAIN t = 1..Len(t) /\ Len(t) = Len(s) + Len(kinds)
      /\ DOMAIN s = 1..Len(s) /\ Len(kinds) \in Nat
  BY DEF Grown
<1>2. ASSUME NEW i \in 1..Len(t), t[i].kind = "tool" PROVE i > 1 /\ t[i - 1].kind \in ToolCalls
  <2>1. CASE i \in 1..Len(s) /\ t[i] = s[i]
    <3>1. i > 1 /\ s[i - 1].kind \in ToolCalls
      BY <1>1, <1>2, <2>1 DEF Paired
    <3>2. i - 1 \in 1..Len(s)
      BY <1>1, <2>1, <3>1
    <3>3. t[i - 1] = s[i - 1]
      BY <3>2 DEF Grown
    <3> QED BY <3>1, <3>3
  <2>2. ASSUME NEW j \in 1..Len(kinds), i = Len(s) + j, t[i].kind = kinds[j] PROVE i > 1 /\ t[i - 1].kind \in ToolCalls
    <3>1. j = 1 /\ Asks(s)
      BY <1>2, <2>2 DEF Answering
    <3>2. Len(s) > 0 /\ i - 1 = Len(s) /\ Len(s) \in 1..Len(s)
      <4>1. s # <<>>
        BY <3>1 DEF Asks
      <4>2. Len(s) > 0
        BY <4>1
      <4> QED BY <1>1, <2>2, <3>1, <4>2
    <3>3. t[Len(s)] = s[Len(s)]
      BY <3>2 DEF Grown
    <3> QED BY <1>1, <3>1, <3>2, <3>3 DEF Asks
  <2>3. OldOrNew(s, t, n, kinds, i)
    BY GrownPlaces
  <2> QED BY <2>1, <2>2, <2>3 DEF OldOrNew
<1> QED BY <1>1, <1>2 DEF Paired

LEMMA PairedBegins ==
  ASSUME NEW p \in Seq(Messages), NEW s, Begins(s, p), Paired(p)
  PROVE  s \in Seq(Messages) /\ Paired(s)
<1>1. s \in Seq(Messages) /\ DOMAIN s = 1..Len(s) /\ DOMAIN p = 1..Len(p) /\ Len(s) \in Nat /\ Len(p) \in Nat
  BY DEF Begins
<1>2. ASSUME NEW i \in 1..Len(s), s[i].kind = "tool" PROVE i > 1 /\ s[i - 1].kind \in ToolCalls
  <2>1. i \in 1..Len(p) /\ p[i] = s[i]
    BY <1>1 DEF Begins
  <2>2. i > 1 /\ p[i - 1].kind \in ToolCalls
    BY <1>1, <1>2, <2>1 DEF Paired
  <2>3. i - 1 \in 1..Len(s)
    BY <1>1, <2>2
  <2>4. s[i - 1] = p[i - 1]
    BY <2>3 DEF Begins
  <2> QED BY <2>2, <2>4
<1> QED BY <1>1, <1>2 DEF Paired

LEMMA CutKept ==
  ASSUME NEW p \in Seq(Messages), NEW n \in Nat, NEW r, Begins(r, p), NEW t, NEW kinds \in Seq(Kinds),
         Grown(r, t, n, kinds), NEW m, CutOK(p, n, m)
  PROVE  CutOK(t, n + Len(kinds), m)
<1>1. r \in Seq(Messages) /\ Len(kinds) \in Nat /\ m \in Nat /\ m <= n /\ Len(r) <= Len(p) /\ Len(r) \in Nat /\ Len(p) \in Nat
  BY DEF Begins, CutOK
<1>2. ASSUME NEW j \in 1..Len(t), t[j].at = m PROVE t[j].kind # "tool"
  <2>1. CASE j \in 1..Len(r) /\ t[j] = r[j]
    <3>1. j \in 1..Len(p) /\ p[j] = r[j]
      BY <1>1, <2>1 DEF Begins
    <3> QED BY <1>2, <2>1, <3>1 DEF CutOK, CutIn
  <2>2. ASSUME NEW k \in 1..Len(kinds), t[j].at = n + k PROVE FALSE
    BY <1>1, <1>2, <2>2
  <2>3. OldOrNew(r, t, n, kinds, j)
    BY <1>1, GrownPlaces
  <2> QED BY <2>1, <2>2, <2>3 DEF OldOrNew
<1>3. CutIn(t, m)
  BY <1>2 DEF CutIn
<1> QED BY <1>1, <1>3 DEF CutOK

LEMMA PathGrows ==
  ASSUME NEW p, NEW n, PathOK(p, n), NEW r, Begins(r, p), NEW t, NEW kinds \in Seq(Kinds),
         Grown(r, t, n, kinds), Answering(r, kinds),
         \A i \in 1..Len(kinds) : kinds[i] \in Compaction => CutOK(p, n, t[Len(r) + i].from)
  PROVE  PathOK(t, n + Len(kinds))
<1>1. /\ p \in Seq(Messages) /\ n \in Nat /\ r \in Seq(Messages) /\ t \in Seq(Messages)
      /\ Len(r) \in Nat /\ Len(p) \in Nat /\ Len(kinds) \in Nat /\ Len(r) <= Len(p)
      /\ n + Len(kinds) \in Nat
  BY DEF PathOK, Begins, Grown
<1>2. \A i \in 1..Len(r) : i \in 1..Len(p) /\ r[i] = p[i]
  BY <1>1 DEF Begins
<1>3. \A i \in 1..Len(r) : r[i].at <= n /\ r[i].at \in Nat
  <2>1. \A i \in 1..Len(r) : r[i] \in Messages
    BY <1>1
  <2> QED BY <1>2, <2>1 DEF PathOK, Messages
<1>4. \A i \in 1..Len(t) : t[i].at <= n + Len(kinds)
  <2> SUFFICES ASSUME NEW i \in 1..Len(t) PROVE t[i].at <= n + Len(kinds)
    OBVIOUS
  <2>1. CASE i \in 1..Len(r) /\ t[i] = r[i]
    BY <1>1, <1>3, <2>1
  <2>2. ASSUME NEW j \in 1..Len(kinds), t[i].at = n + j PROVE t[i].at <= n + Len(kinds)
    BY <1>1, <2>2
  <2>3. OldOrNew(r, t, n, kinds, i)
    BY <1>1, GrownPlaces
  <2> QED BY <2>1, <2>2, <2>3 DEF OldOrNew
<1>5. Rising(t)
  <2> SUFFICES ASSUME NEW i \in 1..Len(t), NEW j \in 1..Len(t), i < j PROVE t[i].at < t[j].at
    BY DEF Rising
  <2>1. CASE j \in 1..Len(r) /\ t[j] = r[j]
    <3>1. i \in 1..Len(r)
      BY <1>1, <2>1
    <3>2. t[i] = r[i]
      BY <3>1 DEF Grown
    <3> QED BY <1>2, <2>1, <3>1, <3>2 DEF PathOK, Rising
  <2>2. ASSUME NEW k \in 1..Len(kinds), j = Len(r) + k, t[j].at = n + k PROVE t[i].at < t[j].at
    <3>1. CASE i \in 1..Len(r) /\ t[i] = r[i]
      BY <1>1, <1>3, <2>2, <3>1
    <3>2. ASSUME NEW l \in 1..Len(kinds), i = Len(r) + l, t[i].at = n + l PROVE t[i].at < t[j].at
      BY <1>1, <2>2, <3>2
    <3>3. OldOrNew(r, t, n, kinds, i)
      BY <1>1, GrownPlaces
    <3> QED BY <3>1, <3>2, <3>3 DEF OldOrNew
  <2>3. OldOrNew(r, t, n, kinds, j)
    BY <1>1, GrownPlaces
  <2> QED BY <2>1, <2>2, <2>3 DEF OldOrNew
<1>6. Paired(t)
  <2>1. Paired(r)
    BY <1>1, PairedBegins DEF PathOK
  <2> QED BY <1>1, <2>1, PairedGrows
<1>7. \A i \in 1..Len(t) : t[i].kind \in Compaction => CutOK(t, n + Len(kinds), t[i].from)
  <2> SUFFICES ASSUME NEW i \in 1..Len(t), t[i].kind \in Compaction PROVE CutOK(t, n + Len(kinds), t[i].from)
    OBVIOUS
  <2>1. CutOK(p, n, t[i].from)
    <3>1. CASE i \in 1..Len(r) /\ t[i] = r[i]
      BY <1>2, <3>1 DEF PathOK
    <3>2. ASSUME NEW j \in 1..Len(kinds), i = Len(r) + j, t[i].kind = kinds[j] PROVE CutOK(p, n, t[i].from)
      BY <3>2
    <3>3. OldOrNew(r, t, n, kinds, i)
      BY <1>1, GrownPlaces
    <3> QED BY <3>1, <3>2, <3>3 DEF OldOrNew
  <2> QED BY <1>1, <2>1, CutKept
<1> QED BY <1>1, <1>4, <1>5, <1>6, <1>7 DEF PathOK

(* What a branch gives the model keeps tool calls and results together. *)
LEMMA ContextIsPaired ==
  ASSUME NEW p, NEW n, PathOK(p, n)
  PROVE  Paired(ContextOf(p))
<1>1. p \in Seq(Messages) /\ Rising(p) /\ Paired(p)
  BY DEF PathOK
<1>2. Cuts(p)
  BY DEF PathOK, Cuts, CutOK
<1> QED BY <1>1, <1>2, ContextPaired

(* Overflow recoveries on a branch: between two of them there is a break, a
   message that resets the recovery or a message that does not follow the one
   before it.  A branch is covered when its next message comes after a break
   from each of its recoveries. *)
Break(p, k)   == p[k].kind \in Resets \/ p[k].at # p[k - 1].at + 1
Past(p, i)    == \E k \in (i + 1)..Len(p) : Break(p, k)
Gap(p, n)     == p # <<>> /\ p[Len(p)].at # n
Covered(p, n) == \A i \in 1..Len(p) : p[i].kind = "recovery" => Past(p, i) \/ Gap(p, n)
Once(p)       == \A i, j \in 1..Len(p) : i < j /\ p[i].kind = "recovery" /\ p[j].kind = "recovery"
                                           => \E k \in (i + 1)..j : Break(p, k)

LEMMA BreakKept ==
  ASSUME NEW s, NEW t, NEW n, NEW kinds, Grown(s, t, n, kinds), Len(s) \in Nat,
         NEW k \in 2..Len(s)
  PROVE  Break(s, k) <=> Break(t, k)
<1>1. k \in 1..Len(s) /\ k - 1 \in 1..Len(s)
  OBVIOUS
<1>2. t[k] = s[k] /\ t[k - 1] = s[k - 1]
  BY <1>1 DEF Grown
<1> QED BY <1>2 DEF Break

LEMMA GapBreaks ==
  ASSUME NEW s \in Seq(Messages), NEW t, NEW n \in Nat, NEW kinds \in Seq(Kinds), Grown(s, t, n, kinds),
         Len(kinds) # 0, Gap(s, n)
  PROVE  Len(s) \in 1..Len(s) /\ Len(s) + 1 \in 1..Len(t) /\ Break(t, Len(s) + 1)
<1>1. Len(s) \in Nat /\ Len(kinds) \in Nat /\ Len(t) = Len(s) + Len(kinds)
  BY DEF Grown
<1>2. s # <<>>
  BY DEF Gap
<1>3. Len(s) \in 1..Len(s)
  BY <1>1, <1>2
<1>4. s[Len(s)] \in Messages
  BY <1>3
<1>5. s[Len(s)].at \in Nat /\ s[Len(s)].at # n
  BY <1>4 DEF Messages, Gap
<1>6. 1 \in 1..Len(kinds) /\ (Len(s) + 1) - 1 = Len(s)
  BY <1>1
<1>7. t[Len(s)] = s[Len(s)] /\ t[Len(s) + 1].at = n + 1
  BY <1>3, <1>6 DEF Grown
<1>8. t[Len(s) + 1].at # t[Len(s)].at + 1
  BY <1>5, <1>7
<1> QED BY <1>1, <1>3, <1>6, <1>8 DEF Break

LEMMA PastKept ==
  ASSUME NEW s \in Seq(Messages), NEW t, NEW n \in Nat, NEW kinds \in Seq(Kinds), Grown(s, t, n, kinds),
         NEW i \in 1..Len(s), Past(s, i)
  PROVE  Past(t, i)
<1>1. Len(s) \in Nat /\ Len(kinds) \in Nat /\ Len(t) = Len(s) + Len(kinds)
  BY DEF Grown
<1>2. PICK k \in (i + 1)..Len(s) : Break(s, k)
  BY DEF Past
<1>3. k \in 2..Len(s) /\ k \in (i + 1)..Len(t)
  BY <1>1
<1> QED BY <1>1, <1>2, <1>3, BreakKept DEF Past

LEMMA CoveredGrows ==
  ASSUME NEW s \in Seq(Messages), NEW t, NEW n \in Nat, NEW kinds \in Seq(Kinds), Grown(s, t, n, kinds),
         \A j \in 1..Len(kinds) : kinds[j] # "recovery", Covered(s, n)
  PROVE  Covered(t, n + Len(kinds))
<1> SUFFICES ASSUME NEW i \in 1..Len(t), t[i].kind = "recovery" PROVE Past(t, i) \/ Gap(t, n + Len(kinds))
  BY DEF Covered
<1>1. Len(s) \in Nat /\ Len(kinds) \in Nat /\ Len(t) = Len(s) + Len(kinds) /\ t \in Seq(Messages)
  BY DEF Grown
<1>2. i \in 1..Len(s) /\ t[i] = s[i]
  <2>1. OldOrNew(s, t, n, kinds, i)
    BY GrownPlaces
  <2> QED BY <2>1 DEF OldOrNew
<1>3. CASE Past(s, i)
  BY <1>2, <1>3, PastKept
<1>4. CASE Gap(s, n) /\ Len(kinds) # 0
  <2>1. Len(s) + 1 \in 1..Len(t) /\ Break(t, Len(s) + 1)
    BY <1>4, GapBreaks
  <2>2. Len(s) + 1 \in (i + 1)..Len(t)
    BY <1>1, <1>2, <2>1
  <2> QED BY <2>1, <2>2 DEF Past
<1>5. CASE Gap(s, n) /\ Len(kinds) = 0
  <2>1. Len(t) = Len(s) /\ n + Len(kinds) = n /\ Len(s) \in 1..Len(s)
    BY <1>1, <1>2, <1>5
  <2>2. t[Len(s)] = s[Len(s)]
    BY <2>1 DEF Grown
  <2>3. t # <<>>
    BY <1>1, <1>2, <2>1
  <2> QED BY <1>5, <2>1, <2>2, <2>3 DEF Gap
<1> QED BY <1>2, <1>3, <1>4, <1>5 DEF Covered

LEMMA ResetCovers ==
  ASSUME NEW s \in Seq(Messages), NEW t, NEW n \in Nat, NEW kinds \in Seq(Kinds), Grown(s, t, n, kinds),
         \A j \in 1..Len(kinds) : kinds[j] # "recovery", NEW l \in 1..Len(kinds), kinds[l] \in Resets,
         NEW m
  PROVE  Covered(t, m)
<1> SUFFICES ASSUME NEW i \in 1..Len(t), t[i].kind = "recovery" PROVE Past(t, i)
  BY DEF Covered
<1>1. Len(s) \in Nat /\ Len(kinds) \in Nat /\ Len(t) = Len(s) + Len(kinds)
  BY DEF Grown
<1>2. i \in 1..Len(s)
  <2>1. OldOrNew(s, t, n, kinds, i)
    BY GrownPlaces
  <2> QED BY <2>1 DEF OldOrNew
<1> DEFINE k == Len(s) + l
<1>3. k \in (i + 1)..Len(t)
  BY <1>1, <1>2
<1>4. t[k].kind = kinds[l]
  BY DEF Grown
<1> QED BY <1>3, <1>4 DEF Past, Break

LEMMA OnceGrows ==
  ASSUME NEW s \in Seq(Messages), NEW t, NEW n \in Nat, NEW kinds \in Seq(Kinds), Grown(s, t, n, kinds),
         Once(s), \A j \in 1..Len(kinds) : kinds[j] = "recovery" => j = 1 /\ Covered(s, n)
  PROVE  Once(t)
<1> SUFFICES ASSUME NEW i \in 1..Len(t), NEW j \in 1..Len(t), i < j,
                    t[i].kind = "recovery", t[j].kind = "recovery"
             PROVE  \E k \in (i + 1)..j : Break(t, k)
  BY DEF Once
<1>1. Len(s) \in Nat /\ Len(kinds) \in Nat /\ Len(t) = Len(s) + Len(kinds)
  BY DEF Grown
<1>2. CASE j \in 1..Len(s) /\ t[j] = s[j]
  <2>1. i \in 1..Len(s)
    BY <1>1, <1>2
  <2>2. t[i] = s[i]
    BY <2>1 DEF Grown
  <2>3. PICK k \in (i + 1)..j : Break(s, k)
    BY <1>2, <2>1, <2>2 DEF Once
  <2>4. k \in 2..Len(s)
    BY <1>1, <1>2, <2>1
  <2> QED BY <1>1, <2>3, <2>4, BreakKept
<1>3. ASSUME NEW l \in 1..Len(kinds), j = Len(s) + l, t[j].kind = kinds[l]
      PROVE  \E k \in (i + 1)..j : Break(t, k)
  <2>1. l = 1 /\ Covered(s, n)
    BY <1>3
  <2>2. j = Len(s) + 1
    BY <1>3, <2>1
  <2>3. i \in 1..Len(s)
    BY <1>1, <2>2
  <2>4. t[i] = s[i]
    BY <2>3 DEF Grown
  <2>5. CASE Past(s, i)
    <3>1. PICK k \in (i + 1)..Len(s) : Break(s, k)
      BY <2>5 DEF Past
    <3>2. k \in 2..Len(s) /\ k \in (i + 1)..j
      BY <1>1, <2>2, <2>3
    <3> QED BY <1>1, <3>1, <3>2, BreakKept
  <2>6. CASE Gap(s, n)
    <3>1. Len(kinds) # 0
      BY <1>1
    <3>2. Break(t, Len(s) + 1)
      BY <2>6, <3>1, GapBreaks
    <3>3. j \in (i + 1)..j
      BY <1>1, <2>2, <2>3
    <3> QED BY <2>2, <3>2, <3>3
  <2> QED BY <2>1, <2>3, <2>4, <2>5, <2>6 DEF Covered
<1>4. OldOrNew(s, t, n, kinds, j)
  BY GrownPlaces
<1> QED BY <1>2, <1>3, <1>4 DEF OldOrNew

LEMMA OnceBegins ==
  ASSUME NEW p, NEW n, PathOK(p, n), NEW r, Begins(r, p)
  PROVE  /\ Once(p) => Once(r)
         /\ Covered(p, n) => Covered(r, n)
<1>1. /\ p \in Seq(Messages) /\ r \in Seq(Messages) /\ n \in Nat
      /\ Len(p) \in Nat /\ Len(r) \in Nat /\ Len(r) <= Len(p)
  BY DEF PathOK, Begins
<1>2. \A i \in 1..Len(r) : i \in 1..Len(p) /\ r[i] = p[i]
  BY <1>1 DEF Begins
<1>3. ASSUME NEW k \in 2..Len(r) PROVE Break(p, k) <=> Break(r, k)
  <2>1. k \in 1..Len(r) /\ k - 1 \in 1..Len(r)
    BY <1>1
  <2>2. r[k] = p[k] /\ r[k - 1] = p[k - 1]
    BY <1>2, <2>1
  <2> QED BY <2>2 DEF Break
<1>4. ASSUME Once(p) PROVE Once(r)
  <2> SUFFICES ASSUME NEW i \in 1..Len(r), NEW j \in 1..Len(r), i < j,
                      r[i].kind = "recovery", r[j].kind = "recovery"
               PROVE  \E k \in (i + 1)..j : Break(r, k)
    BY DEF Once
  <2>1. PICK k \in (i + 1)..j : Break(p, k)
    BY <1>2, <1>4 DEF Once
  <2>2. k \in 2..Len(r)
    BY <1>1
  <2> QED BY <1>3, <2>1, <2>2
<1>5. ASSUME Covered(p, n) PROVE Covered(r, n)
  <2> SUFFICES ASSUME NEW i \in 1..Len(r), r[i].kind = "recovery" PROVE Past(r, i) \/ Gap(r, n)
    BY DEF Covered
  <2>1. CASE Len(r) < Len(p)
    <3>1. Len(r) \in 1..Len(r) /\ Len(r) \in 1..Len(p) /\ Len(p) \in 1..Len(p)
      BY <1>1, <2>1
    <3>2. p[Len(r)] \in Messages /\ p[Len(p)] \in Messages
      BY <1>1, <3>1
    <3>3. p[Len(r)].at \in Nat /\ p[Len(p)].at \in Nat
      BY <3>2 DEF Messages
    <3>4. p[Len(r)].at < p[Len(p)].at /\ p[Len(p)].at <= n
      BY <2>1, <3>1 DEF PathOK, Rising
    <3>5. r[Len(r)].at # n
      BY <1>1, <1>2, <3>1, <3>3, <3>4
    <3>6. r # <<>>
      BY <1>1, <3>1
    <3> QED BY <3>5, <3>6 DEF Gap
  <2>2. CASE Len(r) = Len(p)
    <3>1. i \in 1..Len(p) /\ p[i].kind = "recovery" /\ Len(p) \in 1..Len(r)
      BY <1>1, <1>2, <2>2
    <3>2. CASE Past(p, i)
      <4>1. PICK k \in (i + 1)..Len(p) : Break(p, k)
        BY <3>2 DEF Past
      <4>2. k \in 2..Len(r) /\ k \in (i + 1)..Len(r)
        BY <1>1, <2>2
      <4> QED BY <1>3, <4>1, <4>2 DEF Past
    <3>3. CASE Gap(p, n)
      <4>1. r[Len(r)] = p[Len(p)]
        BY <1>2, <2>2, <3>1
      <4>2. r # <<>>
        BY <1>1
      <4> QED BY <3>3, <4>1, <4>2 DEF Gap
    <3> QED BY <1>5, <3>1, <3>2, <3>3 DEF Covered
  <2> QED BY <1>1, <2>1, <2>2
<1> QED BY <1>4, <1>5

-----------------------------------------------------------------------------
(* What hosts do beside the loop: compact() holds its controller, and
   navigateTree() moves the leaf, only while the session is idle. *)

NoneCleared == \A c \in Callers : ~ClearedRec(call[c])
HostInv ==
  /\ manual.at \in {"auth", "summary"} => navigation = 0 /\ ~active /\ NoneCleared
  /\ navigation # 0 => ~active /\ NoneCleared

(* Beside a run or a cleared call no host is at work. *)
LEMMA HostsBesideWork ==
  ASSUME HostInv, UNCHANGED <<manual, navigation>>, active \/ ~NoneCleared
  PROVE  HostInv'
BY DEF HostInv

(* Nothing is under way: no host is at work. *)
LEMMA HostsBesideNothing ==
  ASSUME UNCHANGED <<manual, navigation>>, ~Underway
  PROVE  HostInv'
BY DEF HostInv, Underway

LEMMA HostsBesideIdle ==
  ASSUME HostInv, UNCHANGED <<manual, navigation, active>>, NoneCleared => NoneCleared'
  PROVE  HostInv'
BY DEF HostInv

LEMMA NextHostInv ==
  ASSUME TypeInv, IInv, HostInv, ~raced', [Next]_vars
  PROVE  HostInv'
<1>0. ASSUME NEW c \in Callers, NEW r, Moves(c, r), ~ClearedRec(r)
      PROVE  NoneCleared => NoneCleared'
  <2>1. call'[c] = r /\ \A d \in Callers : d # c => call'[d] = call[d]
    BY <1>0, MoveFacts
  <2> QED BY <1>0, <2>1 DEF NoneCleared
<1>1. CASE UNCHANGED vars
  BY <1>1 DEF vars, runVars, hostVars, HostInv, NoneCleared
<1>2. ASSUME NEW c \in Callers, PromptCall(c) PROVE HostInv'
  <2>1. IsCall(call[c])
    BY DEF IInv, CallShape
  <2> DEFINE r == [call[c] EXCEPT !.at = "input"]
  <2>2. Moves(c, r) /\ r.at = "input"
    BY <1>2, <2>1, Records DEF PromptCall, Moves
  <2> HIDE DEF r
  <2>3. ~ClearedRec(r)
    BY <2>2 DEF ClearedRec, Compacting
  <2>4. UNCHANGED <<manual, navigation, active>>
    BY <1>2 DEF PromptCall, hostVars, runVars
  <2> QED BY <1>0, <2>2, <2>3, <2>4, HostsBesideIdle
<1>3. ASSUME NEW c \in Callers, TriggerTurn(c) PROVE HostInv'
  BY <1>3, HostsBesideNothing DEF TriggerTurn, hostVars
<1>4. CASE SendCustom \/ RecordBash \/ AbortResponse
  <2>1. UNCHANGED <<call, active, hostVars>>
    BY <1>4 DEF SendCustom, RecordBash, AbortResponse, Command, runVars
  <2> QED BY <2>1 DEF hostVars, HostInv, NoneCleared
<1>5. CASE Abort \/ AbortCompaction \/ Compact
  <2>1. \A c \in Callers : call'[c].at = call[c].at /\ call'[c].then = call[c].then
    BY <1>5, CancelledCalls
  <2>2. \A c \in Callers : ClearedRec(call'[c]) <=> ClearedRec(call[c])
    BY <2>1 DEF ClearedRec
  <2>3. NoneCleared' <=> NoneCleared
    BY <2>2 DEF NoneCleared
  <2>4. UNCHANGED <<active, navigation>>
    BY <1>5 DEF Abort, AbortCompaction, Compact, Command
  <2>5. CASE Abort \/ AbortCompaction
    <3>1. manual' \in {manual, [manual EXCEPT !.cancelled = @ \/ manual.at \in {"auth", "summary"}]}
      BY <2>5 DEF Abort, AbortCompaction
    <3>2. manual \in CallRecords
      BY DEF TypeInv, HostOK
    <3>3. manual'.at = manual.at
      BY <3>1, <3>2 DEF CallRecords
    <3> QED BY <2>3, <2>4, <3>3 DEF HostInv
  <2>6. CASE Compact
    <3>1. manual'.at = "waiting"
      BY <2>6 DEF Compact, Idle
    <3> QED BY <2>3, <2>4, <3>1 DEF HostInv
  <2> QED BY <1>5, <2>5, <2>6
<1>6. CASE Navigate
  <2>1. UNCHANGED <<call, active, manual>> /\ ~active /\ ~Underway
    BY <1>6 DEF Navigate, runVars
  <2>2. manual.at \notin {"auth", "summary"} /\ NoneCleared
    BY <2>1, Zones DEF Underway, NoneCleared
  <2> QED BY <2>1, <2>2 DEF HostInv, NoneCleared
<1>7. CASE HostStep
  <2>1. UNCHANGED <<call, active>>
    BY <1>7 DEF HostStep, ManualBegins, ManualPrepared, ManualDone, NavigateDone, runVars
  <2>2. NoneCleared' <=> NoneCleared
    BY <2>1 DEF NoneCleared
  <2>3. CASE ManualBegins
    <3>1. UNCHANGED navigation /\ ~active /\ ~Underway
      BY <2>3 DEF ManualBegins
    <3>2. navigation = 0 /\ NoneCleared
      BY <3>1, Zones DEF Underway, NoneCleared
    <3> QED BY <2>1, <2>2, <3>1, <3>2 DEF HostInv
  <2>4. CASE ManualPrepared
    <3>1. manual.at = "auth" /\ UNCHANGED navigation
      BY <2>4 DEF ManualPrepared
    <3> QED BY <2>1, <2>2, <3>1 DEF HostInv
  <2>5. CASE ManualDone
    <3>1. manual'.at = "idle" /\ manual.at = "summary" /\ UNCHANGED navigation
      BY <2>5 DEF ManualDone, Idle
    <3> QED BY <2>1, <2>2, <3>1 DEF HostInv
  <2>6. CASE NavigateDone
    <3>1. navigation' = 0 /\ UNCHANGED manual
      BY <2>6 DEF NavigateDone
    <3> QED BY <2>1, <2>2, <3>1 DEF HostInv
  <2> QED BY <1>7, <2>3, <2>4, <2>5, <2>6 DEF HostStep
<1>8. ASSUME NEW c \in Callers, CallStep(c) PROVE HostInv'
  <2>1. CASE UNCHANGED active /\ call' = [call EXCEPT ![c] = Idle] /\ UNCHANGED <<manual, navigation>>
    <3>1. Moves(c, Idle)
      BY <2>1, Records DEF Moves
    <3> QED BY <1>0, <2>1, <3>1, Records, HostsBesideIdle
  <2>2. CASE ~Underway /\ UNCHANGED <<manual, navigation>>
    BY <2>2, HostsBesideNothing
  <2>3. CASE PromptInput(c) \/ Settled(c)
    BY <2>1, <2>2, <2>3 DEF PromptInput, Settled, runVars, hostVars
  <2>4. ASSUME ~PromptInput(c), ~Settled(c)
        PROVE UNCHANGED <<manual, navigation>> /\ (ClearedRec(call[c]) \/ LoopRec(call[c]))
    BY <1>8, <2>4 DEF CallStep, PromptAuth, StartRun, StreamEnds, ToolsEnd, PostRun, RetrySleep, hostVars,
                CompactAuth, CompactSummary, CompactDone, ClearedRec, LoopRec, Compacting
  <2>5. LoopRec(call[c]) => active
    BY DEF IInv, OneLoop
  <2> QED BY <2>3, <2>4, <2>5, HostsBesideWork DEF NoneCleared
<1> QED BY <1>1, <1>2, <1>3, <1>4, <1>5, <1>6, <1>7, <1>8 DEF Next, Environment

-----------------------------------------------------------------------------
(* The invariant of the conversation. *)

(* A call that compacts in order to recover from an overflow. *)
Rec(r) == r.at \in {"compactAuth", "summary"} /\ r.retry /\ r.then # "mid"

BranchInv   == PathOK(path, clock) /\ Paired(ctx)
ToolsInv    == phase = "tools" => Asks(ctx) /\ Asks(path)
CutInv      == /\ \A c \in Callers : call[c].at = "summary" => CutOK(path, clock, call[c].from)
               /\ manual.at = "summary" => CutOK(path, clock, manual.from)
OverflowInv == /\ Once(path) /\ (recovered \/ Covered(path, clock))
               /\ \A c \in Callers : Rec(call[c]) => recovered /\ Covered(path, clock)
LogInv == BranchInv /\ ToolsInv /\ CutInv /\ OverflowInv

(* What a step keeps, in the new state. *)
CutsKept    == \A m : CutOK(path, clock, m) => CutOK(path', clock', m)
CoveredKept == Covered(path, clock) => Covered(path', clock')
LogKept ==
  /\ PathOK(path', clock') /\ Paired(ctx')
  /\ Once(path') /\ (recovered' \/ Covered(path', clock'))
  /\ CutsKept

LEMMA NewKindFacts ==
  ASSUME NEW kinds \in Seq(NewKinds)
  PROVE  /\ kinds \in Seq(Kinds)
         /\ \A i \in 1..Len(kinds) : kinds[i] \notin Compaction /\ kinds[i] # "recovery"
<1>1. \A i \in 1..Len(kinds) : kinds[i] \in NewKinds
  OBVIOUS
<1>2. kinds \in Seq(Kinds)
  BY KindFacts
<1> QED BY <1>1, <1>2 DEF NewKinds, Compaction

LEMMA SpeechKeeps ==
  ASSUME TypeInv, BranchInv, OverflowInv, NEW s, NEW kinds, Said(s, kinds), Frees(kinds),
         Answering(s, kinds), Answering(path, kinds)
  PROVE  LogKept /\ CoveredKept
<1>1. /\ ctx \in Seq(Messages) /\ path \in Seq(Messages) /\ clock \in Nat /\ clock' = clock + Len(kinds)
      /\ Begins(s, ctx) /\ Grown(s, ctx', clock, kinds) /\ Grown(path, path', clock, kinds)
  BY DEF TypeInv, LogOK, Said, Dropped, Shed
<1>2. kinds \in Seq(Kinds) /\ \A i \in 1..Len(kinds) : kinds[i] \notin Compaction /\ kinds[i] # "recovery"
  BY NewKindFacts DEF Said
<1>3. Begins(path, path)
  BY <1>1, Drops
<1>4. PathOK(path', clock')
  <2>1. PathOK(path, clock)
    BY DEF BranchInv
  <2>2. \A i \in 1..Len(kinds) : kinds[i] \in Compaction => CutOK(path, clock, path'[Len(path) + i].from)
    BY <1>2
  <2>3. PathOK(path', clock + Len(kinds))
    BY <1>1, <1>2, <1>3, <2>1, <2>2, PathGrows
  <2> QED BY <1>1, <2>3
<1>5. Paired(ctx')
  <2>1. s \in Seq(Messages) /\ Paired(s)
    BY <1>1, PairedBegins DEF BranchInv
  <2> QED BY <1>1, <1>2, <2>1, PairedGrows
<1>6. Once(path')
  <2>1. \A j \in 1..Len(kinds) : kinds[j] = "recovery" => j = 1 /\ Covered(path, clock)
    BY <1>2
  <2> QED BY <1>1, <1>2, <2>1, OnceGrows DEF OverflowInv
<1>7. CoveredKept
  <2>1. \A j \in 1..Len(kinds) : kinds[j] # "recovery"
    BY <1>2
  <2>2. ASSUME Covered(path, clock) PROVE Covered(path', clock + Len(kinds))
    BY <1>1, <1>2, <2>1, <2>2, CoveredGrows
  <2> QED BY <1>1, <2>2 DEF CoveredKept
<1>8. recovered' \/ Covered(path', clock')
  <2>1. CASE recovered /\ ~recovered'
    <3>1. PICK l \in 1..Len(kinds) : kinds[l] \in Resets
      BY <2>1 DEF Frees
    <3>2. \A j \in 1..Len(kinds) : kinds[j] # "recovery"
      BY <1>2
    <3>3. Covered(path', clock')
      BY <1>1, <1>2, <3>1, <3>2, ResetCovers
    <3> QED BY <3>3
  <2>2. CASE ~recovered
    BY <1>7, <2>2 DEF OverflowInv, CoveredKept
  <2> QED BY <2>1, <2>2
<1>9. CutsKept
  <2>1. ASSUME NEW m, CutOK(path, clock, m) PROVE CutOK(path', clock + Len(kinds), m)
    BY <1>1, <1>2, <1>3, <2>1, CutKept
  <2> QED BY <1>1, <2>1 DEF CutsKept
<1> QED BY <1>4, <1>5, <1>6, <1>7, <1>8, <1>9 DEF LogKept

LEMMA CalmKeeps ==
  ASSUME TypeInv, BranchInv, OverflowInv, Calm
  PROVE  LogKept /\ CoveredKept
<1>1. PICK s, kinds : Said(s, kinds) /\ Frees(kinds) /\ NoTools(kinds)
  BY DEF Calm
<1>2. Answering(s, kinds) /\ Answering(path, kinds)
  BY <1>1 DEF Answering, NoTools
<1> QED BY <1>1, <1>2, SpeechKeeps

LEMMA CompactionKeeps ==
  ASSUME TypeInv, BranchInv, OverflowInv, NEW kind \in Compaction, NEW from, CutOK(path, clock, from),
         AppendCompaction(kind, from), UNCHANGED recovered,
         kind = "recovery" => recovered /\ Covered(path, clock)
  PROVE  LogKept /\ (kind # "recovery" => CoveredKept)
<1>1. from \in Nat /\ path \in Seq(Messages) /\ clock \in Nat
  BY DEF CutOK, TypeInv, LogOK
<1> DEFINE kinds == <<kind>>
<1>2. /\ path' \in Seq(Messages) /\ ctx' = ContextOf(path')
      /\ clock' = clock + 1 /\ Grown(path, path', clock, kinds) /\ path'[Len(path) + 1].from = from
  BY <1>1, CompactionLog
<1>3. kinds \in Seq(Kinds) /\ Len(kinds) = 1 /\ kinds[1] = kind
  BY KindFacts
<1>4. kind # "tool"
  BY DEF Compaction
<1>5. Begins(path, path)
  BY <1>1, Drops
<1>6. \A i \in 1..Len(kinds) : i = 1 /\ kinds[i] = kind
  BY <1>3
<1> HIDE DEF kinds
<1>7. PathOK(path', clock')
  <2>1. PathOK(path, clock)
    BY DEF BranchInv
  <2>2. Answering(path, kinds)
    BY <1>4, <1>6 DEF Answering
  <2>3. \A i \in 1..Len(kinds) : kinds[i] \in Compaction => CutOK(path, clock, path'[Len(path) + i].from)
    BY <1>2, <1>6
  <2>4. PathOK(path', clock + Len(kinds))
    BY <1>2, <1>3, <1>5, <2>1, <2>2, <2>3, PathGrows
  <2> QED BY <1>2, <1>3, <2>4
<1>8. Paired(ctx')
  BY <1>2, <1>7, ContextIsPaired
<1>9. Once(path')
  <2>1. \A j \in 1..Len(kinds) : kinds[j] = "recovery" => j = 1 /\ Covered(path, clock)
    BY <1>6
  <2> QED BY <1>1, <1>2, <1>3, <2>1, OnceGrows DEF OverflowInv
<1>10. kind # "recovery" => CoveredKept
  <2> SUFFICES ASSUME kind # "recovery", Covered(path, clock) PROVE Covered(path', clock')
    BY DEF CoveredKept
  <2>1. \A j \in 1..Len(kinds) : kinds[j] # "recovery"
    BY <1>6
  <2>2. Covered(path', clock + Len(kinds))
    BY <1>1, <1>2, <1>3, <2>1, CoveredGrows
  <2> QED BY <1>2, <1>3, <2>2
<1>11. recovered' \/ Covered(path', clock')
  BY <1>10 DEF OverflowInv, CoveredKept
<1>12. CutsKept
  <2>1. ASSUME NEW m, CutOK(path, clock, m) PROVE CutOK(path', clock + Len(kinds), m)
    BY <1>1, <1>2, <1>3, <1>5, <2>1, CutKept
  <2> QED BY <1>2, <1>3, <2>1 DEF CutsKept
<1> QED BY <1>7, <1>8, <1>9, <1>10, <1>11, <1>12 DEF LogKept

LEMMA NavigationKeeps ==
  ASSUME TypeInv, BranchInv, OverflowInv, NavigateDone
  PROVE  LogKept /\ CoveredKept
<1>0. UNCHANGED recovered
  BY DEF NavigateDone, runVars
<1>1. CASE UNCHANGED logVars
  BY <1>0, <1>1, Unspoken, CalmKeeps
<1>2. ASSUME NEW r, NEW kinds, kinds \in Seq({"branch"}), Begins(r, path), Grown(r, path', clock, kinds),
             clock' = clock + Len(kinds), ctx' = ContextOf(path')
      PROVE  LogKept /\ CoveredKept
  <2>1. \A i \in 1..Len(kinds) : kinds[i] = "branch"
    BY <1>2
  <2>2. kinds \in Seq(Kinds)
    BY <1>2, KindFacts
  <2>3. \A i \in 1..Len(kinds) : kinds[i] \notin Compaction /\ kinds[i] # "recovery" /\ kinds[i] # "tool"
    BY <2>1 DEF Compaction
  <2>4. PathOK(path, clock) /\ path \in Seq(Messages) /\ clock \in Nat /\ r \in Seq(Messages)
    BY <1>2 DEF BranchInv, TypeInv, LogOK, Begins
  <2>5. PathOK(path', clock')
    <3>1. Answering(r, kinds)
      BY <2>3 DEF Answering
    <3>2. \A i \in 1..Len(kinds) : kinds[i] \in Compaction => CutOK(path, clock, path'[Len(r) + i].from)
      BY <2>3
    <3>3. PathOK(path', clock + Len(kinds))
      BY <1>2, <2>2, <2>4, <3>1, <3>2, PathGrows
    <3> QED BY <1>2, <3>3
  <2>6. Paired(ctx')
    BY <1>2, <2>5, ContextIsPaired
  <2>7. Once(r) /\ (Covered(path, clock) => Covered(r, clock))
    BY <1>2, <2>4, OnceBegins DEF OverflowInv
  <2>8. Once(path')
    <3>1. \A j \in 1..Len(kinds) : kinds[j] = "recovery" => j = 1 /\ Covered(r, clock)
      BY <2>3
    <3> QED BY <1>2, <2>2, <2>4, <2>7, <3>1, OnceGrows
  <2>9. CoveredKept
    <3> SUFFICES ASSUME Covered(path, clock) PROVE Covered(path', clock')
      BY DEF CoveredKept
    <3>1. \A j \in 1..Len(kinds) : kinds[j] # "recovery"
      BY <2>3
    <3>2. Covered(path', clock + Len(kinds))
      BY <1>2, <2>2, <2>4, <2>7, <3>1, CoveredGrows
    <3> QED BY <1>2, <3>2
  <2>10. recovered' \/ Covered(path', clock')
    BY <1>0, <2>9 DEF OverflowInv, CoveredKept
  <2>11. CutsKept
    <3>1. ASSUME NEW m, CutOK(path, clock, m) PROVE CutOK(path', clock + Len(kinds), m)
      BY <1>2, <2>2, <2>4, <3>1, CutKept
    <3> QED BY <1>2, <3>1 DEF CutsKept
  <2> QED BY <2>5, <2>6, <2>8, <2>9, <2>10, <2>11 DEF LogKept
<1> QED BY <1>1, <1>2, NavigateLog

(* What becomes of a call that takes a step. *)
Outcome(c, r) ==
  \/ /\ r.at \notin {"summary", "compactAuth"}
     /\ r.at = "post" => call[c].at = "running"
     /\ r.at = "sleep" => call[c].at = "post"
  \/ /\ r.at = "compactAuth" /\ UNCHANGED <<path, clock>> /\ (recovered => recovered')
     /\ r.retry /\ r.then # "mid" => ~recovered /\ recovered'
  \/ /\ r.at = "summary" /\ call[c].at = "compactAuth" /\ r.then = call[c].then /\ r.retry = call[c].retry
     /\ \E i \in CutPoints(path) : r.from = path[i].at
     /\ UNCHANGED <<path, clock, recovered>>
Becomes(c) == \E r : Moves(c, r) /\ Outcome(c, r)

LEMMA StaysOut ==
  ASSUME NEW c, Ends(c) \/ Starts(c)
  PROVE  Becomes(c)
<1>1. PICK a \in {"settle", "running"} : Moves(c, [Idle EXCEPT !.at = a])
  BY DEF Ends, Starts
<1> DEFINE r == [Idle EXCEPT !.at = a]
<1>2. r.at = a
  BY Records
<1> HIDE DEF r
<1>3. Outcome(c, r)
  BY <1>2 DEF Outcome
<1> QED BY <1>1, <1>3 DEF Becomes, r

LEMMA Placed ==
  ASSUME IInv, NEW c \in Callers, NEW a, a \notin {"summary", "compactAuth"},
         a = "post" => call[c].at = "running", a = "sleep" => call[c].at = "post",
         call' \in {[call EXCEPT ![c].at = a], [call EXCEPT ![c] = Idle]}
  PROVE  Becomes(c)
<1>1. IsCall(call[c])
  BY DEF IInv, CallShape
<1>2. CASE call' = [call EXCEPT ![c].at = a]
  <2> DEFINE r == [call[c] EXCEPT !.at = a]
  <2>1. IsCall(r) /\ r.at = a
    BY <1>1, Records
  <2>2. Moves(c, r)
    BY <1>2, <2>1 DEF Moves
  <2> HIDE DEF r
  <2> QED BY <2>1, <2>2 DEF Becomes, Outcome
<1>3. CASE call' = [call EXCEPT ![c] = Idle]
  <2>1. Moves(c, Idle)
    BY <1>3, Records DEF Moves
  <2>2. Idle.at = "idle"
    BY DEF Idle
  <2> QED BY <2>1, <2>2 DEF Becomes, Outcome
<1> QED BY <1>2, <1>3

LEMMA CompactionOutcome ==
  ASSUME NEW c, NEW s, NEW then, NEW retry, StartCompaction(c, s, then, retry), recovered => recovered',
         retry /\ then # "mid" => ~recovered /\ recovered'
  PROVE  Becomes(c)
<1> DEFINE r == [Idle EXCEPT !.at = "compactAuth", !.then = then, !.retry = retry]
<1>1. IsCall(r) /\ r.at = "compactAuth" /\ r.then = then /\ r.retry = retry
  BY DEF IsCall, Idle
<1>2. Moves(c, r) /\ UNCHANGED <<path, clock>>
  BY <1>1 DEF StartCompaction, Moves
<1> HIDE DEF r
<1> QED BY <1>1, <1>2 DEF Becomes, Outcome

LEMMA VerdictFacts ==
  ASSUME NEW a, NEW v \in Verdicts(a), v = "recover"
  PROVE  ~recovered
<1>1. CASE a.kind \in {"overflow"} \cup Truncated
  BY <1>1 DEF Verdicts
<1>2. CASE a.kind \notin {"overflow"} \cup Truncated
  BY <1>2 DEF Verdicts
<1> QED BY <1>1, <1>2

LEMMA CheckedOutcome ==
  ASSUME TypeInv, NEW c, NEW a, NEW v \in Verdicts(a), NEW then, CheckedCompaction(c, v, then)
  PROVE  Becomes(c)
<1>1. PICK s : StartCompaction(c, s, then, v = "recover")
  BY DEF CheckedCompaction
<1>2. recovered => recovered'
  BY DEF CheckedCompaction
<1>3. v = "recover" => ~recovered /\ recovered'
  BY VerdictFacts DEF CheckedCompaction
<1> QED BY <1>1, <1>2, <1>3, CompactionOutcome

LEMMA AfterRetryOutcome ==
  ASSUME TypeInv, NEW c, NEW m, AfterRetry(c, m)
  PROVE  Becomes(c)
<1>1. CASE (\E s : StartCompaction(c, s, "mid", TRUE)) /\ UNCHANGED recovered
  BY <1>1, CompactionOutcome
<1>2. CASE Decide(c, ctx, HasQueued)
  BY <1>2, DecideKinds, StaysOut DEF HasQueued
<1>3. CASE \E v \in Verdicts(m) : CheckedCompaction(c, v, "loop")
  BY <1>3, CheckedOutcome
<1> QED BY <1>1, <1>2, <1>3 DEF AfterRetry

LEMMA CollectOutcome ==
  ASSUME NEW c \in Callers, Collect(c)
  PROVE  Becomes(c)
BY CollectMoves DEF Becomes, Outcome

LEMMA ReturnsOutcome ==
  ASSUME NEW c \in Callers, NEW s, NEW yes \in BOOLEAN, Returns(c, s, yes)
  PROVE  Becomes(c)
BY CollectOutcome, DecideKinds, StaysOut DEF Returns, HasQueued

LEMMA Outcomes ==
  ASSUME TypeInv, IInv, NEW c \in Callers, CallStep(c)
  PROVE  Becomes(c)
<1>1. IsCall(call[c]) /\ call = [d \in Callers |-> call[d]]
  BY DEF IInv, CallShape
<1>2. CASE PromptInput(c) \/ Settled(c)
  <2>1. call' \in {[call EXCEPT ![c].at = "auth"], [call EXCEPT ![c] = Idle]}
    BY <1>2 DEF PromptInput, Settled
  <2>2. "auth" \notin {"summary", "compactAuth"}
    OBVIOUS
  <2> QED BY <2>1, <2>2, Placed
<1>3. CASE PromptAuth(c)
  <2>1. \/ call' = [call EXCEPT ![c] = Idle] \/ Collect(c)
        \/ \E v \in Verdicts(AnswerOf(ctx)) : CheckedCompaction(c, v, "prompt")
    BY <1>3 DEF PromptAuth
  <2>2. CASE call' = [call EXCEPT ![c] = Idle]
    <3>1. "idle" \notin {"summary", "compactAuth"}
      OBVIOUS
    <3> QED BY <2>2, <3>1, Placed
  <2>3. CASE Collect(c)
    BY <2>3, CollectOutcome
  <2>4. CASE \E v \in Verdicts(AnswerOf(ctx)) : CheckedCompaction(c, v, "prompt")
    BY <2>4, CheckedOutcome
  <2> QED BY <2>1, <2>2, <2>3, <2>4
<1>4. CASE StartRun(c)
  <2>1. Settle(c, ctx) \/ \E kinds : StartAgent(c, ctx, kinds)
    BY <1>4 DEF StartRun, Run
  <2> QED BY <2>1, SettleEnds, StartAgentStarts, StaysOut
<1>5. CASE (\E k \in AnswerKinds : StreamEnds(c, k)) \/ ToolsEnd(c)
  <2>1. call[c].at = "running" /\ (call' = call \/ call' = [call EXCEPT ![c].at = "post"])
    BY <1>5 DEF StreamEnds, ToolsEnd, WouldStop, EndTurn
  <2>2. CASE call' = call
    <3>1. Moves(c, call[c])
      BY <1>1, <2>2 DEF Moves
    <3> QED BY <2>1, <3>1 DEF Becomes, Outcome
  <2>3. CASE call' = [call EXCEPT ![c].at = "post"]
    <3>1. "post" \notin {"summary", "compactAuth"}
      OBVIOUS
    <3> QED BY <2>1, <2>3, <3>1, Placed
  <2> QED BY <2>1, <2>2, <2>3
<1>6. CASE PostRun(c) \/ RetrySleep(c)
  <2>1. \/ \E s, goOn : Decide(c, s, goOn) /\ goOn \in BOOLEAN
        \/ \E m : AfterRetry(c, m)
        \/ call[c].at = "post" /\ call' = [call EXCEPT ![c].at = "sleep"]
    BY <1>6 DEF PostRun, RetrySleep
  <2>2. CASE call[c].at = "post" /\ call' = [call EXCEPT ![c].at = "sleep"]
    <3>1. "sleep" \notin {"summary", "compactAuth"}
      OBVIOUS
    <3> QED BY <2>2, <3>1, Placed
  <2> QED BY <2>1, <2>2, DecideKinds, StaysOut, AfterRetryOutcome
<1>7. CASE CompactAuth(c) \/ CompactSummary(c) \/ CompactDone(c)
  <2>1. CASE \E s, yes : Returns(c, s, yes) /\ yes \in BOOLEAN
    BY <2>1, ReturnsOutcome
  <2>2. CASE call' = [call EXCEPT ![c].at = "compacted"]
    <3>1. "compacted" \notin {"summary", "compactAuth"}
      OBVIOUS
    <3> QED BY <2>2, <3>1, Placed
  <2>3. ASSUME NEW i \in CutPoints(path), call[c].at = "compactAuth", UNCHANGED <<path, clock, recovered>>,
               call' = [call EXCEPT ![c].at = "summary", ![c].from = path[i].at]
        PROVE  Becomes(c)
    <3> DEFINE x == path[i].at
               r == [call[c] EXCEPT !.at = "summary", !.from = x]
    <3>1. call[c] \in CallRecords
      BY DEF TypeInv, CallOK
    <3> HIDE DEF x
    <3>2. r.at = "summary" /\ r.then = call[c].then /\ r.retry = call[c].retry /\ r.from = x
      BY <3>1 DEF CallRecords
    <3>3. IsCall(r)
      BY <1>1 DEF IsCall
    <3>4. Moves(c, r)
      BY <1>1, <2>3, <3>3 DEF Moves, x
    <3> HIDE DEF r
    <3>5. Outcome(c, r)
      BY <2>3, <3>2 DEF Outcome, x
    <3> QED BY <3>4, <3>5 DEF Becomes
  <2>4. (call[c].retry \/ HasQueued) \in BOOLEAN /\ FALSE \in BOOLEAN
    OBVIOUS
  <2> QED BY <1>7, <2>1, <2>2, <2>3, <2>4 DEF CompactAuth, CompactSummary, CompactDone, logVars
<1> QED BY <1>2, <1>3, <1>4, <1>5, <1>6, <1>7 DEF CallStep

(* Two calls never recover at the same time. *)
LEMMA OneRecovers ==
  ASSUME IInv, NEW c \in Callers, LoopRec(call[c]) \/ ClearedRec(call[c])
  PROVE  \A d \in Callers : d # c => ~Rec(call[d])
<1> SUFFICES ASSUME NEW d \in Callers, Rec(call[d]) PROVE d = c
  OBVIOUS
<1>1. LoopRec(call[d]) \/ ClearedRec(call[d])
  BY DEF Rec, LoopRec, ClearedRec, Compacting
<1>2. \A e \in Callers : ClearedRec(call[e]) => ~active
  BY DEF IInv, OnePreflight
<1>3. (LoopRec(call[c]) \/ LoopRec(call[d])) => active
  BY DEF IInv, OneLoop
<1> QED BY <1>1, <1>2, <1>3 DEF IInv, OneLoop, OnePreflight

(* A place chosen for a cut is a good one, as long as the branch stands. *)
LEMMA CutIsGood ==
  ASSUME PathOK(path, clock), NEW i \in CutPoints(path)
  PROVE  CutOK(path, clock, path[i].at)
<1>1. path \in Seq(Messages)
  BY DEF PathOK
<1>2. i \in 1..Len(path) /\ path[i].kind # "tool" /\ path[i].at \in Nat
  BY <1>1, CutFacts
<1>3. CutIn(path, path[i].at)
  <2> SUFFICES ASSUME NEW j \in 1..Len(path), path[j].at = path[i].at PROVE path[j].kind # "tool"
    BY DEF CutIn
  <2>1. path[j] \in Messages
    BY <1>1
  <2>2. path[j].at \in Nat
    BY <2>1 DEF Messages
  <2>3. ~(i < j) /\ ~(j < i)
    BY <1>2, <2>2 DEF PathOK, Rising
  <2>4. i = j
    BY <1>1, <1>2, <2>3
  <2> QED BY <1>2, <2>4
<1> QED BY <1>2, <1>3 DEF CutOK, PathOK

(* A call takes a step: the pending cuts and recoveries stay good. *)
LEMMA CallsKeep ==
  ASSUME IInv, CutInv, OverflowInv, PathOK(path, clock), LogKept, UNCHANGED manual,
         NEW c \in Callers, Becomes(c),
         \/ \A d \in Callers : d # c => ~Rec(call[d])
         \/ (recovered => recovered') /\ CoveredKept
  PROVE  CutInv' /\ OverflowInv'
<1>1. PICK r : Moves(c, r) /\ Outcome(c, r)
  BY DEF Becomes
<1>2. call'[c] = r /\ \A d \in Callers : d # c => call'[d] = call[d]
  BY <1>1, MoveFacts
<1>3. ASSUME NEW d \in Callers, call'[d].at = "summary" PROVE CutOK(path', clock', call'[d].from)
  <2>1. CASE d # c
    BY <1>2, <1>3, <2>1 DEF CutInv, LogKept, CutsKept
  <2>2. CASE d = c
    <3>1. r.at = "summary"
      BY <1>2, <1>3, <2>2
    <3>2. PICK i \in CutPoints(path) : r.from = path[i].at /\ UNCHANGED <<path, clock>>
      BY <1>1, <3>1 DEF Outcome
    <3>3. CutOK(path, clock, path[i].at)
      BY CutIsGood
    <3>4. r.from = path[i].at /\ path' = path /\ clock' = clock
      BY <3>2
    <3> QED BY <1>2, <2>2, <3>3, <3>4
  <2> QED BY <2>1, <2>2
<1>4. manual'.at = "summary" => CutOK(path', clock', manual'.from)
  BY DEF CutInv, LogKept, CutsKept
<1>5. ASSUME NEW d \in Callers, Rec(call'[d]) PROVE recovered' /\ Covered(path', clock')
  <2>1. CASE d # c
    BY <1>2, <1>5, <2>1 DEF OverflowInv, CoveredKept
  <2>2. CASE d = c
    <3>1. Rec(r)
      BY <1>2, <1>5, <2>2
    <3>2. CASE /\ r.at = "compactAuth" /\ UNCHANGED <<path, clock>>
               /\ r.retry /\ r.then # "mid" => ~recovered /\ recovered'
      BY <3>1, <3>2 DEF Rec, OverflowInv
    <3>3. CASE /\ r.at = "summary" /\ call[c].at = "compactAuth" /\ r.then = call[c].then /\ r.retry = call[c].retry
               /\ UNCHANGED <<path, clock, recovered>>
      BY <3>1, <3>3 DEF Rec, OverflowInv
    <3> QED BY <1>1, <3>1, <3>2, <3>3 DEF Outcome, Rec
  <2> QED BY <2>1, <2>2
<1>6. CutInv'
  BY <1>3, <1>4 DEF CutInv
<1>7. OverflowInv'
  BY <1>5 DEF OverflowInv, LogKept
<1> QED BY <1>6, <1>7

(* Steps that leave the calls where they are. *)
LEMMA OthersKeep ==
  ASSUME CutInv, OverflowInv, LogKept, CoveredKept, UNCHANGED recovered,
         \A c \in Callers : /\ call'[c].at = call[c].at /\ call'[c].then = call[c].then
                            /\ call'[c].retry = call[c].retry /\ call'[c].from = call[c].from,
         manual'.at = "summary" => CutOK(path', clock', manual'.from)
  PROVE  CutInv' /\ OverflowInv'
<1>1. \A c \in Callers : call'[c].at = "summary" => CutOK(path', clock', call'[c].from)
  BY DEF CutInv, LogKept, CutsKept
<1>2. \A c \in Callers : Rec(call'[c]) => recovered' /\ Covered(path', clock')
  BY DEF Rec, OverflowInv, CoveredKept
<1> QED BY <1>1, <1>2 DEF CutInv, OverflowInv, LogKept

(* The step of a call that is not an event of the Agent's run. *)
OwnStep(c) ==
  \/ PromptInput(c) \/ PromptAuth(c) \/ StartRun(c) \/ PostRun(c) \/ RetrySleep(c)
  \/ CompactAuth(c) \/ CompactSummary(c) \/ CompactDone(c) \/ Settled(c)

LEMMA PhaseSteps ==
  ASSUME NEW c \in Callers, OwnStep(c)
  PROVE  phase' \in {phase, "stream"}
<1>1. ASSUME NEW s, NEW goOn, Decide(c, s, goOn) PROVE phase' \in {phase, "stream"}
  BY <1>1 DEF Decide, Continue, Settle, StartAgent
<1>2. ASSUME NEW s, NEW yes, Returns(c, s, yes) PROVE phase' \in {phase, "stream"}
  BY <1>1, <1>2 DEF Returns
<1>3. ASSUME NEW m, AfterRetry(c, m) PROVE phase' \in {phase, "stream"}
  BY <1>1, <1>3 DEF AfterRetry, CheckedCompaction, StartCompaction
<1>4. CASE PromptInput(c) \/ PromptAuth(c) \/ Settled(c)
  BY <1>4 DEF PromptInput, PromptAuth, Settled, CheckedCompaction, StartCompaction, runVars
<1>5. CASE StartRun(c)
  BY <1>5 DEF StartRun, Run, StartAgent, Settle
<1>6. CASE PostRun(c) \/ RetrySleep(c)
  BY <1>1, <1>3, <1>6 DEF PostRun, RetrySleep
<1>7. CASE CompactAuth(c) \/ CompactSummary(c) \/ CompactDone(c)
  BY <1>2, <1>7 DEF CompactAuth, CompactSummary, CompactDone
<1> QED BY <1>4, <1>5, <1>6, <1>7 DEF OwnStep

(* While tools run, nobody else adds to the conversation. *)
LEMMA ToolsUndisturbed ==
  ASSUME IInv, NEW c \in Callers, OwnStep(c), phase = "tools"
  PROVE  UNCHANGED logVars
<1>1. PICK d \in Callers : call[d].at = "running"
  BY DEF IInv, OneLoop
<1>2. LoopRec(call[d]) /\ active
  BY <1>1 DEF IInv, OneLoop, LoopRec
<1>3. ~ClearedRec(call[c])
  BY <1>2 DEF IInv, OnePreflight
<1>4. LoopRec(call[c]) => call[c].at = "running"
  BY <1>1, <1>2 DEF IInv, OneLoop
<1>5. PromptInput(c) \/ Settled(c)
  BY <1>3, <1>4 DEF OwnStep, PromptAuth, StartRun, PostRun, RetrySleep, CompactAuth, CompactSummary, CompactDone,
                    ClearedRec, LoopRec, Compacting
<1> QED BY <1>2, <1>5 DEF PromptInput, Settled

LEMMA OwnStepKeeps ==
  ASSUME TypeInv, IInv, LogInv, NEW c \in Callers, OwnStep(c)
  PROVE  LogInv'
<1>0. BranchInv /\ ToolsInv /\ CutInv /\ OverflowInv /\ PathOK(path, clock) /\ CallStep(c)
  BY DEF LogInv, BranchInv, OwnStep, CallStep
<1>1. ToolsInv'
  <2> SUFFICES ASSUME phase' = "tools" PROVE Asks(ctx') /\ Asks(path')
    BY DEF ToolsInv
  <2>1. phase = "tools"
    BY PhaseSteps
  <2>2. UNCHANGED logVars
    BY <2>1, ToolsUndisturbed
  <2>3. ctx' = ctx /\ path' = path
    BY <2>2 DEF logVars
  <2> QED BY <1>0, <2>1, <2>3 DEF ToolsInv
<1>2. Becomes(c) /\ UNCHANGED manual
  <2>1. UNCHANGED manual
    BY DEF OwnStep, PromptInput, PromptAuth, StartRun, PostRun, RetrySleep, CompactAuth, CompactSummary,
           CompactDone, Settled, hostVars
  <2> QED BY <1>0, <2>1, Outcomes
<1>3. ASSUME Calm PROVE LogKept /\ CoveredKept
  BY <1>0, <1>3, CalmKeeps
<1>4. ASSUME LogKept, \/ \A d \in Callers : d # c => ~Rec(call[d])
                      \/ (recovered => recovered') /\ CoveredKept
      PROVE  LogInv'
  <2>1. CutInv' /\ OverflowInv'
    BY <1>0, <1>2, <1>4, CallsKeep
  <2>2. BranchInv'
    BY <1>4 DEF BranchInv, LogKept
  <2> QED BY <1>1, <2>1, <2>2 DEF LogInv
<1>5. CASE PromptInput(c) \/ Settled(c)
  <2>1. Calm /\ UNCHANGED recovered
    BY <1>5, PromptSaid, HostSaid DEF PromptInput, Settled, runVars
  <2> QED BY <1>3, <1>4, <2>1
<1>6. ASSUME ~PromptInput(c), ~Settled(c) PROVE LogInv'
  <2>1. LoopRec(call[c]) \/ ClearedRec(call[c])
    BY <1>6 DEF OwnStep, PromptAuth, StartRun, PostRun, RetrySleep, CompactAuth, CompactSummary, CompactDone,
                ClearedRec, LoopRec, Compacting
  <2>2. \A d \in Callers : d # c => ~Rec(call[d])
    BY <2>1, OneRecovers
  <2>3. CASE Calm
    BY <1>3, <1>4, <2>2, <2>3
  <2>4. ASSUME CompactSummary(c), UNCHANGED recovered,
               AppendCompaction(IF call[c].retry /\ call[c].then # "mid" THEN "recovery" ELSE "compaction",
                                call[c].from)
        PROVE  LogInv'
    <3> DEFINE kind == IF call[c].retry /\ call[c].then # "mid" THEN "recovery" ELSE "compaction"
    <3>1. kind \in Compaction /\ call[c].at = "summary"
      BY <2>4 DEF Compaction, CompactSummary
    <3>2. CutOK(path, clock, call[c].from)
      BY <1>0, <3>1 DEF CutInv
    <3>3. kind = "recovery" => recovered /\ Covered(path, clock)
      BY <1>0, <3>1 DEF OverflowInv, Rec
    <3>4. AppendCompaction(kind, call[c].from)
      BY <2>4
    <3> HIDE DEF kind
    <3>5. LogKept
      BY <1>0, <2>4, <3>1, <3>2, <3>3, <3>4, CompactionKeeps
    <3> QED BY <1>4, <2>2, <3>5
  <2> QED BY <1>6, <2>3, <2>4, PromptSaid, RunSaid, PostSaid, AutoSaid DEF OwnStep
<1> QED BY <1>5, <1>6

LEMMA TurnKeeps ==
  ASSUME TypeInv, IInv, LogInv, NEW c \in Callers, (\E k \in AnswerKinds : StreamEnds(c, k)) \/ ToolsEnd(c)
  PROVE  LogInv'
<1>0. BranchInv /\ ToolsInv /\ CutInv /\ OverflowInv /\ PathOK(path, clock) /\ CallStep(c)
  BY DEF LogInv, BranchInv, CallStep
<1>1. LoopRec(call[c]) /\ UNCHANGED manual
  BY DEF StreamEnds, ToolsEnd, LoopRec, hostVars
<1>2. Becomes(c) /\ \A d \in Callers : d # c => ~Rec(call[d])
  BY <1>0, <1>1, Outcomes, OneRecovers
<1>3. ASSUME LogKept, ToolsInv' PROVE LogInv'
  <2>1. CutInv' /\ OverflowInv'
    BY <1>0, <1>1, <1>2, <1>3, CallsKeep
  <2>2. BranchInv'
    BY <1>3 DEF BranchInv, LogKept
  <2> QED BY <1>3, <2>1, <2>2 DEF LogInv
<1>4. CASE Calm /\ phase' # "tools"
  <2>1. ToolsInv'
    BY <1>4 DEF ToolsInv
  <2> QED BY <1>0, <1>3, <1>4, <2>1, CalmKeeps
<1>5. ASSUME NEW k \in ToolCalls, Said(ctx, <<k>>), Frees(<<k>>) PROVE LogInv'
  <2> DEFINE kinds == <<k>>
  <2>1. Len(kinds) = 1 /\ kinds[1] = k /\ k # "tool"
    BY DEF ToolCalls
  <2>a. Said(ctx, kinds) /\ Frees(kinds)
    BY <1>5
  <2> HIDE DEF kinds
  <2>2. Answering(ctx, kinds) /\ Answering(path, kinds)
    BY <2>1 DEF Answering
  <2>3. LogKept
    BY <1>0, <2>a, <2>2, SpeechKeeps
  <2>4. ASSUME NEW s \in Seq(Messages), NEW t, Grown(s, t, clock, kinds) PROVE Asks(t)
    <3>1. t \in Seq(Messages) /\ Len(s) \in Nat /\ Len(t) = Len(s) + 1 /\ 1 \in 1..Len(kinds)
      BY <2>1, <2>4 DEF Grown
    <3>2. t[Len(s) + 1].kind = k
      BY <2>1, <2>4, <3>1 DEF Grown
    <3>3. t # <<>>
      BY <3>1
    <3> QED BY <3>1, <3>2, <3>3 DEF Asks
  <2>5. Asks(ctx') /\ Asks(path')
    BY <2>a, <2>4 DEF Said, TypeInv, LogOK
  <2>6. ToolsInv'
    BY <2>5 DEF ToolsInv
  <2> QED BY <1>3, <2>3, <2>6
<1>6. CASE ToolsEnd(c)
  <2>1. PICK rest \in Seq(Plain) : Said(ctx, <<"tool">> \o rest) /\ Frees(<<"tool">> \o rest)
    BY <1>6, ToolsSaid
  <2> DEFINE kinds == <<"tool">> \o rest
  <2>2. Len(kinds) = 1 + Len(rest) /\ \A i \in 1..Len(rest) : kinds[1 + i] = rest[i]
    OBVIOUS
  <2>3. NoTools(rest) /\ Len(rest) \in Nat
    BY PlainKinds
  <2>4. Said(ctx, kinds) /\ Frees(kinds)
    BY <2>1
  <2> HIDE DEF kinds
  <2>5. \A i \in 1..Len(kinds) : kinds[i] = "tool" => i = 1
    <3> SUFFICES ASSUME NEW i \in 1..Len(kinds), kinds[i] = "tool", i # 1 PROVE FALSE
      OBVIOUS
    <3>1. i - 1 \in 1..Len(rest) /\ 1 + (i - 1) = i
      BY <2>2, <2>3
    <3>2. kinds[1 + (i - 1)] = rest[i - 1]
      BY <2>2, <3>1
    <3>3. rest[i - 1] # "tool"
      BY <2>3, <3>1 DEF NoTools
    <3> QED BY <3>1, <3>2, <3>3
  <2>6. phase = "tools" /\ phase' # "tools"
    BY <1>6, ToolsSaid DEF ToolsEnd
  <2>7. Asks(ctx) /\ Asks(path)
    BY <1>0, <2>6 DEF ToolsInv
  <2>8. Answering(ctx, kinds) /\ Answering(path, kinds)
    BY <2>5, <2>7 DEF Answering
  <2>9. LogKept
    BY <1>0, <2>4, <2>8, SpeechKeeps
  <2>10. ToolsInv'
    BY <2>6 DEF ToolsInv
  <2> QED BY <1>3, <2>9, <2>10
<1> QED BY <1>4, <1>5, <1>6, StreamSaid

(* Idle sessions run no tools. *)
LEMMA IdleRunsNothing ==
  ASSUME IInv, ~active
  PROVE  phase = "none" /\ \A c \in Callers : ~LoopRec(call[c])
BY DEF IInv, OneLoop, LoopRec

LEMMA EnvironmentKeeps ==
  ASSUME TypeInv, IInv, LogInv, ~raced', Environment
  PROVE  LogInv'
<1>0. BranchInv /\ ToolsInv /\ CutInv /\ OverflowInv /\ PathOK(path, clock)
  BY DEF LogInv, BranchInv
<1>1. ASSUME LogKept, CutInv', OverflowInv', phase' = "tools" => phase = "tools" /\ UNCHANGED logVars
      PROVE  LogInv'
  <2>1. BranchInv'
    BY <1>1 DEF BranchInv, LogKept
  <2>2. phase' = "tools" => Asks(ctx') /\ Asks(path')
    BY <1>0, <1>1 DEF ToolsInv, logVars
  <2>3. ToolsInv'
    BY <2>2 DEF ToolsInv
  <2> QED BY <1>1, <2>1, <2>3 DEF LogInv
<1>2. ASSUME NEW c \in Callers, PromptCall(c) PROVE LogInv'
  <2>1. UNCHANGED <<logVars, phase, recovered, manual>> /\ call' = [call EXCEPT ![c].at = "input"]
    BY <1>2 DEF PromptCall, runVars, hostVars
  <2>2. Calm
    BY <1>2, PromptSaid
  <2>3. LogKept /\ CoveredKept
    BY <1>0, <2>2, CalmKeeps
  <2>4. "input" \notin {"summary", "compactAuth"}
    OBVIOUS
  <2>5. Becomes(c)
    BY <2>1, <2>4, Placed
  <2>6. CutInv' /\ OverflowInv'
    BY <1>0, <2>1, <2>3, <2>5, CallsKeep
  <2> QED BY <1>1, <2>1, <2>3, <2>6
<1>3. ASSUME NEW c \in Callers, TriggerTurn(c) PROVE LogInv'
  <2>1. ~active /\ UNCHANGED manual /\ \A d \in Callers : ~ClearedRec(call[d])
    BY <1>3, Zones DEF TriggerTurn, Underway, hostVars
  <2>2. phase = "none" /\ \A d \in Callers : ~LoopRec(call[d])
    BY <2>1, IdleRunsNothing
  <2>3. \A d \in Callers : ~Rec(call[d])
    BY <2>1, <2>2 DEF Rec, LoopRec, ClearedRec, Compacting
  <2>4. \E kinds : StartAgent(c, ctx, kinds)
    BY <1>3, <2>2 DEF TriggerTurn, Run
  <2>5. Becomes(c) /\ phase' = "stream"
    BY <2>4, StartAgentStarts, StaysOut DEF Starts
  <2>6. LogKept
    BY <1>0, <1>3, RunSaid, CalmKeeps
  <2>7. CutInv' /\ OverflowInv'
    BY <1>0, <2>1, <2>3, <2>5, <2>6, CallsKeep
  <2> QED BY <1>1, <2>5, <2>6, <2>7
<1>4. CASE SendCustom \/ RecordBash
  <2>1. UNCHANGED <<phase, recovered, call, manual>> /\ (active => UNCHANGED logVars)
    BY <1>4 DEF SendCustom, RecordBash, runVars, hostVars
  <2>2. LogKept /\ CoveredKept
    BY <1>0, <1>4, AsideSaid, CalmKeeps
  <2>3. manual'.at = "summary" => CutOK(path', clock', manual'.from)
    BY <1>0, <2>1, <2>2 DEF CutInv, LogKept, CutsKept
  <2>4. CutInv' /\ OverflowInv'
    BY <1>0, <2>1, <2>2, <2>3, OthersKeep
  <2>5. phase' = "tools" => phase = "tools" /\ UNCHANGED logVars
    BY <2>1, IdleRunsNothing
  <2> QED BY <1>1, <2>2, <2>4, <2>5
<1>5. CASE Abort \/ AbortCompaction \/ AbortResponse \/ Compact \/ Navigate
  <2>1. UNCHANGED <<logVars, phase, recovered>>
    BY <1>5, HostSaid DEF Abort, AbortCompaction, AbortResponse, Compact, Navigate, Command, runVars
  <2>2. LogKept /\ CoveredKept
    BY <1>0, <1>5, HostSaid, CalmKeeps
  <2>3. \A c \in Callers : /\ call'[c].at = call[c].at /\ call'[c].then = call[c].then
                           /\ call'[c].retry = call[c].retry /\ call'[c].from = call[c].from
    BY <1>5, CancelledCalls DEF AbortResponse, Navigate
  <2>4. manual'.at = "summary" => manual.at = "summary" /\ manual'.from = manual.from
    <3>1. manual \in CallRecords
      BY DEF TypeInv, HostOK
    <3>2. \/ manual' = manual \/ manual' = [Idle EXCEPT !.at = "waiting"]
          \/ manual' = [manual EXCEPT !.cancelled = @ \/ manual.at \in {"auth", "summary"}]
      BY <1>5 DEF Abort, AbortCompaction, AbortResponse, Compact, Navigate, hostVars
    <3>3. [Idle EXCEPT !.at = "waiting"].at = "waiting"
      BY Records
    <3>4. \A b : /\ [manual EXCEPT !.cancelled = b].at = manual.at
                 /\ [manual EXCEPT !.cancelled = b].from = manual.from
      BY <3>1 DEF CallRecords
    <3> QED BY <3>2, <3>3, <3>4
  <2>5. manual'.at = "summary" => CutOK(path', clock', manual'.from)
    BY <1>0, <2>2, <2>4 DEF CutInv, LogKept, CutsKept
  <2>6. CutInv' /\ OverflowInv'
    BY <1>0, <2>1, <2>2, <2>3, <2>5, OthersKeep
  <2> QED BY <1>1, <2>1, <2>2, <2>6
<1> QED BY <1>2, <1>3, <1>4, <1>5 DEF Environment

LEMMA HostStepKeeps ==
  ASSUME TypeInv, IInv, HostInv, LogInv, HostStep
  PROVE  LogInv'
<1>0. BranchInv /\ ToolsInv /\ CutInv /\ OverflowInv /\ PathOK(path, clock)
  BY DEF LogInv, BranchInv
<1>1. UNCHANGED <<phase, recovered, call>>
  BY DEF HostStep, ManualBegins, ManualPrepared, ManualDone, NavigateDone, runVars
<1>2. ASSUME LogKept, CoveredKept, manual'.at = "summary" => CutOK(path', clock', manual'.from),
             phase # "tools" \/ UNCHANGED logVars
      PROVE  LogInv'
  <2>1. CutInv' /\ OverflowInv'
    BY <1>0, <1>1, <1>2, OthersKeep
  <2>2. BranchInv'
    BY <1>2 DEF BranchInv, LogKept
  <2>3. phase' = "tools" => Asks(ctx') /\ Asks(path')
    BY <1>0, <1>1, <1>2 DEF ToolsInv, logVars
  <2>4. ToolsInv'
    BY <2>3 DEF ToolsInv
  <2> QED BY <2>1, <2>2, <2>4 DEF LogInv
<1>3. CASE ManualBegins \/ ManualPrepared
  <2>1. UNCHANGED logVars /\ LogKept /\ CoveredKept
    BY <1>0, <1>3, HostSaid, CalmKeeps
  <2>2. ASSUME manual'.at = "summary" PROVE CutOK(path', clock', manual'.from)
    <3>0. manual \in CallRecords /\ path \in Seq(Messages)
      BY DEF TypeInv, HostOK, LogOK
    <3>1. /\ Idle.at = "idle" /\ [Idle EXCEPT !.at = "auth"].at = "auth"
          /\ \A x : [manual EXCEPT !.at = "summary", !.from = x].from = x
      BY <3>0 DEF Idle, CallRecords
    <3>2. \/ manual' = Idle \/ manual' = [Idle EXCEPT !.at = "auth"]
          \/ \E i \in CutPoints(path) : manual' = [manual EXCEPT !.at = "summary", !.from = path[i].at]
      BY <1>3 DEF ManualBegins, ManualPrepared
    <3>3. PICK i \in CutPoints(path) : manual'.from = path[i].at
      BY <2>2, <3>1, <3>2
    <3>4. CutOK(path, clock, path[i].at)
      BY <1>0, CutIsGood
    <3> QED BY <2>1, <3>3, <3>4 DEF logVars
  <2> QED BY <1>2, <2>1, <2>2
<1>4. CASE ManualDone
  <2>1. manual'.at # "summary"
    BY <1>4 DEF ManualDone, Idle
  <2>2. phase # "tools" /\ CutOK(path, clock, manual.from)
    BY <1>0, <1>4, IdleRunsNothing DEF ManualDone, HostInv, CutInv
  <2>3. CASE UNCHANGED logVars
    BY <1>0, <1>1, <1>2, <2>1, <2>3, Unspoken, CalmKeeps
  <2>4. CASE AppendCompaction("compaction", manual.from)
    <3>1. "compaction" \in Compaction /\ "compaction" # "recovery"
      BY DEF Compaction
    <3>2. LogKept /\ CoveredKept
      BY <1>0, <1>1, <2>2, <2>4, <3>1, CompactionKeeps
    <3> QED BY <1>2, <2>1, <2>2, <3>2
  <2> QED BY <1>4, <2>3, <2>4 DEF ManualDone
<1>5. CASE NavigateDone
  <2>1. phase # "tools" /\ UNCHANGED manual
    BY <1>5, IdleRunsNothing DEF NavigateDone, HostInv
  <2>2. LogKept /\ CoveredKept
    BY <1>0, <1>5, NavigationKeeps
  <2>3. manual'.at = "summary" => CutOK(path', clock', manual'.from)
    BY <1>0, <2>1, <2>2 DEF CutInv, LogKept, CutsKept
  <2> QED BY <1>2, <2>1, <2>2, <2>3
<1> QED BY <1>3, <1>4, <1>5 DEF HostStep

LEMMA InitLogInv == Init => HostInv /\ LogInv
<1> SUFFICES ASSUME Init PROVE HostInv /\ LogInv
  OBVIOUS
<1>1. /\ path = <<>> /\ ctx = <<>> /\ clock = 0 /\ phase = "none" /\ manual = Idle /\ navigation = 0
      /\ \A c \in Callers : call[c] = Idle
  BY DEF Init
<1>2. Idle.at = "idle" /\ <<>> \in Seq(Messages) /\ Len(<<>>) = 0 /\ DOMAIN <<>> = {}
  BY DEF Idle
<1>3. HostInv
  BY <1>1, <1>2 DEF HostInv
<1>4. BranchInv
  BY <1>1, <1>2 DEF BranchInv, PathOK, Rising, Paired
<1>5. ToolsInv /\ CutInv
  BY <1>1, <1>2 DEF ToolsInv, CutInv
<1>6. OverflowInv
  BY <1>1, <1>2 DEF OverflowInv, Once, Covered, Rec
<1> QED BY <1>3, <1>4, <1>5, <1>6 DEF LogInv

(* Everything that is known of a session until two calls find it free at the
   same time. *)
SessionInv == TypeInv /\ IInv /\ HostInv /\ LogInv

LEMMA NextSessionInv == SessionInv /\ ~raced' /\ [Next]_vars => SessionInv'
<1> SUFFICES ASSUME SessionInv, ~raced', [Next]_vars PROVE SessionInv'
  OBVIOUS
<1>0. TypeInv /\ IInv /\ HostInv /\ LogInv
  BY DEF SessionInv
<1>1. TypeInv' /\ IInv' /\ HostInv'
  BY <1>0, NextTypes, NextIInv, NextHostInv
<1>2. LogInv'
  <2>1. CASE UNCHANGED vars
    <3>1. UNCHANGED <<logVars, phase, recovered, call, manual>>
      BY <2>1 DEF vars, runVars, hostVars
    <3>2. BranchInv' /\ ToolsInv' /\ CutInv' /\ OverflowInv'
      BY <1>0, <3>1 DEF logVars, LogInv, BranchInv, ToolsInv, CutInv, OverflowInv
    <3> QED BY <3>2 DEF LogInv
  <2>2. CASE Environment
    BY <1>0, <2>2, EnvironmentKeeps
  <2>3. CASE HostStep
    BY <1>0, <2>3, HostStepKeeps
  <2>4. ASSUME NEW c \in Callers, CallStep(c) PROVE LogInv'
    BY <1>0, <2>4, OwnStepKeeps, TurnKeeps DEF CallStep, OwnStep
  <2> QED BY <2>1, <2>2, <2>3, <2>4 DEF Next
<1> QED BY <1>1, <1>2 DEF SessionInv

(* The invariant of the conversation. *)
THEOREM SessionInvariance == Spec => [](~raced => SessionInv)
<1>1. Init => (~raced => SessionInv)
  BY InitTypeInv, InitIInv, InitLogInv DEF SessionInv
<1>2. (~raced => SessionInv) /\ [Next]_vars => (~raced => SessionInv)'
  BY NextSessionInv, RacedStays
<1> QED BY <1>1, <1>2, PTL DEF Spec

(* A tool result directly follows its call, in the context the model sees and
   in every context that could be rebuilt from the session file: no aside, no
   steering message, no compaction, navigation or cut comes between them
   (agent-session.ts, the deferred asides and turn_end; findValidCutPoints). *)
THEOREM NothingIntrudes == Spec => []NoIntruder
<1>1. (~raced => SessionInv) => NoIntruder
  BY ContextIsPaired DEF SessionInv, LogInv, BranchInv, NoIntruder
<1> QED BY <1>1, SessionInvariance, PTL

(* An overflow is compacted away and the turn repeated once: between two such
   compactions on the branch of the session the user spoke, an answer
   succeeded, or the session was navigated
   (agent-session.ts, _overflowRecoveryAttempted). *)
THEOREM RecoversOnce == Spec => []OverflowOnce
<1>1. (~raced => SessionInv) => OverflowOnce
  <2> SUFFICES ASSUME SessionInv PROVE OverflowOnce
    BY DEF OverflowOnce
  <2>1. Once(path) /\ DOMAIN path = 1..Len(path)
    BY DEF SessionInv, LogInv, OverflowInv, TypeInv, LogOK
  <2> QED BY <2>1 DEF OverflowOnce, Once, Break, Resets
<1> QED BY <1>1, SessionInvariance, PTL
-----------------------------------------------------------------------------
(* The context and the session file: s follows f when it is f without some
   answers and what came behind them, users' messages only if u. *)

In(m, s)      == \E i \in 1..Len(s) : s[i] = m
Taken(s, f)   == \A i \in 1..Len(s) : In(s[i], f)
Ordered(s, f) == \A i \in 1..Len(s), k \in 1..Len(f) :
                   s[i] = f[k] => \A j \in (i + 1)..Len(s), l \in 1..k : s[j] # f[l]
Excused(s, f, u) ==
  \A k \in 1..Len(f) : ~In(f[k], s) =>
    \/ IsAnswer(f[k])
    \/ k > 1 /\ ~In(f[k - 1], s) /\ (f[k].kind = "user" => u)
Follows(s, f, u) == Taken(s, f) /\ Ordered(s, f) /\ Excused(s, f, u)
Distinct(f)      == \A k, l \in 1..Len(f) : f[k] = f[l] => k = l

(* Dropping an answer and what followed it. *)
LEMMA ShedFollows ==
  ASSUME NEW s \in Seq(Messages), NEW f \in Seq(Messages), NEW t, NEW u, Follows(s, f, u), Shed(t, s, u)
  PROVE  Follows(t, f, u)
<1>0. /\ Len(t) \in Nat /\ Len(s) \in Nat /\ Len(f) \in Nat /\ Len(t) <= Len(s)
      /\ \A i \in 1..Len(t) : t[i] = s[i] /\ i \in 1..Len(s)
  BY DEF Shed, Begins
<1>1. \A m : In(m, t) => In(m, s)
  BY <1>0 DEF In
<1>2. Taken(t, f)
  BY <1>0 DEF Follows, Taken
<1>3. Ordered(t, f)
  <2> SUFFICES ASSUME NEW i \in 1..Len(t), NEW k \in 1..Len(f), t[i] = f[k],
                      NEW j \in (i + 1)..Len(t), NEW l \in 1..k
               PROVE  t[j] # f[l]
    BY DEF Ordered
  <2>1. j \in 1..Len(t) /\ j \in (i + 1)..Len(s) /\ i \in 1..Len(s) /\ s[i] = f[k] /\ t[j] = s[j]
    BY <1>0
  <2> QED BY <2>1 DEF Follows, Ordered
<1>4. Excused(t, f, u)
  <2> SUFFICES ASSUME NEW k \in 1..Len(f), ~In(f[k], t), ~IsAnswer(f[k])
               PROVE  k > 1 /\ ~In(f[k - 1], t) /\ (f[k].kind = "user" => u)
    BY DEF Excused
  <2>1. CASE ~In(f[k], s)
    BY <1>1, <2>1 DEF Follows, Excused
  <2>2. CASE In(f[k], s)
    <3>1. PICK i \in 1..Len(s) : s[i] = f[k]
      BY <2>2 DEF In
    <3>2. i > Len(t)
      BY <1>0, <3>1 DEF In
    <3>3. i # Len(t) + 1
      BY <1>0, <3>1, <3>2 DEF Shed
    <3>4. i \in (Len(t) + 2)..Len(s) /\ i - 1 \in 1..Len(s) /\ Len(t) < Len(s)
      BY <1>0, <3>2, <3>3
    <3>5. f[k].kind = "user" => u
      BY <3>1, <3>4 DEF Shed
    <3>6. PICK l \in 1..Len(f) : f[l] = s[i - 1]
      BY <3>4 DEF Follows, Taken, In
    <3>7. l < k
      <4>1. \A j \in ((i - 1) + 1)..Len(s), h \in 1..l : s[j] # f[h]
        BY <3>4, <3>6 DEF Follows, Ordered
      <4>2. i \in ((i - 1) + 1)..Len(s)
        BY <1>0, <3>4
      <4>3. k \notin 1..l
        BY <3>1, <4>1, <4>2
      <4> QED BY <4>3
    <3>8. ~In(f[k - 1], t)
      <4> SUFFICES ASSUME NEW h \in 1..Len(t), t[h] = f[k - 1] PROVE FALSE
        BY DEF In
      <4>1. h \in 1..Len(s) /\ s[h] = f[k - 1] /\ k - 1 \in 1..Len(f) /\ i - 1 \in (h + 1)..Len(s)
            /\ l \in 1..(k - 1)
        BY <1>0, <3>4, <3>7
      <4>2. s[i - 1] # f[l]
        BY <4>1 DEF Follows, Ordered
      <4> QED BY <3>6, <4>2
    <3> QED BY <3>5, <3>7, <3>8
  <2> QED BY <2>1, <2>2
<1> QED BY <1>2, <1>3, <1>4 DEF Follows

LEMMA SelfFollows ==
  ASSUME NEW f \in Seq(Messages), Distinct(f), NEW u
  PROVE  Follows(f, f, u)
<1>1. Taken(f, f) /\ Excused(f, f, u)
  BY DEF Taken, Excused, In
<1>2. Ordered(f, f)
  <2> SUFFICES ASSUME NEW i \in 1..Len(f), NEW k \in 1..Len(f), f[i] = f[k],
                      NEW j \in (i + 1)..Len(f), NEW l \in 1..k, f[j] = f[l]
               PROVE  FALSE
    BY DEF Ordered
  <2>1. i = k /\ j = l
    <3>1. j \in 1..Len(f) /\ l \in 1..Len(f)
      OBVIOUS
    <3> QED BY <3>1 DEF Distinct
  <2> QED BY <2>1
<1> QED BY <1>1, <1>2 DEF Follows

(* t is s with the messages of new behind it. *)
Joins(s, new, t) ==
  /\ t \in Seq(Messages) /\ Len(t) = Len(s) + Len(new)
  /\ \A i \in 1..Len(s) : t[i] = s[i]
  /\ \A i \in 1..Len(new) : t[Len(s) + i] = new[i]

LEMMA JoinPlaces ==
  ASSUME NEW s \in Seq(Messages), NEW new \in Seq(Messages), NEW t, Joins(s, new, t), NEW i \in 1..Len(t)
  PROVE  \/ i \in 1..Len(s) /\ t[i] = s[i]
         \/ \E j \in 1..Len(new) : i = Len(s) + j /\ t[i] = new[j]
<1>1. Len(s) \in Nat /\ Len(new) \in Nat /\ Len(t) = Len(s) + Len(new)
  BY DEF Joins
<1>2. CASE i > Len(s)
  <2> DEFINE j == i - Len(s)
  <2>1. j \in 1..Len(new) /\ i = Len(s) + j
    BY <1>1, <1>2
  <2> HIDE DEF j
  <2>2. t[Len(s) + j] = new[j]
    BY <2>1 DEF Joins
  <2> QED BY <2>1, <2>2
<1>3. CASE i <= Len(s)
  <2>1. i \in 1..Len(s)
    BY <1>1, <1>3
  <2> QED BY <2>1 DEF Joins
<1> QED BY <1>1, <1>2, <1>3

(* New messages enter both. *)
LEMMA GrowthFollows ==
  ASSUME NEW s \in Seq(Messages), NEW f \in Seq(Messages), NEW new \in Seq(Messages), NEW u,
         NEW t, NEW g, Joins(s, new, t), Joins(f, new, g), Follows(s, f, u),
         Distinct(new), \A i \in 1..Len(new), k \in 1..Len(f) : new[i] # f[k]
  PROVE  Follows(t, g, u)
<1>0. /\ Len(s) \in Nat /\ Len(f) \in Nat /\ Len(new) \in Nat
      /\ Len(t) = Len(s) + Len(new) /\ Len(g) = Len(f) + Len(new)
  BY DEF Joins
<1>1. \A i \in 1..Len(s) : i \in 1..Len(t) /\ t[i] = s[i]
  BY <1>0 DEF Joins
<1>2. \A k \in 1..Len(f) : k \in 1..Len(g) /\ g[k] = f[k]
  BY <1>0 DEF Joins
<1>3. \A i \in 1..Len(new) : /\ Len(s) + i \in 1..Len(t) /\ t[Len(s) + i] = new[i]
                             /\ Len(f) + i \in 1..Len(g) /\ g[Len(f) + i] = new[i]
  BY <1>0 DEF Joins
<1>4. \A i \in 1..Len(new), h \in 1..Len(s) : new[i] # s[h]
  BY DEF Follows, Taken, In
<1>5. \A i \in 1..Len(t) : \/ i \in 1..Len(s) /\ t[i] = s[i]
                           \/ \E j \in 1..Len(new) : i = Len(s) + j /\ t[i] = new[j]
  BY JoinPlaces
<1>6. \A i \in 1..Len(g) : \/ i \in 1..Len(f) /\ g[i] = f[i]
                           \/ \E j \in 1..Len(new) : i = Len(f) + j /\ g[i] = new[j]
  BY JoinPlaces
<1>7. Taken(t, g)
  <2> SUFFICES ASSUME NEW i \in 1..Len(t) PROVE \E k \in 1..Len(g) : g[k] = t[i]
    BY DEF Taken, In
  <2>1. CASE i \in 1..Len(s) /\ t[i] = s[i]
    BY <1>2, <2>1 DEF Follows, Taken, In
  <2>2. CASE \E j \in 1..Len(new) : i = Len(s) + j /\ t[i] = new[j]
    BY <1>3, <2>2
  <2> QED BY <1>5, <2>1, <2>2
<1>8. Ordered(t, g)
  <2> SUFFICES ASSUME NEW i \in 1..Len(t), NEW k \in 1..Len(g), t[i] = g[k],
                      NEW j \in (i + 1)..Len(t), NEW l \in 1..k, t[j] = g[l]
               PROVE  FALSE
    BY DEF Ordered
  <2>0. j \in 1..Len(t) /\ l \in 1..Len(g) /\ i < j /\ l <= k
    BY <1>0
  <2>1. CASE i \in 1..Len(s) /\ t[i] = s[i]
    <3>1. k \in 1..Len(f) /\ g[k] = f[k]
      BY <1>4, <1>6, <2>1
    <3>2. l \in 1..Len(f) /\ g[l] = f[l]
      BY <1>2, <2>0, <3>1
    <3>3. j \in 1..Len(s) /\ t[j] = s[j]
      BY <1>5, <2>0, <3>2
    <3>4. j \in (i + 1)..Len(s)
      BY <2>0, <3>3
    <3> QED BY <2>1, <3>1, <3>2, <3>3, <3>4 DEF Follows, Ordered
  <2>2. ASSUME NEW a \in 1..Len(new), i = Len(s) + a, t[i] = new[a] PROVE FALSE
    <3>0. j \notin 1..Len(s)
      BY <1>0, <2>0, <2>2
    <3>1. PICK b \in 1..Len(new) : j = Len(s) + b /\ t[j] = new[b]
      BY <1>5, <2>0, <3>0
    <3>2. PICK c \in 1..Len(new) : k = Len(f) + c /\ g[k] = new[c]
      BY <1>6, <2>2
    <3>3. PICK d \in 1..Len(new) : l = Len(f) + d /\ g[l] = new[d]
      BY <1>6, <2>0, <3>1
    <3>4. a = c /\ b = d
      BY <2>2, <3>1, <3>2, <3>3 DEF Distinct
    <3> QED BY <1>0, <2>0, <2>2, <3>1, <3>2, <3>3, <3>4
  <2> QED BY <1>5, <2>1, <2>2
<1>9. Excused(t, g, u)
  <2> SUFFICES ASSUME NEW k \in 1..Len(g), ~In(g[k], t), ~IsAnswer(g[k])
               PROVE  k > 1 /\ ~In(g[k - 1], t) /\ (g[k].kind = "user" => u)
    BY DEF Excused
  <2>1. k \in 1..Len(f) /\ g[k] = f[k]
    BY <1>3, <1>6 DEF In
  <2>2. ~In(f[k], s)
    BY <1>1, <2>1 DEF In
  <2>3. k > 1 /\ ~In(f[k - 1], s) /\ (f[k].kind = "user" => u)
    BY <2>1, <2>2 DEF Follows, Excused
  <2>4. k - 1 \in 1..Len(f) /\ g[k - 1] = f[k - 1]
    BY <1>2, <2>1, <2>3
  <2>5. ~In(g[k - 1], t)
    <3> SUFFICES ASSUME NEW i \in 1..Len(t), t[i] = f[k - 1] PROVE FALSE
      BY <2>4 DEF In
    <3>1. CASE i \in 1..Len(s) /\ t[i] = s[i]
      BY <2>3, <3>1 DEF In
    <3>2. CASE \E j \in 1..Len(new) : t[i] = new[j]
      BY <2>4, <3>2
    <3> QED BY <1>5, <3>1, <3>2
  <2> QED BY <2>1, <2>3, <2>5
<1> QED BY <1>7, <1>8, <1>9 DEF Follows

(* The context of a branch: messages of it, each once. *)
LEMMA ContextPicks ==
  ASSUME NEW p \in Seq(Messages), Rising(p)
  PROVE  /\ \A i \in 1..Len(ContextOf(p)) : In(ContextOf(p)[i], p)
         /\ Distinct(ContextOf(p))
<1> DEFINE s == ContextOf(p)
<1>0. \A i, j \in 1..Len(p) : p[i] = p[j] => i = j
  <2> SUFFICES ASSUME NEW i \in 1..Len(p), NEW j \in 1..Len(p), p[i] = p[j] PROVE i = j
    OBVIOUS
  <2>1. p[i] \in Messages
    OBVIOUS
  <2>2. p[i].at \in Nat
    BY <2>1 DEF Messages
  <2>3. ~(i < j) /\ ~(j < i)
    BY <2>2 DEF Rising
  <2> QED BY <2>3
<1>1. CASE Compactions(p) = {}
  <2>1. s = p
    BY <1>1 DEF ContextOf
  <2> HIDE DEF s
  <2>2. (\A i \in 1..Len(s) : In(s[i], p)) /\ Distinct(s)
    BY <1>0, <2>1 DEF In, Distinct
  <2> QED BY <2>2 DEF s
<1>2. CASE Compactions(p) # {}
  <2>1. PICK c \in 1..Len(p), a \in Seq(Messages) :
           /\ ContextOf(p) = <<p[c]>> \o a \o SubSeq(p, c + 1, Len(p))
           /\ \/ a = <<>>
              \/ \E k \in 1..Len(p) : p[k].at = p[c].from /\ a = SubSeq(p, k, c - 1)
    BY <1>2, ContextParts
  <2> DEFINE b == SubSeq(p, c + 1, Len(p))
  <2>2. /\ p[c] \in Messages /\ b \in Seq(Messages) /\ Len(b) = Len(p) - c
        /\ \A i \in 1..Len(b) : b[i] = p[c + i]
    OBVIOUS
  <2> HIDE DEF b
  <2>3. /\ s \in Seq(Messages) /\ Len(s) = 1 + Len(a) + Len(b) /\ s[1] = p[c]
        /\ \A i \in 1..Len(a) : s[1 + i] = a[i]
        /\ \A i \in 1..Len(b) : s[1 + Len(a) + i] = b[i]
    <3>1. s = <<p[c]>> \o a \o b
      BY <2>1 DEF b
    <3>2. p[c] \in Messages /\ b \in Seq(Messages)
      BY <2>2
    <3> HIDE DEF s
    <3> QED BY <3>1, <3>2, Assembled
  <2> HIDE DEF s
  <2>4. PICK k \in 1..Len(p) : /\ \A i \in 1..Len(a) : a[i] = p[k + i - 1]
                               /\ Len(a) > 0 => k + Len(a) = c
    <3>1. CASE a = <<>>
      <4>1. Len(a) = 0
        BY <3>1
      <4> QED BY <2>1, <4>1
    <3>2. ASSUME NEW k \in 1..Len(p), a = SubSeq(p, k, c - 1)
          PROVE  \E h \in 1..Len(p) : /\ \A i \in 1..Len(a) : a[i] = p[h + i - 1]
                                      /\ Len(a) > 0 => h + Len(a) = c
      <4>1. \A i \in 1..Len(a) : a[i] = p[k + i - 1]
        BY <3>2
      <4>2. Len(a) > 0 => k + Len(a) = c
        BY <3>2
      <4> QED BY <4>1, <4>2
    <3> QED BY <2>1, <3>1, <3>2
  <2> DEFINE f(i) == IF i = 1 THEN c ELSE IF i <= 1 + Len(a) THEN k + i - 2 ELSE c + i - 1 - Len(a)
  <2>5. Len(a) \in Nat /\ Len(b) \in Nat /\ Len(p) \in Nat
    BY <2>2
  <2>6. \A i \in 1..Len(s) : f(i) \in 1..Len(p) /\ s[i] = p[f(i)]
    <3> SUFFICES ASSUME NEW i \in 1..Len(s) PROVE f(i) \in 1..Len(p) /\ s[i] = p[f(i)]
      OBVIOUS
    <3>1. CASE i = 1
      BY <2>3, <3>1
    <3>2. CASE i # 1 /\ i <= 1 + Len(a)
      <4> DEFINE j == i - 1
      <4>1. j \in 1..Len(a) /\ 1 + j = i /\ f(i) = k + j - 1 /\ k + j - 1 \in 1..Len(p)
        BY <2>3, <2>4, <2>5, <3>2
      <4> HIDE DEF j, f
      <4>2. s[1 + j] = a[j] /\ a[j] = p[k + j - 1]
        BY <2>3, <2>4, <4>1
      <4> QED BY <4>1, <4>2
    <3>3. CASE i > 1 + Len(a)
      <4> DEFINE j == i - 1 - Len(a)
      <4>1. j \in 1..Len(b) /\ 1 + Len(a) + j = i /\ f(i) = c + j /\ c + j \in 1..Len(p)
        BY <2>2, <2>3, <2>5, <3>3
      <4> HIDE DEF j, f
      <4>2. s[1 + Len(a) + j] = b[j] /\ b[j] = p[c + j]
        BY <2>2, <2>3, <4>1
      <4> QED BY <4>1, <4>2
    <3> QED BY <2>5, <3>1, <3>2, <3>3
  <2>7. \A i, j \in 1..Len(s) : f(i) = f(j) => i = j
    <3> SUFFICES ASSUME NEW i \in 1..Len(s), NEW j \in 1..Len(s), f(i) = f(j) PROVE i = j
      OBVIOUS
    <3>1. i \in Int /\ j \in Int /\ i >= 1 /\ j >= 1
      BY <2>3, <2>5
    <3>2. CASE Len(a) = 0
      BY <2>5, <3>1, <3>2
    <3>3. CASE Len(a) > 0
      <4>1. k + Len(a) = c
        BY <2>4, <3>3
      <4> QED BY <2>5, <3>1, <3>3, <4>1
    <3> QED BY <2>5, <3>2, <3>3
  <2> HIDE DEF f
  <2>8. \A i \in 1..Len(s) : In(s[i], p)
    BY <2>6 DEF In
  <2>9. Distinct(s)
    <3> SUFFICES ASSUME NEW i \in 1..Len(s), NEW j \in 1..Len(s), s[i] = s[j] PROVE i = j
      BY DEF Distinct
    <3>1. f(i) \in 1..Len(p) /\ f(j) \in 1..Len(p) /\ p[f(i)] = p[f(j)]
      BY <2>6
    <3>2. f(i) = f(j)
      BY <1>0, <3>1
    <3> QED BY <2>7, <3>2
  <2> QED BY <2>8, <2>9 DEF s
<1> QED BY <1>1, <1>2

(* Messages added to a branch are added to its context. *)
LEMMA ContextGrows ==
  ASSUME NEW p \in Seq(Messages), NEW new \in Seq(Messages), NEW q, q = p \o new, Rising(q),
         \A i \in 1..Len(new) : new[i].kind \notin Compaction
  PROVE  Joins(ContextOf(p), new, ContextOf(q))
<1>1. /\ Len(p) \in Nat /\ Len(new) \in Nat /\ q \in Seq(Messages) /\ Len(q) = Len(p) + Len(new)
      /\ \A i \in 1..Len(p) : i \in 1..Len(q) /\ q[i] = p[i]
      /\ \A i \in 1..Len(new) : q[Len(p) + i] = new[i]
      /\ DOMAIN p = 1..Len(p) /\ DOMAIN q = 1..Len(q)
  OBVIOUS
<1>a. Joins(p, new, q)
  BY <1>1 DEF Joins
<1>2. Compactions(q) = Compactions(p)
  <2>1. ASSUME NEW i \in 1..Len(q), q[i].kind \in Compaction PROVE i \in 1..Len(p)
    BY <1>1, <1>a, <2>1, JoinPlaces
  <2> QED BY <1>1, <2>1 DEF Compactions
<1>3. CASE Compactions(p) = {}
  BY <1>2, <1>3, <1>a DEF ContextOf
<1>4. CASE Compactions(p) # {}
  <2> DEFINE c == Latest(p)
             kept == {i \in 1..(c - 1) : p[i].at = p[c].from}
             a == IF kept = {} THEN <<>> ELSE SubSeq(p, IndexOf(p, p[c].from), c - 1)
             b == SubSeq(p, c + 1, Len(p))
             d == SubSeq(q, c + 1, Len(q))
             keptq == {i \in 1..(c - 1) : q[i].at = q[c].from}
             e == IF keptq = {} THEN <<>> ELSE SubSeq(q, IndexOf(q, q[c].from), c - 1)
  <2>1. c \in 1..Len(p) /\ Latest(q) = c
    BY <1>2, <1>4, Newest DEF Latest
  <2>2. ContextOf(p) = <<p[c]>> \o a \o b /\ ContextOf(q) = <<q[c]>> \o e \o d
    BY <1>2, <1>4, <2>1 DEF ContextOf
  <2> HIDE DEF c
  <2>3. q[c] = p[c] /\ q[c] \in Messages /\ keptq = kept
    BY <1>1, <2>1
  <2>4. ASSUME kept # {} PROVE IndexOf(q, q[c].from) = IndexOf(p, p[c].from) /\ IndexOf(p, p[c].from) \in 1..Len(p)
    <3> DEFINE n == p[c].from
               i == IndexOf(p, n)
               j == IndexOf(q, n)
    <3>1. \E h \in DOMAIN p : p[h].at = n
      BY <1>1, <2>1, <2>4
    <3>2. i \in DOMAIN p /\ p[i].at = n
      BY <3>1 DEF IndexOf
    <3>3. \E h \in DOMAIN q : q[h].at = n
      BY <1>1, <3>1
    <3>4. j \in DOMAIN q /\ q[j].at = n
      BY <3>3 DEF IndexOf
    <3> HIDE DEF i, j
    <3>5. i \in 1..Len(q) /\ j \in 1..Len(q) /\ q[i].at = q[j].at /\ q[i] \in Messages
      BY <1>1, <3>2, <3>4
    <3>6. q[i].at \in Nat
      BY <3>5 DEF Messages
    <3>7. ~(i < j) /\ ~(j < i)
      BY <3>5, <3>6 DEF Rising
    <3>8. i = j
      BY <3>5, <3>7
    <3> QED BY <1>1, <2>3, <3>2, <3>8 DEF i, j
  <2>5. e = a /\ a \in Seq(Messages)
    <3>1. CASE kept = {}
      <4>1. a = <<>>
        BY <3>1
      <4>2. e = <<>>
        BY <2>3, <3>1
      <4> HIDE DEF a, e
      <4>3. <<>> \in Seq(Messages)
        OBVIOUS
      <4> QED BY <4>1, <4>2, <4>3
    <3>2. CASE kept # {}
      <4> DEFINE k == IndexOf(p, p[c].from)
      <4>1. k \in 1..Len(p) /\ IndexOf(q, q[c].from) = k
        BY <2>4, <3>2
      <4>2. a = SubSeq(p, k, c - 1) /\ e = SubSeq(q, k, c - 1)
        BY <2>3, <3>2, <4>1
      <4> HIDE DEF k, a, e
      <4>3. \A i \in 1..(c - 1 - k + 1) : k + i - 1 \in 1..Len(p)
        BY <1>1, <2>1, <4>1
      <4>4. SubSeq(p, k, c - 1) = SubSeq(q, k, c - 1) /\ SubSeq(p, k, c - 1) \in Seq(Messages)
        BY <1>1, <2>1, <4>1, <4>3
      <4> QED BY <4>2, <4>4
    <3> QED BY <3>1, <3>2
  <2> HIDE DEF a, e
  <2>6. /\ b \in Seq(Messages) /\ Len(b) = Len(p) - c /\ \A i \in 1..Len(b) : b[i] = p[c + i]
        /\ d \in Seq(Messages) /\ Len(d) = Len(q) - c /\ \A i \in 1..Len(d) : d[i] = q[c + i]
    <3>1. \A r \in Seq(Messages) : \A n \in 1..Len(r) :
            LET x == SubSeq(r, n + 1, Len(r))
            IN  x \in Seq(Messages) /\ Len(x) = Len(r) - n /\ \A i \in 1..Len(x) : x[i] = r[n + i]
      OBVIOUS
    <3>2. c \in 1..Len(q)
      BY <1>1, <2>1
    <3> QED BY <1>1, <2>1, <3>1, <3>2, Zenon
  <2> HIDE DEF b, d
  <2> DEFINE s == ContextOf(p)
             t == ContextOf(q)
  <2>7. /\ s \in Seq(Messages) /\ Len(s) = 1 + Len(a) + Len(b) /\ s[1] = p[c]
        /\ \A i \in 1..Len(a) : s[1 + i] = a[i]
        /\ \A i \in 1..Len(b) : s[1 + Len(a) + i] = b[i]
    <3>1. s = <<p[c]>> \o a \o b /\ p[c] \in Messages /\ b \in Seq(Messages) /\ a \in Seq(Messages)
      BY <2>2, <2>3, <2>5, <2>6
    <3> HIDE DEF s
    <3> QED BY <3>1, Assembled
  <2>8. /\ t \in Seq(Messages) /\ Len(t) = 1 + Len(a) + Len(d) /\ t[1] = p[c]
        /\ \A i \in 1..Len(a) : t[1 + i] = a[i]
        /\ \A i \in 1..Len(d) : t[1 + Len(a) + i] = d[i]
    <3>1. t = <<p[c]>> \o a \o d /\ p[c] \in Messages /\ d \in Seq(Messages) /\ a \in Seq(Messages)
      BY <2>2, <2>3, <2>5, <2>6
    <3> HIDE DEF t
    <3> QED BY <3>1, Assembled
  <2> HIDE DEF s, t
  <2>9. Len(a) \in Nat /\ Len(d) = Len(b) + Len(new) /\ Len(b) \in Nat /\ Len(d) \in Nat
    BY <1>1, <2>1, <2>5, <2>6
  <2>10. Len(t) = Len(s) + Len(new)
    BY <1>1, <2>7, <2>8, <2>9
  <2>11. ASSUME NEW i \in 1..Len(s) PROVE t[i] = s[i]
    <3>1. CASE i = 1
      BY <2>7, <2>8, <3>1
    <3>2. CASE i # 1 /\ i <= 1 + Len(a)
      <4> DEFINE j == i - 1
      <4>1. j \in 1..Len(a) /\ i = 1 + j
        BY <2>7, <2>9, <3>2
      <4> HIDE DEF j
      <4> QED BY <2>7, <2>8, <4>1
    <3>3. CASE i > 1 + Len(a)
      <4> DEFINE j == i - 1 - Len(a)
      <4>1. j \in 1..Len(b) /\ j \in 1..Len(d) /\ i = 1 + Len(a) + j /\ c + j \in 1..Len(p)
        BY <1>1, <2>1, <2>6, <2>7, <2>9, <3>3
      <4> HIDE DEF j
      <4>2. t[i] = d[j] /\ s[i] = b[j] /\ d[j] = q[c + j] /\ b[j] = p[c + j]
        BY <2>6, <2>7, <2>8, <4>1
      <4> QED BY <1>1, <4>1, <4>2
    <3> QED BY <2>9, <3>1, <3>2, <3>3
  <2>12. ASSUME NEW i \in 1..Len(new) PROVE t[Len(s) + i] = new[i]
    <3> DEFINE j == Len(b) + i
    <3>1. j \in 1..Len(d) /\ Len(s) + i = 1 + Len(a) + j /\ c + j = Len(p) + i
      BY <1>1, <2>1, <2>6, <2>7, <2>9
    <3> HIDE DEF j
    <3>2. t[Len(s) + i] = d[j] /\ d[j] = q[c + j]
      BY <2>6, <2>8, <3>1
    <3> QED BY <1>1, <3>1, <3>2
  <2> QED BY <2>8, <2>10, <2>11, <2>12 DEF Joins, s, t
<1> QED BY <1>3, <1>4

LEMMA FollowsMore ==
  ASSUME NEW s, NEW f, NEW u, NEW v, Follows(s, f, u), u => v
  PROVE  Follows(s, f, v)
BY DEF Follows, Excused

(* A step that speaks. *)
LEMMA SpeechFollows ==
  ASSUME TypeInv, PathOK(path, clock), PathOK(path', clock'), Follows(ctx, ContextOf(path), lapsed),
         Overlooks => lapsed, lapsed => lapsed', NEW s, NEW kinds, Said(s, kinds)
  PROVE  Follows(ctx', ContextOf(path'), lapsed')
<1> DEFINE new == New(kinds)
           f == ContextOf(path)
           g == ContextOf(path')
<1>1. /\ ctx \in Seq(Messages) /\ path \in Seq(Messages) /\ clock \in Nat /\ Rising(path)
      /\ Rising(path') /\ \A i \in 1..Len(path) : path[i].at <= clock
  BY DEF TypeInv, LogOK, PathOK
<1>2. s \in Seq(Messages) /\ Shed(s, ctx, Overlooks) /\ kinds \in Seq(NewKinds)
  BY DEF Said, Dropped, Shed, Begins
<1>3. kinds \in Seq(Kinds) /\ \A i \in 1..Len(kinds) : kinds[i] \notin Compaction
  BY <1>2, NewKindFacts
<1>4. /\ new \in Seq(Messages) /\ Len(new) = Len(kinds)
      /\ \A i \in 1..Len(kinds) : new[i].kind = kinds[i] /\ new[i].at = clock + i
  BY <1>1, <1>3, NewMessages
<1>5. ctx' = s \o new /\ path' = path \o new
  BY DEF Said, Record
<1> HIDE DEF new
<1>6. Joins(s, new, ctx')
  <2>1. new \in Seq(Messages)
    BY <1>4
  <2>2. /\ s \o new \in Seq(Messages) /\ Len(s \o new) = Len(s) + Len(new)
        /\ \A i \in 1..Len(s) : (s \o new)[i] = s[i]
        /\ \A i \in 1..Len(new) : (s \o new)[Len(s) + i] = new[i]
    BY <1>2, <2>1
  <2> QED BY <1>5, <2>2, Zenon DEF Joins
<1>7. f \in Seq(Messages) /\ \A k \in 1..Len(f) : In(f[k], path)
  BY <1>1, ContextType, ContextPicks
<1>8. Joins(f, new, g)
  BY <1>1, <1>3, <1>4, <1>5, ContextGrows
<1>9. Follows(ctx, f, lapsed)
  OBVIOUS
<1> HIDE DEF f, g
<1>10. Follows(s, f, lapsed)
  <2>1. Shed(s, ctx, lapsed)
    BY <1>2 DEF Shed
  <2> QED BY <1>1, <1>7, <1>9, <2>1, ShedFollows
<1>11. Distinct(new)
  <2> SUFFICES ASSUME NEW k \in 1..Len(new), NEW l \in 1..Len(new), new[k] = new[l] PROVE k = l
    BY DEF Distinct
  <2>1. new[k].at = clock + k /\ new[l].at = clock + l
    BY <1>4
  <2>2. k \in Int /\ l \in Int
    BY <1>4
  <2> QED BY <1>1, <2>1, <2>2
<1>12. ASSUME NEW i \in 1..Len(new), NEW k \in 1..Len(f), new[i] = f[k] PROVE FALSE
  <2>1. PICK j \in 1..Len(path) : path[j] = f[k]
    BY <1>7 DEF In
  <2>2. path[j].at = clock + i /\ path[j].at <= clock
    BY <1>1, <1>4, <1>12, <2>1
  <2> QED BY <1>1, <2>2
<1>13. Follows(ctx', g, lapsed)
  BY <1>2, <1>4, <1>6, <1>7, <1>8, <1>10, <1>11, <1>12, GrowthFollows
<1> QED BY <1>13, FollowsMore DEF g

(* A step that rebuilds the context from the session file. *)
LEMMA RebuiltFollows ==
  ASSUME NEW p, NEW n, PathOK(p, n), NEW u
  PROVE  Follows(ContextOf(p), ContextOf(p), u)
<1>1. p \in Seq(Messages) /\ Rising(p)
  BY DEF PathOK
<1>2. ContextOf(p) \in Seq(Messages) /\ Distinct(ContextOf(p))
  BY <1>1, ContextType, ContextPicks
<1> QED BY <1>2, SelfFollows

Speaks == \E s, kinds : Said(s, kinds)

LEMMA EveryStep ==
  ASSUME TypeInv, [Next]_vars
  PROVE  Speaks \/ ctx' = ContextOf(path')
<1>0. Calm => Speaks
  BY DEF Calm, Speaks
<1>1. CASE UNCHANGED vars
  BY <1>0, <1>1, Unspoken DEF vars, runVars
<1>2. CASE Environment
  BY <1>0, <1>2, PromptSaid, RunSaid, AsideSaid, HostSaid DEF Environment
<1>3. CASE HostStep
  <2>1. CASE ManualDone
    BY <1>0, <2>1, Unspoken DEF ManualDone, AppendCompaction, runVars
  <2>2. CASE NavigateDone
    BY <1>0, <2>2, Unspoken DEF NavigateDone, runVars
  <2> QED BY <1>0, <1>3, <2>1, <2>2, HostSaid DEF HostStep
<1>4. ASSUME NEW c \in Callers, CallStep(c) PROVE Speaks \/ ctx' = ContextOf(path')
  <2>1. CASE CompactAuth(c) \/ CompactSummary(c) \/ CompactDone(c)
    BY <1>0, <2>1, AutoSaid DEF AppendCompaction
  <2>2. CASE ToolsEnd(c) \/ \E k \in AnswerKinds : StreamEnds(c, k)
    BY <1>0, <2>2, ToolsSaid, StreamSaid DEF Speaks
  <2> QED BY <1>0, <1>4, <2>1, <2>2, PromptSaid, RunSaid, PostSaid, HostSaid DEF CallStep
<1> QED BY <1>1, <1>2, <1>3, <1>4 DEF Next

-----------------------------------------------------------------------------
(* A call that looks back at a run finds a context whose last answer no
   message of the user follows. *)
PostInv == \A c \in Callers : call[c].at = "post" => Answered(ctx)

(* While the run that asked for a compaction before its next step lasts, it is
   aborted and fails with no error to retry. *)
MidInv == midTurn /\ ~lapsed => /\ phase # "none" => aborted
                                /\ last.kind # "error"
                                /\ \A c \in Callers : call[c].at # "sleep"

Carries == (lapsed => lapsed') /\ (UNCHANGED <<phase, aborted>> \/ (midTurn => lapsed'))

LEMMA DecideCarries ==
  ASSUME NEW c, NEW s, NEW goOn, Decide(c, s, goOn)
  PROVE  Carries
<1>1. Settle(c, s) \/ \E kinds : StartAgent(c, s, kinds)
  BY DEF Decide, Continue
<1>2. CASE Settle(c, s)
  BY <1>2 DEF Settle, Carries
<1>3. CASE \E kinds : StartAgent(c, s, kinds)
  BY <1>3 DEF StartAgent, Carries
<1> QED BY <1>1, <1>2, <1>3

LEMMA RunCarries ==
  ASSUME NEW c, NEW kinds, Run(c, kinds)
  PROVE  Carries
<1>1. Settle(c, ctx) \/ \E k : StartAgent(c, ctx, k)
  BY DEF Run
<1>2. CASE Settle(c, ctx)
  BY <1>2 DEF Settle, Carries
<1>3. CASE \E k : StartAgent(c, ctx, k)
  BY <1>3 DEF StartAgent, Carries
<1> QED BY <1>1, <1>2, <1>3

LEMMA AfterRetryCarries ==
  ASSUME NEW c, NEW m, AfterRetry(c, m)
  PROVE  Carries /\ midTurn' = FALSE
<1>1. CASE Decide(c, ctx, HasQueued)
  BY <1>1, DecideCarries DEF AfterRetry
<1>2. CASE \E s, then, retry : StartCompaction(c, s, then, retry)
  BY <1>2 DEF AfterRetry, StartCompaction, Carries
<1> QED BY <1>1, <1>2 DEF AfterRetry, CheckedCompaction

LEMMA ReturnsCarries ==
  ASSUME NEW c, NEW s, NEW yes, Returns(c, s, yes)
  PROVE  Carries
<1>1. CASE UNCHANGED <<phase, aborted, lapsed>>
  BY <1>1 DEF Carries
<1> QED BY <1>1, DecideCarries DEF Returns

(* What a call does on its own, and calls that begin. *)
Ownly(c) == OwnStep(c) \/ PromptCall(c) \/ TriggerTurn(c)

LEMMA OwnlyCarries ==
  ASSUME NEW c \in Callers, Ownly(c)
  PROVE  /\ Carries /\ (midTurn' => midTurn) /\ last' \in {last, Nothing}
         /\ call[c].at # "running"
         /\ PostRun(c) => ~midTurn' \/ MayRetry(last) \/ Ends(c) \/ Starts(c)
<1>1. CASE PromptInput(c) \/ PromptCall(c) \/ Settled(c)
  <2>1. call[c].at \in {"input", "idle", "settle"} /\ UNCHANGED <<midTurn, last, phase, aborted, lapsed>>
    BY <1>1 DEF PromptInput, PromptCall, Settled, runVars
  <2> QED BY <2>1 DEF Carries, PostRun
<1>2. CASE PromptAuth(c)
  <2>1. UNCHANGED <<midTurn, last, phase, aborted, lapsed>>
    BY <1>2 DEF PromptAuth, runVars, CheckedCompaction, StartCompaction
  <2> QED BY <1>2, <2>1 DEF Carries, PromptAuth, PostRun
<1>3. CASE StartRun(c) \/ TriggerTurn(c)
  <2>1. UNCHANGED <<midTurn, last>> /\ (\E kinds : Run(c, kinds)) /\ call[c].at \in {"before", "idle"}
    BY <1>3 DEF StartRun, TriggerTurn
  <2> QED BY <2>1, RunCarries DEF PostRun
<1>4. CASE PostRun(c)
  <2>1. call[c].at = "post" /\ last' = Nothing
    BY <1>4 DEF PostRun
  <2>2. CASE \E s, goOn : Decide(c, s, goOn) /\ goOn \in BOOLEAN /\ UNCHANGED midTurn
    BY <2>1, <2>2, DecideCarries, DecideKinds
  <2>3. CASE \E m : AfterRetry(c, m)
    BY <2>1, <2>3, AfterRetryCarries
  <2>4. CASE MayRetry(last) /\ UNCHANGED <<phase, aborted, lapsed, midTurn>>
    BY <2>1, <2>4 DEF Carries
  <2> QED BY <1>4, <2>2, <2>3, <2>4 DEF PostRun
<1>5. CASE RetrySleep(c)
  <2>1. call[c].at = "sleep" /\ last' = last
    BY <1>5 DEF RetrySleep
  <2>2. CASE \E s, goOn : Decide(c, s, goOn) /\ UNCHANGED midTurn
    BY <2>1, <2>2, DecideCarries DEF PostRun
  <2>3. CASE \E m : AfterRetry(c, m)
    BY <2>1, <2>3, AfterRetryCarries DEF PostRun
  <2> QED BY <1>5, <2>2, <2>3 DEF RetrySleep
<1>6. CASE CompactAuth(c) \/ CompactSummary(c) \/ CompactDone(c)
  <2>1. call[c].at \in Compacting /\ UNCHANGED <<midTurn, last>>
    BY <1>6 DEF CompactAuth, CompactSummary, CompactDone, Compacting
  <2>2. call[c].at \notin {"running", "post"}
    BY <2>1 DEF Compacting
  <2>3. CASE UNCHANGED <<phase, aborted, lapsed>>
    BY <2>1, <2>2, <2>3 DEF Carries, PostRun
  <2>4. CASE \E s, yes : Returns(c, s, yes)
    BY <2>1, <2>2, <2>4, ReturnsCarries DEF PostRun
  <2> QED BY <1>6, <2>3, <2>4 DEF CompactAuth, CompactSummary, CompactDone
<1> QED BY <1>1, <1>2, <1>3, <1>4, <1>5, <1>6 DEF Ownly, OwnStep

(* Where it leaves the call. *)
LEMMA OwnlyBecomes ==
  ASSUME TypeInv, IInv, NEW c \in Callers, Ownly(c)
  PROVE  Becomes(c)
<1>1. CASE OwnStep(c)
  BY <1>1, Outcomes DEF OwnStep, CallStep
<1>2. CASE PromptCall(c)
  <2>1. "input" \notin {"summary", "compactAuth", "post", "sleep"}
    OBVIOUS
  <2> QED BY <1>2, <2>1, Placed DEF PromptCall
<1>3. CASE TriggerTurn(c)
  <2>1. Settle(c, ctx) \/ \E kinds : StartAgent(c, ctx, kinds)
    BY <1>3 DEF TriggerTurn, Run
  <2> QED BY <2>1, SettleEnds, StartAgentStarts, StaysOut
<1> QED BY <1>1, <1>2, <1>3 DEF Ownly

(* While a call is in the loop, the others add nothing to the conversation. *)
LEMMA LoopUndisturbed ==
  ASSUME IInv, NEW c \in Callers, NEW d \in Callers, c # d, LoopRec(call[d]), Ownly(c)
  PROVE  UNCHANGED logVars
<1>1. active /\ ~LoopRec(call[c])
  BY DEF IInv, OneLoop
<1>2. ~ClearedRec(call[c])
  BY <1>1 DEF IInv, OnePreflight
<1>3. PromptInput(c) \/ Settled(c) \/ PromptCall(c)
  BY <1>1, <1>2 DEF Ownly, OwnStep, PromptAuth, StartRun, PostRun, RetrySleep, CompactAuth, CompactSummary,
                    CompactDone, TriggerTurn, ClearedRec, LoopRec, Compacting
<1> QED BY <1>1, <1>3 DEF PromptInput, Settled, PromptCall

LEMMA OwnlyKeeps ==
  ASSUME TypeInv, IInv, PostInv, MidInv, NEW c \in Callers, Ownly(c)
  PROVE  PostInv' /\ MidInv'
<1>1. PICK r : Moves(c, r) /\ Outcome(c, r)
  BY OwnlyBecomes DEF Becomes
<1>2. call'[c] = r /\ \A d \in Callers : d # c => call'[d] = call[d]
  BY <1>1, MoveFacts
<1>3. /\ Carries /\ (midTurn' => midTurn) /\ last' \in {last, Nothing}
      /\ call[c].at # "running"
      /\ PostRun(c) => ~midTurn' \/ MayRetry(last) \/ Ends(c) \/ Starts(c)
  BY OwnlyCarries
<1>4. r.at # "post" /\ (r.at = "sleep" => call[c].at = "post")
  BY <1>1, <1>3 DEF Outcome
<1>5. PostInv'
  <2> SUFFICES ASSUME NEW d \in Callers, call'[d].at = "post" PROVE Answered(ctx')
    BY DEF PostInv
  <2>1. d # c /\ call[d].at = "post"
    BY <1>2, <1>4
  <2>2. UNCHANGED logVars
    BY <2>1, LoopUndisturbed DEF LoopRec
  <2> QED BY <2>1, <2>2 DEF PostInv, logVars
<1>6. MidInv'
  <2> SUFFICES ASSUME midTurn', ~lapsed'
               PROVE  /\ phase' # "none" => aborted'
                      /\ last'.kind # "error"
                      /\ \A d \in Callers : call'[d].at # "sleep"
    BY DEF MidInv
  <2>1. midTurn /\ ~lapsed /\ UNCHANGED <<phase, aborted>>
    BY <1>3 DEF Carries
  <2>2. /\ phase # "none" => aborted
        /\ last.kind # "error"
        /\ \A d \in Callers : call[d].at # "sleep"
    BY <2>1 DEF MidInv
  <2>3. last'.kind # "error"
    BY <1>3, <2>2 DEF Nothing
  <2>4. r.at # "sleep"
    <3> SUFFICES ASSUME r.at = "sleep" PROVE FALSE
      OBVIOUS
    <3>1. call[c].at = "post"
      BY <1>4
    <3>2. PostRun(c)
      BY <3>1 DEF Ownly, OwnStep, PromptInput, PromptAuth, StartRun, RetrySleep, CompactAuth, CompactSummary,
                  CompactDone, Settled, PromptCall, TriggerTurn
    <3>3. Ends(c) \/ Starts(c)
      BY <1>3, <2>2, <3>2 DEF MayRetry
    <3>4. PICK a \in {"settle", "running"} : Moves(c, [Idle EXCEPT !.at = a])
      BY <3>3 DEF Ends, Starts
    <3> DEFINE x == [Idle EXCEPT !.at = a]
    <3>5. x.at = a
      BY Records
    <3>6. Moves(c, x)
      BY <3>4
    <3> HIDE DEF x
    <3>7. call'[c] = x
      BY <3>6, MoveFacts
    <3> QED BY <1>2, <3>5, <3>7
  <2>5. \A d \in Callers : call'[d].at # "sleep"
    BY <1>2, <2>2, <2>4
  <2> QED BY <2>1, <2>2, <2>3, <2>5
<1> QED BY <1>5, <1>6

(* A turn ends, with no message of the user behind it. *)
LEMMA TurnAnswered ==
  ASSUME TypeInv, NEW c, NEW k \in AnswerKinds \cup {"tool"}, NEW on, EndTurn(c, <<k>>, <<>>, on),
         k = "tool" => Asks(ctx)
  PROVE  Answered(ctx')
<1> DEFINE asides == Repeat("custom", customs)
           kinds == <<k>> \o asides \o <<>>
<1>1. asides \in Seq(NewKinds) /\ Len(asides) = customs /\ (\A i \in 1..customs : asides[i] = "custom") /\ customs \in Nat
  <2>1. "custom" \in NewKinds /\ customs \in Nat
    BY KindFacts DEF Plain, TypeInv, SideOK
  <2> QED BY <2>1, Repeats
<1> HIDE DEF asides
<1>2. k \in NewKinds /\ k # "user"
  BY KindFacts DEF AnswerKinds, Failed, ToolCalls
<1>3. /\ kinds \in Seq(NewKinds) /\ Len(kinds) = 1 + Len(asides) /\ kinds[1] = k
      /\ \A i \in 1..Len(asides) : kinds[1 + i] = asides[i]
  BY <1>1, <1>2
<1>4. Record(ctx, kinds)
  BY DEF EndTurn, asides
<1> HIDE DEF kinds
<1>5. /\ kinds \in Seq(Kinds) /\ ctx \in Seq(Messages) /\ clock \in Nat /\ Len(ctx) \in Nat
  BY <1>3, NewKindFacts DEF TypeInv, LogOK
<1>6. Grown(ctx, ctx', clock, kinds)
  BY <1>4, <1>5, Growing DEF Record
<1>7. Len(ctx') = Len(ctx) + 1 + customs
  BY <1>1, <1>3, <1>5, <1>6 DEF Grown
<1>8. ctx'[Len(ctx) + 1].kind = k
  <2>1. 1 \in 1..Len(kinds)
    BY <1>1, <1>3
  <2> QED BY <1>3, <1>6, <2>1 DEF Grown
<1>9. ASSUME NEW i \in (Len(ctx) + 1)..Len(ctx') PROVE ctx'[i].kind # "user"
  <2>1. CASE i = Len(ctx) + 1
    BY <1>2, <1>8, <2>1
  <2>2. CASE i # Len(ctx) + 1
    <3> DEFINE j == i - Len(ctx) - 1
    <3>1. j \in 1..customs /\ 1 + j \in 1..Len(kinds) /\ Len(ctx) + (1 + j) = i
      BY <1>1, <1>3, <1>5, <1>7, <2>2
    <3> HIDE DEF j
    <3>2. ctx'[Len(ctx) + (1 + j)].kind = kinds[1 + j]
      BY <1>6, <3>1 DEF Grown
    <3>3. kinds[1 + j] = "custom"
      BY <1>1, <1>3, <3>1
    <3> QED BY <3>1, <3>2, <3>3
  <2> QED BY <2>1, <2>2
<1>10. CASE k # "tool"
  <2>1. IsAnswer(ctx'[Len(ctx) + 1])
    BY <1>8, <1>10 DEF IsAnswer
  <2>2. Len(ctx) + 1 \in 1..Len(ctx')
    BY <1>1, <1>5, <1>7
  <2> QED BY <1>9, <2>1, <2>2 DEF Answered
<1>11. CASE k = "tool"
  <2> DEFINE n == Len(ctx)
  <2>1. ctx # <<>> /\ ctx[n].kind \in ToolCalls
    BY <1>11 DEF Asks
  <2>2. n \in 1..Len(ctx) /\ n \in 1..Len(ctx')
    BY <1>1, <1>5, <1>7, <2>1
  <2>3. ctx'[n] = ctx[n]
    BY <1>6, <2>2 DEF Grown
  <2>4. IsAnswer(ctx'[n]) /\ ctx'[n].kind # "user"
    BY <2>1, <2>3, KindFacts DEF IsAnswer, ToolCalls
  <2>5. \A i \in n..Len(ctx') : ctx'[i].kind # "user"
    <3> SUFFICES ASSUME NEW i \in n..Len(ctx') PROVE ctx'[i].kind # "user"
      OBVIOUS
    <3>1. i = n \/ i \in (n + 1)..Len(ctx')
      BY <1>1, <1>5, <1>7
    <3> QED BY <1>9, <2>4, <3>1
  <2> HIDE DEF n
  <2> QED BY <2>2, <2>4, <2>5 DEF Answered
<1> QED BY <1>10, <1>11

(* The end of a run: what was queued kept it going. *)
LEMMA RunAnswered ==
  ASSUME TypeInv, ToolsInv, NEW c \in Callers, CallShape,
         (\E k \in AnswerKinds : StreamEnds(c, k)) \/ ToolsEnd(c), call'[c].at = "post"
  PROVE  Answered(ctx')
<1>1. call[c].at = "running"
  BY DEF StreamEnds, ToolsEnd
<1>2. call' # call
  BY <1>1
<1>3. ASSUME NEW k \in AnswerKinds \cup {"tool"}, WouldStop(c, <<k>>), k = "tool" => Asks(ctx)
      PROVE  Answered(ctx')
  <2>1. ~HasQueued
    BY <1>2, <1>3 DEF WouldStop, EndTurn
  <2>2. steering = <<>> /\ followUp = <<>>
    BY <2>1 DEF HasQueued
  <2>3. EndTurn(c, <<k>>, <<>>, HasQueued)
    BY <1>3, <2>2 DEF WouldStop, Poll
  <2> QED BY <1>3, <2>3, TurnAnswered
<1>4. ASSUME NEW k \in AnswerKinds, StreamEnds(c, k) PROVE Answered(ctx')
  <2>1. k # "tool"
    BY KindFacts
  <2>2. CASE EndTurn(c, <<k>>, <<>>, FALSE)
    BY <2>1, <2>2, TurnAnswered
  <2>3. CASE WouldStop(c, <<k>>)
    BY <1>3, <2>1, <2>3
  <2> QED BY <1>2, <1>4, <2>2, <2>3 DEF StreamEnds
<1>5. CASE ToolsEnd(c)
  <2>1. Asks(ctx)
    BY <1>5 DEF ToolsEnd, ToolsInv
  <2>2. CASE \E queued : EndTurn(c, <<"tool">>, queued, TRUE)
    BY <1>2, <2>2 DEF EndTurn
  <2>3. CASE WouldStop(c, <<"tool">>)
    BY <1>3, <2>1, <2>3
  <2> QED BY <1>5, <2>2, <2>3 DEF ToolsEnd
<1> QED BY <1>4, <1>5

LEMMA TurnFollows ==
  ASSUME TypeInv, IInv, ToolsInv, PostInv, MidInv, NEW c \in Callers,
         (\E k \in AnswerKinds : StreamEnds(c, k)) \/ ToolsEnd(c)
  PROVE  PostInv' /\ MidInv' /\ lapsed' = lapsed
<1>1. call[c].at = "running" /\ LoopRec(call[c]) /\ phase # "none" /\ lapsed' = lapsed
  BY DEF StreamEnds, ToolsEnd, LoopRec
<1>2. call' = call \/ call' = [call EXCEPT ![c].at = "post"]
  BY DEF StreamEnds, ToolsEnd, WouldStop, EndTurn
<1>3. \A d \in Callers : d # c => call'[d] = call[d] /\ ~LoopRec(call[d])
  <2>1. \A d \in Callers : d # c => ~LoopRec(call[d])
    BY <1>1 DEF IInv, OneLoop
  <2>2. \A d \in Callers : d # c => call'[d] = call[d]
    BY <1>2 DEF IInv, CallShape
  <2> QED BY <2>1, <2>2
<1>4. call'[c].at \in {"running", "post"}
  <2>1. IsCall(call[c]) /\ call = [d \in Callers |-> call[d]]
    BY DEF IInv, CallShape
  <2>2. CASE call' = call
    BY <1>1, <2>2
  <2>3. CASE call' = [call EXCEPT ![c].at = "post"]
    <3>1. call'[c] = [call[c] EXCEPT !.at = "post"]
      BY <2>1, <2>3
    <3> QED BY <2>1, <3>1, Records
  <2> QED BY <1>2, <2>2, <2>3
<1>5. PostInv'
  <2> SUFFICES ASSUME NEW d \in Callers, call'[d].at = "post" PROVE Answered(ctx')
    BY DEF PostInv
  <2>1. d = c
    BY <1>3 DEF LoopRec
  <2> QED BY <2>1, RunAnswered DEF IInv
<1>6. \A d \in Callers : call'[d].at # "sleep"
  BY <1>3, <1>4 DEF LoopRec
<1>7. MidInv'
  <2> SUFFICES ASSUME midTurn', ~lapsed'
               PROVE  (phase' # "none" => aborted') /\ last'.kind # "error"
    BY <1>6 DEF MidInv
  <2>1. CASE ToolsEnd(c)
    <3>1. UNCHANGED <<midTurn, aborted, last>>
      BY <2>1 DEF ToolsEnd
    <3>2. aborted /\ last.kind # "error"
      BY <1>1, <3>1 DEF MidInv
    <3> QED BY <3>1, <3>2
  <2>2. ASSUME NEW k \in AnswerKinds, StreamEnds(c, k) PROVE (phase' # "none" => aborted') /\ last'.kind # "error"
    <3>1. k \in Possible /\ OnAnswer(k)
      BY <2>2 DEF StreamEnds
    <3>2. last'.kind = k
      BY <3>1 DEF OnAnswer
    <3>3. CASE midTurn
      <4>1. aborted
        BY <1>1, <3>3 DEF MidInv
      <4>2. k # "error"
        BY <3>1, <4>1 DEF Possible
      <4>3. aborted'
        BY <3>1, <4>1 DEF OnAnswer
      <4> QED BY <3>2, <4>2, <4>3
    <3>4. CASE ~midTurn
      <4>1. k = "toolFull" /\ aborted'
        BY <3>1, <3>4 DEF OnAnswer
      <4> QED BY <3>2, <4>1
    <3> QED BY <3>3, <3>4
  <2> QED BY <2>1, <2>2
<1> QED BY <1>1, <1>5, <1>7

(* Steps beside the calls. *)
LEMMA BesideFollows ==
  ASSUME TypeInv, IInv, HostInv, PostInv, MidInv,
         \/ SendCustom \/ RecordBash \/ Abort \/ AbortCompaction \/ AbortResponse \/ Compact \/ Navigate
         \/ HostStep \/ UNCHANGED vars
  PROVE  PostInv' /\ MidInv' /\ lapsed' = lapsed
<1>1. UNCHANGED <<lapsed, midTurn, phase, last>> /\ (aborted => aborted')
  <2>1. CASE Abort \/ AbortCompaction \/ AbortResponse \/ Compact \/ Navigate
    <3>1. UNCHANGED <<lapsed, midTurn, phase, last>>
      BY <2>1 DEF Abort, AbortCompaction, AbortResponse, Compact, Navigate, Command, runVars
    <3>2. aborted' = aborted \/ aborted' = (aborted \/ phase # "none")
      BY <2>1 DEF Abort, AbortCompaction, AbortResponse, Compact, Navigate, Interrupt, runVars
    <3>3. aborted => aborted'
      BY <3>2, Zenon
    <3> QED BY <3>1, <3>3
  <2>2. CASE UNCHANGED runVars
    BY <2>2 DEF runVars
  <2> QED BY <2>1, <2>2 DEF SendCustom, RecordBash, HostStep, ManualBegins, ManualPrepared, ManualDone,
             NavigateDone, vars
<1>2. \A c \in Callers : call'[c].at = call[c].at
  <2>1. CASE Abort \/ AbortCompaction \/ Compact
    BY <2>1, CancelledCalls
  <2>2. CASE UNCHANGED call
    BY <2>2
  <2> QED BY <2>1, <2>2 DEF SendCustom, RecordBash, AbortResponse, Navigate,
             HostStep, ManualBegins, ManualPrepared, ManualDone, NavigateDone, vars
<1>3. active => UNCHANGED logVars
  BY DEF SendCustom, RecordBash, Abort, AbortCompaction, AbortResponse, Compact, Navigate, Command,
         HostStep, ManualBegins, ManualPrepared, ManualDone, NavigateDone, vars, HostInv
<1>4. PostInv'
  <2> SUFFICES ASSUME NEW c \in Callers, call'[c].at = "post" PROVE Answered(ctx')
    BY DEF PostInv
  <2>1. call[c].at = "post" /\ active
    BY <1>2 DEF IInv, OneLoop, LoopRec
  <2> QED BY <1>3, <2>1 DEF PostInv, logVars
<1>5. MidInv'
  BY <1>1, <1>2 DEF MidInv
<1> QED BY <1>1, <1>4, <1>5

FollowInv == Follows(ctx, ContextOf(path), lapsed)
ContextInv == SessionInv /\ FollowInv /\ PostInv /\ MidInv

LEMMA NextContextInv == ContextInv /\ ~raced' /\ [Next]_vars => ContextInv'
<1> SUFFICES ASSUME ContextInv, ~raced', [Next]_vars PROVE ContextInv'
  OBVIOUS
<1>0. SessionInv /\ TypeInv /\ IInv /\ HostInv /\ ToolsInv /\ PathOK(path, clock) /\ FollowInv /\ PostInv /\ MidInv
  BY DEF ContextInv, SessionInv, LogInv, BranchInv
<1>1. SessionInv' /\ PathOK(path', clock')
  <2>1. SessionInv'
    BY <1>0, NextSessionInv
  <2> QED BY <2>1 DEF SessionInv, LogInv, BranchInv
<1>2. PostInv' /\ MidInv' /\ (lapsed => lapsed')
  <2>1. ASSUME NEW c \in Callers, Ownly(c) PROVE PostInv' /\ MidInv' /\ (lapsed => lapsed')
    BY <1>0, <2>1, OwnlyKeeps, OwnlyCarries DEF Carries
  <2>2. ASSUME NEW c \in Callers, CallStep(c) PROVE PostInv' /\ MidInv' /\ (lapsed => lapsed')
    BY <1>0, <2>1, <2>2, TurnFollows DEF CallStep, Ownly, OwnStep
  <2>3. ASSUME NEW c \in Callers, PromptCall(c) \/ TriggerTurn(c) PROVE PostInv' /\ MidInv' /\ (lapsed => lapsed')
    BY <2>1, <2>3 DEF Ownly
  <2> QED BY <1>0, <2>2, <2>3, BesideFollows DEF Next, Environment
<1>3. Overlooks => lapsed
  BY <1>0 DEF Overlooks, PostInv, MidInv
<1>4. FollowInv'
  <2>1. CASE Speaks
    BY <1>0, <1>1, <1>2, <1>3, <2>1, SpeechFollows DEF Speaks, FollowInv
  <2>2. CASE ctx' = ContextOf(path')
    <3>1. Follows(ContextOf(path'), ContextOf(path'), lapsed')
      BY <1>1, RebuiltFollows
    <3> QED BY <2>2, <3>1 DEF FollowInv
  <2> QED BY <1>0, <2>1, <2>2, EveryStep
<1> QED BY <1>1, <1>2, <1>4 DEF ContextInv

LEMMA InitContextInv == Init => ContextInv
<1> SUFFICES ASSUME Init PROVE ContextInv
  OBVIOUS
<1>1. SessionInv
  BY InitTypeInv, InitIInv, InitLogInv DEF SessionInv
<1>2. ctx = <<>> /\ path = <<>> /\ ~midTurn /\ \A c \in Callers : call[c] = Idle
  BY DEF Init
<1>3. PostInv /\ MidInv
  BY <1>2 DEF PostInv, MidInv, Idle
<1>4. Compactions(path) = {}
  BY <1>2 DEF Compactions
<1>5. ContextOf(path) = ctx
  BY <1>2, <1>4 DEF ContextOf
<1>6. PathOK(path, clock)
  BY <1>1 DEF SessionInv, LogInv, BranchInv
<1>7. FollowInv
  BY <1>5, <1>6, RebuiltFollows DEF FollowInv
<1> QED BY <1>1, <1>3, <1>7 DEF ContextInv

LEMMA ContextIsSessions == ContextInv => ContextFromSession
<1> SUFFICES ASSUME ContextInv PROVE ContextFromSession
  OBVIOUS
<1> DEFINE full == ContextOf(path)
           missing == {i \in DOMAIN full : full[i] \notin Range(ctx)}
<1>1. ctx \in Seq(Messages) /\ path \in Seq(Messages)
  BY DEF ContextInv, SessionInv, TypeInv, LogOK
<1>2. full \in Seq(Messages)
  BY <1>1, ContextType
<1>3. Taken(ctx, full) /\ Ordered(ctx, full) /\ Excused(ctx, full, lapsed)
  BY DEF ContextInv, FollowInv, Follows
<1>4. ContextFromSession <=>
        (~raced =>
          /\ Range(ctx) \subseteq Range(full)
          /\ \A i \in DOMAIN ctx, k \in DOMAIN full :
               ctx[i] = full[k] => \A j \in (i + 1)..Len(ctx), l \in 1..k : ctx[j] # full[l]
          /\ \A i \in missing : IsAnswer(full[i]) \/ (i - 1 \in missing /\ (full[i].kind = "user" => lapsed)))
  BY DEF ContextFromSession
<1> HIDE DEF full
<1>5. DOMAIN ctx = 1..Len(ctx) /\ DOMAIN full = 1..Len(full) /\ Len(full) \in Nat
  BY <1>1, <1>2
<1>6. /\ \A m : m \in Range(ctx) <=> In(m, ctx)
      /\ \A m : m \in Range(full) <=> In(m, full)
  BY <1>5 DEF Range, In
<1>7. Range(ctx) \subseteq Range(full)
  BY <1>3, <1>5, <1>6 DEF Taken, Range
<1>8. \A i \in DOMAIN ctx, k \in DOMAIN full :
        ctx[i] = full[k] => \A j \in (i + 1)..Len(ctx), l \in 1..k : ctx[j] # full[l]
  BY <1>3, <1>5 DEF Ordered
<1>9. ASSUME NEW i \in missing PROVE IsAnswer(full[i]) \/ (i - 1 \in missing /\ (full[i].kind = "user" => lapsed))
  <2>1. i \in 1..Len(full) /\ ~In(full[i], ctx)
    BY <1>5, <1>6
  <2>2. \/ IsAnswer(full[i])
        \/ i > 1 /\ ~In(full[i - 1], ctx) /\ (full[i].kind = "user" => lapsed)
    BY <1>3, <2>1 DEF Excused
  <2>3. i > 1 => i - 1 \in 1..Len(full)
    BY <1>5, <2>1
  <2>4. i > 1 /\ ~In(full[i - 1], ctx) => i - 1 \in missing
    BY <1>5, <1>6, <2>3
  <2> HIDE DEF missing
  <2> QED BY <2>2, <2>4
<1> QED BY <1>4, <1>7, <1>8, <1>9

(* The context the model sees is the one the session file gives, in its
   order, without some answers and what came behind them: no run, retry,
   compaction, abort or navigation loses another message of the session, and
   no message of the user is lost unless a run began while the compaction
   before the next step of an earlier run was still asked for
   (agent-session.ts, _handlePostAgentRun and _runAutoCompaction). *)
THEOREM ContextIsFaithful == Spec => []ContextFromSession
<1>1. Init => (~raced => ContextInv)
  BY InitContextInv
<1>2. (~raced => ContextInv) /\ [Next]_vars => (~raced => ContextInv)'
  BY NextContextInv, RacedStays
<1>3. (~raced => ContextInv) => ContextFromSession
  BY ContextIsSessions DEF ContextFromSession
<1> QED BY <1>1, <1>2, <1>3, PTL DEF Spec
==============================================================================
