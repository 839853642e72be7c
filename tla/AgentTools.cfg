\* Three turns with up to two tool calls, one exception; what happens to tool
\* calls does not depend on the queues, which AgentQueues.cfg fills.
CONSTANTS
  UserMsgs = {u1}
  MaxCalls = 2
  MaxTurns = 3
  MaxFailures = 1
SPECIFICATION FairSpec
CHECK_DEADLOCK FALSE
INVARIANTS
  TypeOK
  ContextIsTranscript
  ResultsInSourceOrder
  CallsAnswered
  PendingCallsExact
  AbortEndsRun
PROPERTY
  RunSettles
