\* Clients that send slowly, in part, too much or nothing, give up or vanish.
SPECIFICATION FairSpec
CONSTANTS
  None = None
  Connections = 2
  Requests <- MCRequests
  MaxHeader = 3
  MaxBody = 2
  Chunk = 2
  Backlog = 2
INVARIANTS
  AnswerIsDeserved
  AcknowledgedIsSubmitted
  BufferIsBounded
PROPERTIES
  ConnectedIsServed
  StopEndsTheLoop
  IsListener
