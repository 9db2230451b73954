SPECIFICATION FairSpec
CONSTANTS
  None = None
  MaxCalls = 2
  HandlerCount = 2
INVARIANTS WaitingInv AnswerIsTrue FrameAlive
PROPERTY Returns
