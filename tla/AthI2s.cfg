CONSTANTS
  NUM_DESC = 3
  Requests <- MCRequests
  MaxChunks = 4
  InitOutcomes = {"ok", "no_desc", "no_buf"}

SPECIFICATION FairSpec
INVARIANT IndInv
INVARIANT NoVainWait
PROPERTY PauseHolds
PROPERTY FreedOnlyWhenIdle
PROPERTY WriteReturns
PROPERTY CloseReturns
PROPERTY ImplementsQueue
