CONSTANTS
  NUM_DESC = 3
  Requests = {1, 2, 4}
  MaxChunks = 6
  InitOutcomes = {"ok", "no_desc", "no_buf"}

SPECIFICATION FairSpec
INVARIANT IndInv
INVARIANT NoVainWait
PROPERTY ReadReturns
PROPERTY CloseReturns
PROPERTY ImplementsQueue
