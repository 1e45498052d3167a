CONSTANTS
  NUM_DESC = 3
  I2S_BUF_SIZE = 4
  EAGAIN = 3
  Requests <- MCRequestsEagain
  MaxChunks = 5
  DrainSteps = 1
  InitOutcomes = {"ok", "no_buf"}

SPECIFICATION FairSpec
INVARIANT IndInv
INVARIANT StandsOnlyWhenEmpty
PROPERTY WriteReturns
PROPERTY ImplementsQueue
PROPERTY HeardInTheEnd
