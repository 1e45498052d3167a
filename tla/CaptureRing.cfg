CONSTANTS
  NUM_DESC = 3
  Requests <- MCRequests
  MaxChunks = 7
  DrainSteps = 1
  InitOutcomes = {"ok", "no_buf"}

SPECIFICATION FairSpec
INVARIANT IndInv
INVARIANT StandsOnlyWhenFull
PROPERTY RecordingGoesOn
PROPERTY ImplementsQueue
