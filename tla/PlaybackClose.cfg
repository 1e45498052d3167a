CONSTANTS
  NUM_DESC = 3
  I2S_BUF_SIZE = 4
  EAGAIN = 3
  Requests <- MCRequests
  MaxChunks = 5
  DrainSteps = 1
  InitOutcomes = {"ok"}

SPECIFICATION Spec
PROPERTY FreedOnlyWhenIdle
