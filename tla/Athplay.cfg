CONSTANTS
  data_length = 7
  FileSizes = {5, 9}
  bufsz = 3
  Writes = {"all", "part", "EAGAIN", "error"}
  Reads = {2, 4, 6}
  MaxWaiting = 6
  FileRoom = 11
  MaxSignals = 2
  MaxBack = 2

SPECIFICATION FairSpec
INVARIANT SongInv
INVARIANT OnlyAudio
INVARIANT SentOnce
INVARIANT WholeSong
INVARIANT AnnouncedIsThere
PROPERTY Ends
CHECK_DEADLOCK FALSE
