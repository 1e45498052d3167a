CONSTANTS
  c1 = c1
  c2 = c2
  Callers = {c1, c2}
  Asked <- MCAsked
  Channels <- MCChannels
  Values <- MCValues
  Songs <- MCSongs
  Modes = {1, 2}
  Volumes <- MCVolumes
  ath_ref_freq = 40

SYMMETRY Symmetry
SPECIFICATION Spec
INVARIANT KnownDifferences
INVARIANT ReadBack
INVARIANT PlaysAsHeaderSays
PROPERTY LouderIsLouder
