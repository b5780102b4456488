CONSTANTS
  p1 = p1
  p2 = p2
  t1 = t1
  t2 = t2
  Procs <- TwoProcs
  Tokens <- TwoTokens
  sessionTTL = 3
  Day = 2
  Width = 7
  MaxNow = 4
SPECIFICATION Spec
SYMMETRY Symmetric
INVARIANTS TypeOK LogoutIsFinal RestartKeepsSessions ExpiryTracksUse IdleSessionsEnd
PROPERTY ImplementsLife
