SPECIFICATION LiveSpec
CONSTANTS
  Sessions = {s1}
  Sockets = {w1, w2}
  AutoTries = 1
  TriesAfterUser = 1
  None = None
PROPERTIES ComesBack NoticeEnds
