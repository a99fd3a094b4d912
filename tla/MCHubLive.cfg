SPECIFICATION FairSpec
CONSTANTS
  Conns = {c1, c2}
  Users = {u1}
  Games = {}
  DeadAfter = 1
  StaleAfter = 1
  AfkAfter = 1
  None = None
PROPERTIES VanishedIsClosed AbsentTurnsAfk
CONSTRAINT NobodyPlays
