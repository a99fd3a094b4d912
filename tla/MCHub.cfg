SPECIFICATION Spec
CONSTANTS
  Conns = {c1, c2}
  Users = {u1}
  Games = {g1, g2}
  DeadAfter = 1
  StaleAfter = 1
  AfkAfter = 1
  None = None
SYMMETRY Symmetry
INVARIANTS TypeOK AfkMeansAway AwayMeansAfk BooksAgree ListenersKnow LastReportCounts
PROPERTY NewestReportShows
CONSTRAINT OneAtATime
