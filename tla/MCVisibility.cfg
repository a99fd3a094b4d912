SPECIFICATION FairSpec
CONSTANTS
  Tables = {t1, t2}
  Writers = {w1}
  Callers = {k1, k2}
  Users = {u1}
  Seats = {"none", "here"}
  MaxWrites = 1
  MaxVersion = 2
  None = None
INVARIANTS TypeOK FreshSnapshot SettledSnapshot
PROPERTIES DecisionIsFresh RefreshEnds
