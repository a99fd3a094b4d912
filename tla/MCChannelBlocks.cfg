SPECIFICATION Spec
CONSTANTS
  Channels = {c1, c2}
  Blocked = c1
  Users = {u1}
  Blocks = {b1, b2}
  Permanent = {b2}
  Votes = {b1}
  Requests = {r1, r2}
  None = None
  Nobody = Nobody
  Unsure = Unsure
CONSTRAINT FewWays
INVARIANTS TypeOK AnsweredHolds BlockedIsOut
PROPERTY KeepsTheBook
