SPECIFICATION Spec
CONSTANTS
  Channels = {c1, c2}
  Users = {u1, u2, u3}
  Votes = {v1, v2}
  Moderators = {}
  Allowed = {c1}
  MinMembers = 3
  MaxStarts = 2
  None = None
SYMMETRY Alike
INVARIANTS TypeOK VoteIsSound DecidedByTheRoom
