SPECIFICATION FairSpec
CONSTANTS
  u1 = u1
  Conns = {c1, c2}
  Jobs = {j1}
  Users = {u1}
  Channels = {"hall", "lounge"}
  Sticky = {"hall"}
  Persist = {"hall"}
  OwnerOf <- OneOwner
  None = None
PROPERTY GuessEnds
