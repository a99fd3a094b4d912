SPECIFICATION FairSpec
CONSTANTS
  u1 = u1
  Sockets = {s1}
  Sessions = {t1, t2}
  Users = {u1}
  OwnerOf <- OneOwner
  Old = {t1}
  NoSession = NoSession
INVARIANTS TypeOK MemberOrCut SessionOrCut
PROPERTIES ExpiryCuts RemovalCuts
CHECK_DEADLOCK FALSE
CONSTRAINT OneLoss
