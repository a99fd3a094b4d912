SPECIFICATION Spec
CONSTANTS
  u1 = u1
  Conns = {c1, c2}
  Jobs = {j1, j2}
  Users = {u1}
  Channels = {"hall", "lounge"}
  Sticky = {"hall"}
  Persist = {}
  OwnerOf <- OneOwner
  None = None
SYMMETRY Symmetry
INVARIANTS TypeOK RestoredAlone ListsKnow
PROPERTY HeldStaysHeld
