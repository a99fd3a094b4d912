SPECIFICATION Spec
CONSTANTS
  MaxSeq = 2
  Syncs = {s1, s2}
  Loads = {l1}
  MaxAcks = 1
  MaxWire = 2
CONSTRAINT AFewAtATime
INVARIANTS TypeOK KeptUntilRead
