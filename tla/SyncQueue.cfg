CONSTANTS
  p1 = p1
  p2 = p2
  none = none
  Capacity = 4
  MaxCount = 2
  Value <- MCValue
  NoValue <- none
SPECIFICATION FairSpec
INVARIANTS TypeOK SlotExclusive
PROPERTIES ImplementsFifo Drains
