CONSTANTS
  Ids = {l1, l2, l3}
  Height = 3
  MaxMessages = 6
SPECIFICATION Spec
INVARIANTS TypeOK LayersKeepTheirRows RestsBelow
PROPERTY EarlierLinesKept
