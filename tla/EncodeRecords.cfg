SPECIFICATION Spec
CONSTANTS
  Base = 4
  FixInt = 2
  FixStr = 2
  FixMap = 8
  Capacity = 104
  Lengths = {1, 2, 15, 16}
  Number = {5}
  MaxSpans = 2
  Text <- MCText
  Stamps <- MCStamps
  MaxQueryLens <- MCQueryLens
INVARIANTS
  TypeOK
  RecordsReadBack
  LostOnlyIfTooLarge
CHECK_DEADLOCK FALSE
