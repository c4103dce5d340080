SPECIFICATION FairSpec
CONSTANTS
  Size = 4
  KeySize = 6
  LowerOf <- MCLower
  Static <- MCStatic
  Name <- MCName
  Hashes <- MCHashes
INVARIANTS
  TypeOK
  MatchIsExact
PROPERTY
  ProbesEnd
CHECK_DEADLOCK FALSE
