SPECIFICATION FairSpec
CONSTANTS
  Capacity = 16
  U32 = 64
  Lengths = {0, 3, 5, 9, 12, 13}
  Byte = {b1, b2}
  b1 = b1
  b2 = b2
  Zero = Zero
  Mark = Mark
  MaxWrites = 4
  Payload <- MCPayload
CHECK_DEADLOCK FALSE
INVARIANTS
  TypeOK
  Fifo
  PositionsOrdered
  IInv
PROPERTIES
  UnreadBytesStable
  SmallFitsInEmptyRing
  ImplementsChannel
  PublishedIsDelivered
  CallsReturn
