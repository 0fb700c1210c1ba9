\* One connection; reads of at most two bytes, streams of up to six.
CONSTANTS
  Conn = {c1}
  MaxLength = 2
  MaxStream = 6
  HighWater = 1
SPECIFICATION FairSpec
INVARIANTS TypeOK NoEarlyDrop
PROPERTIES ImplementsContract EveryByteEchoed Released
CHECK_DEADLOCK FALSE
