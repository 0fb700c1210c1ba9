\* Two connections on a pool of two threads.
CONSTANTS
  Conn = {c1, c2}
  Byte = {b1}
  Thread = {t1, t2}
  MaxLength = 2
  MaxStream = 2
  Junk = Junk
  None = None
SPECIFICATION Spec
SYMMETRY Symmetry
INVARIANTS IInv SessionSerial NoUseAfterFree NoEarlyDrop AcceptLoop
