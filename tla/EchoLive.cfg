\* Two sessions and the acceptor share one thread; streams longer than the buffer.
CONSTANTS
  Conn = {c1, c2}
  Byte = {b1}
  Thread = {t1}
  MaxLength = 1
  MaxStream = 2
  Junk = Junk
  None = None
SPECIFICATION FairSpec
PROPERTIES Accepted EveryByteEchoed Released
