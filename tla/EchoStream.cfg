\* One connection, streams longer than two buffers.
CONSTANTS
  Conn = {c1}
  Byte = {b1, b2}
  Thread = {t1, t2}
  MaxLength = 2
  MaxStream = 5
  Junk = Junk
  None = None
SPECIFICATION Spec
SYMMETRY Symmetry
INVARIANTS TypeOK EchoFaithful
PROPERTY ImplementsContract
