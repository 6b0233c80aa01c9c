SPECIFICATION Spec
CONSTANTS
  reader = reader
  reader2 = reader2
  writer = writer
  both = both
  other = other
  a = a
  b = b
  Events = {reader, reader2, writer, both, other}
  Fds = {a, b}
  MaxCount = 2
  Fd <- MCFd
  Kinds <- MCKinds
INVARIANTS Inv Watched
