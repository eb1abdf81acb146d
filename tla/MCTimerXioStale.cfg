SPECIFICATION Spec
CONSTANTS
  Reader = Reader
  Writer = Writer
  Others = {}
  None = None
  MaxSize = 2
  MaxWritten = 3
  Timed = {Reader, Writer}
  MaxExpiries = 1
INVARIANT UntimedNeverAborted
