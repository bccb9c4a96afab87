CONSTANTS
  Handlers = {h1, h2}
  NoOne = NoOne
  MaxLogins = 1
CHECK_DEADLOCK FALSE
SPECIFICATION Spec
INVARIANT
  HostHasCapture
