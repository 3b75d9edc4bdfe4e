SPECIFICATION Spec
CONSTANTS
  MaxPid = 2
  MaxExceptions = 6
INVARIANT
  TlsIsOwn
