SPECIFICATION FairSpec
CONSTANTS
  c1 = c1
  c2 = c2
  c3 = c3
  i1 = i1
  i2 = i2
  p1 = p1
  p2 = p2
  Client = {c1, c2, c3}
  Instance = {i1, i2}
  Process = {p1, p2}
  None = None
  Empty = 0
  MaxIndex = 2
  instOf <- MCInstOf
  procOf <- MCProcOf
  Op <- MCOp
  Reader <- MCReader
  Store <- MCStore
  Effect <- MCEffect
INVARIANTS
  TypeOK
  LockFileIsHolder
PROPERTIES
  OperationsAtomic
  CallReturns
  LockFreed
