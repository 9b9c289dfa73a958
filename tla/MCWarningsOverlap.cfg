CONSTANTS
  Requests = {r1, r2}
  TableCount = 2
  Versions = {0, 1}
  Empty = 0
  Optional = {}
  None = None
  Warnings <- MCWarningSet
  Engine <- MCEngine
  Clashes <- MCClashes
SPECIFICATION Spec
INVARIANT
  QuietCacheIsCurrent
