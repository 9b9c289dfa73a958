CONSTANTS
  Requests = {r1}
  TableCount = 1
  Versions = {0, 1, 2}
  Empty = 0
  Optional = {}
  None = None
  Warnings <- MCWarningSet
  Engine <- MCEngine
  Clashes <- MCClashes
SPECIFICATION Spec
INVARIANT
  MergedTextsFollowCache
