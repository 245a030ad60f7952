SPECIFICATION Spec
CONSTANTS
  c1 = c1
  c3 = c3
  c4 = c4
  k = k
  c2 = c2
  top = top
  left = left
  right = right
  base = base
  Calls = {c1, c2, c3, c4}
  Docs = {top, left, right, base}
  Root <- SharedRoot
  Imports <- MCImports
  Direct = {c2, c3, c4}
  Sync = {c3, c4}
  UserCaches = {k}
  ModuleCache = ModuleCache
  Given <- SharedGiven
  Preloaded <- SharedPreloaded
  None = None
  Plain = Plain
INVARIANTS
  OneContinuation
  LoadedKnowsItsImports
CHECK_DEADLOCK FALSE
