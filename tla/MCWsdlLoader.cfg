SPECIFICATION FairSpec
CONSTANTS
  c1 = c1
  c3 = c3
  c4 = c4
  k = k
  c2 = c2
  top = top
  left = left
  right = right
  base = base
  Calls = {c1, c2, c3}
  Docs = {top, left, right, base}
  Root <- MCRoot
  Imports <- MCImports
  Direct = {c3}
  Sync = {}
  UserCaches = {k}
  ModuleCache = ModuleCache
  Given <- OpenGiven
  Preloaded <- OpenPreloaded
  None = None
  Plain = Plain
INVARIANTS
  TypeOK
  ReferencesResolved
PROPERTIES
  KeepsPromise
  GivenIsLoaded
CHECK_DEADLOCK FALSE
