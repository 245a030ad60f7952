SPECIFICATION FairSpec
CONSTANTS
  g = g  u = u  p0 = p0  r = r  at = at  t1 = t1  p1 = p1  ea = ea  gr = gr
  t2 = t2  cc = cc  x = x  p2 = p2  eb = eb  gd = gd  p3 = p3  ec = ec
  Nodes <- MCNodes
  Class <- MCClass
  Kids <- MCKids
  Depth <- MCDepth
  Links <- MCLinks
  Repeatable <- MCRepeatable
  TypeTable <- MCTypeTable
  Roots <- MCRoots
  None = None
  MaxDepth = 24
  MaxArrays = 19
INVARIANTS
  TypeOK
  DescriptorsMatchSchema
PROPERTIES
  TypeIsFinal
  Terminates
