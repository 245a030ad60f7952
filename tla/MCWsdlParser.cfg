SPECIFICATION Spec
CONSTANTS
  uri1 = uri1
  uri2 = uri2
  Namespaces = {n1, n2}
  Names = {x}
  XmlPrefixes = {p}
  URIs = {uri1, uri2}
  NoURI = NoURI
  MaxElements = 5
  MaxDepth = 4
SYMMETRY MCSymmetry
INVARIANTS
  TypeOK
  StackIsDocument
  PrefixesKeepTheirMeaning
  DeclarationsAreFound
CHECK_DEADLOCK FALSE
