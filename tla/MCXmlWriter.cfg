SPECIFICATION Spec
CONSTANTS
  soap = soap
  xsi = xsi
  tns = tns
  soapURI = soapURI
  xsiURI = xsiURI
  a = a
  b = b
  NoURI = NoURI
  NoPrefix = NoPrefix
  Generated <- MCGenerated
  Names <- MCNames
  URIs <- MCURIs
  SoapPrefix = soap
  SoapURI = soapURI
  XsiPrefix = xsi
  XsiURI = xsiURI
  WsdlPrefixes <- MCWsdlPrefixes
  TypePrefixes <- MCTypePrefixes
  AppURIs <- MCAppURIs
  MaxDepth = 3
  MaxNames = 3
INVARIANTS
  TypeOK
  NamesResolve
  NoShadowing
  DeclaredIsWritten
PROPERTIES
  MappingsAreStable
CHECK_DEADLOCK FALSE
