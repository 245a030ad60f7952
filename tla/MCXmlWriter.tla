----------------------------- MODULE MCXmlWriter -----------------------------
(* Bounded instance of XmlWriter: the WSDL binds `tns' and may bind `ns1' and *)
(* even the prefix of the envelope; two application namespaces.               *)
EXTENDS XmlWriter

CONSTANTS soap, xsi, tns, soapURI, xsiURI, a, b

MCGenerated == 1..6
MCNames == {soap, xsi, tns}
MCURIs == {soapURI, xsiURI, a, b}
MCWsdlPrefixes == {soap, tns, 1}
MCTypePrefixes == {NoPrefix, tns, 1, 2}
MCAppURIs == {a, b}
=============================================================================
