SPECIFICATION Spec
CONSTANTS
  item = item
  Names = {Envelope, Body, Fault, item}
  Envelope = Envelope
  Body = Body
  Fault = Fault
  Many = {item}
  Marks <- MCMarks
  label1 = label1
  Labels = {label1}
  Texts = {text}
  MaxElements = 4
  MaxDepth = 4
  MaxTexts = 1
INVARIANTS
  TypeOK
  FieldsAreElements
  FaultIsRaised
  HrefsAreMerged
CHECK_DEADLOCK FALSE
