SPECIFICATION EnforceSpec
CONSTANTS
  Restrictions <- MCRestrictions
  Numbers <- MCNumbers
  Texts <- MCTexts
  Unset = Unset
INVARIANTS
  NumberIsValid
  TextIsValid
  ValidIsSent
\* The method returns or raises.
CHECK_DEADLOCK FALSE
