SPECIFICATION Spec
CONSTANTS
  Strings <- MCStrings
  EmptyString = ""
  PrefixesOf <- MCPrefixesOf
  SuffixesOf <- MCSuffixesOf
  File <- MCFile
  FieldModulus = 16
  NullPtr = NullPtr
  Depth = 2
  Given <- NoneGiven
  Texts <- AllTexts
  Probes <- AllProbes
INVARIANTS
  ReadCanBeSentOn
  SingleTypesReadDirectly
CHECK_DEADLOCK FALSE
