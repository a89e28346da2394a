SPECIFICATION Spec
CONSTANTS
  Strings <- MCStrings
  EmptyString = ""
  PrefixesOf <- MCPrefixesOf
  SuffixesOf <- MCSuffixesOf
  File <- MCFile
  FieldModulus = 16
  NullPtr = NullPtr
  Depth = 2
  Given <- AllGiven
  Texts <- NoTexts
  Probes <- AllProbes
INVARIANTS
  RoundTrip
  CopyAcceptsNoLess
  CopyAcceptsNoMore
  TypesAreExact
  ReadyMadePaths
  ListItemsReadDirectly
CHECK_DEADLOCK FALSE
