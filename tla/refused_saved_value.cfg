SPECIFICATION RefusalSpec
CONSTANTS
  v1 = v1
  v2 = v2
  strict = strict
  Options = {opt}
  Params = {}
  Values <- MCValues
  Validators <- MCValidators
  Accepts <- MCAccepts
  AppValues <- DefinedValue
  Undefined = Undefined
  NoValidator = NoValidator
  Malformed = Malformed
  Empty = Empty
  MaxSteps = 4
PROPERTIES
  RefusedValueIsNotAdopted
CHECK_DEADLOCK FALSE
