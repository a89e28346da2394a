SPECIFICATION FairSpec
CONSTANTS
  v1 = v1
  v2 = v2
  strict = strict
  Options = {opt}
  Params = {}
  Values <- MCValues
  Validators <- MCValidators
  Accepts <- MCAccepts
  AppValues <- DefinedValue
  Undefined = Undefined
  NoValidator = NoValidator
  Malformed = Malformed
  Empty = Empty
  MaxSteps = 6
PROPERTIES
  RemoteUpdatesAreSound
  ValuesReachBroker
  SavedValueIsRecovered
CHECK_DEADLOCK FALSE
