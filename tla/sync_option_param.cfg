SPECIFICATION Spec
CONSTANTS
  v1 = v1
  v2 = v2
  strict = strict
  Options = {opt}
  Params = {par}
  Values <- MCValues
  Validators <- MCValidators
  Accepts <- MCAccepts
  AppValues <- AnyValue
  Undefined = Undefined
  NoValidator = NoValidator
  Malformed = Malformed
  Empty = Empty
  MaxSteps = 5
INVARIANTS
  TypeOK
  BrokerFollowsValues
  BrokerFollowsValidators
  EveryOptionIsSettable
  SavedSubscriptionIsTemporary
  MessagesAreRoutable
CHECK_DEADLOCK FALSE
