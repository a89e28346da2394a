SPECIFICATION EchoFairSpec
CONSTANTS
  int = int
  int_param = int_param
  v1 = v1
  v2 = v2
  v3 = v3
  rule = rule
  Options = {int}
  Params = {int_param}
  Values = {v1, v2, v3}
  Validators = {rule}
  Accepts <- TwoOfThree
  ParamOf <- IntParam
  RuleOf <- IntRule
  AppValues = {}
  Undefined = Undefined
  NoValidator = NoValidator
  Malformed = Malformed
  Empty = Empty
  MaxSteps = 5
INVARIANTS
  EchoFollows
PROPERTIES
  EchoConverges
CHECK_DEADLOCK FALSE
