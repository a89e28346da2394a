SPECIFICATION FairSpec
CONSTANTS
  Threads = {t1, t2}
  Loop = loop
  Names = {n1, n2}
  Null = Null
  Nobody = Nobody
  MaxCalls = 2
  MaxSessions = 2
PROPERTIES
  CallsReturn
CHECK_DEADLOCK FALSE
