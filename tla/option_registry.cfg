SPECIFICATION Spec
CONSTANTS
  Threads = {t1, t2, t3}
  Loop = loop
  Names = {n1, n2}
  Null = Null
  Nobody = Nobody
  MaxCalls = 2
  MaxSessions = 2
SYMMETRY Interchangeable
INVARIANTS
  OneObjectPerName
  ReturnedIsConnected
  NoneMissed
  MapIsStableForReaders
CHECK_DEADLOCK FALSE
