CONSTANTS
  d1 = d1
  d2 = d2
  f1 = f1
  f2 = f2
  f3 = f3
  Dirs = {d1, d2}
  Files = {f1, f2, f3}
  DirOf <- ExampleDirOf
  Lists <- ExampleLists
  NotAList = NotAList
  Undefined = Undefined
  NoFile = NoFile
  Other = Other
  MaxTime = 2
  MaxSteps = 4
SPECIFICATION FairSpec
INVARIANTS
  WatchFollowsOption
  CompleteImagesAreSeen
PROPERTIES
  OnlyTheFirstCopyIsOlder
  ImagesAreCopied
CHECK_DEADLOCK FALSE
