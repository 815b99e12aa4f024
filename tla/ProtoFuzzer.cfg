SPECIFICATION Spec
CONSTANTS
  h1 = h1
  h2 = h2
  p1 = p1
  t1 = t1
  t2 = t2
  owner = owner
  n1 = n1
  n2 = n2
  TransientHandles = {t1, t2}
  PersistentHandles = {}
  HmacHandles = {h1, h2}
  PolicyHandles = {p1}
  FixedHandles = {owner, password, null}
  OtherHandles = {}
  Password = password
  NullHandle = null
  NoHandle = NoHandle
  ObjectNames = {n1, n2}
  NoName = NoName
  MaxNames = 1
  MaxCommands = 4
  MaxIterations = 2
  Requests <- AnyRequests
INVARIANTS
  TypeOK
  ResponseMatchesCommand
  SyncUnlessDesynced
  RecordedNamesAreCurrent
  ObjectsSinceArmingRecorded
  
  LearnedThisIteration

  
CHECK_DEADLOCK FALSE
