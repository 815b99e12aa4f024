SPECIFICATION Spec
CONSTANTS
  r1 = r1
  r2 = r2
  r3 = r3
  c1 = c1
  c2 = c2
  None = None
  Torn = Torn
  Variants = {1, 10}
  Revisions = {r1, r2, r3}
  Contents = {c1, c2}
  Definitions <- MCDefinitions
  serialize <- MCSerialize
  serializeProto <- MCSerializeProto
  MaxMinutes = 1
INVARIANTS
  TypeOK
  RecreateAligns
  RestUntouched
  NeverWithoutSeed
  OneFileEach
PROPERTY
  RunEnds
