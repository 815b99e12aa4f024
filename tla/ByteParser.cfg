SPECIFICATION Spec
CONSTANT
  Inputs <- MCInputs
INVARIANT
  TypeOK
PROPERTIES
  ImplementsByteTarget
  EveryInputAnswered
