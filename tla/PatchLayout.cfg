SPECIFICATION Spec
CONSTANTS
  Inputs <- MCInputs
  HandleCount <- MCHandleCount
  ArmedHandle <- Armed
  Hmac <- MCHmac
INVARIANTS
  TypeOK
  PatchFitsRoom
  PatchedReparses
PROPERTY
  PaddingNeverWrites
