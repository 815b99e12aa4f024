SPECIFICATION SeedSpec
CONSTANTS
  Garbage = Garbage
  kMaxBuffer = 1048576
  Names <- MCNames
  Messages <- MCMessages
  SeedSequences <- MCSeedSequences
INVARIANT ProtoSeedIsByteSeed
