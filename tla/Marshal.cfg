SPECIFICATION Spec
CONSTANTS
  Garbage = Garbage
  kMaxBuffer = 1048576
  Names <- MCNames
  Messages <- MCMessages
INVARIANTS
  TypeOK
  CommandReadsBack
  StartParametersCaptured
  SkippedForSizeOnly
  PostProcessedIsFixpoint
  NormalisedFitsWire
