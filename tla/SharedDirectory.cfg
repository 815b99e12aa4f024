SPECIFICATION CrashFreeSpec
CONSTANTS
  w1 = w1
  w2 = w2
  d1 = d1
  d2 = d2
  Workers = {w1, w2}
  Directories = {d1, d2}
  Dir <- SharedDir
INVARIANT FreshStart
