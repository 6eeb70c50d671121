SPECIFICATION WorkSpec
CONSTANTS
  in1 = in1
  in2 = in2
  Ins = {in1, in2}
  Configs <- MCConfigs
  TagRing = 3
  StallLimit = 2
  MaxBurst = 2
  MaxTags = 2
  TakesSilently = FALSE
CHECK_DEADLOCK FALSE
INVARIANTS TagsOnceAndInOrder StreamEndsWhole TailAccounted
