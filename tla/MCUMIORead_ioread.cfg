SPECIFICATION Spec
CONSTANTS
  Setups <- Instances
  MaxBatch = 2
INVARIANTS CutsDoNotMatter DecodedUnlessSpoiled
 
CHECK_DEADLOCK FALSE
