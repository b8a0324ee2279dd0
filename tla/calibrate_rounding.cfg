SPECIFICATION Spec
CONSTANTS
  Requests = {1, 2, 3, 4, 5, 6}
  PAYLOAD <- Payloads
  ScriptOff <- ScriptErrs
  ServiceOff <- ServiceErrs
  Datasets <- UpToThree
  NODES <- TwoLeaves
  LEAF_COUNT = 2
  LEAF_COUNT_OF <- Counts
  NanAsInt <- Nan
  MIN_OBS_A = 2
  MIN_OBS_B = 2
  ALLOW_LEAVES = {1}
  ALLOW_PARTITIONS = {249, 253}
  FOLDS = 2
  NoFile = NoFile
INVARIANTS
  NoErrorsOnTestData
