CONSTANTS
  Builds <- MCBuilds
  OtherFiles <- MCOtherFiles
  Sizes <- MCSizes
  NameMargin = 2
  CodeMargin = 2
  Wrap = 64
  MaxSaves = 2
  MaxDefs = 1
  MaxStarts = 2
SPECIFICATION Spec
INVARIANTS TypeOK LoadsWhatWasSaved InitializedOnce
CHECK_DEADLOCK FALSE
