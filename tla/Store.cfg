SPECIFICATION Spec
CONSTANTS
  c1 = c1
  c2 = c2
  Creds = {c1, c2}
  Blobs <- MCBlobs
  OldFiles <- MCOldFiles
  FaultKinds = {"read", "open", "write", "power"}
  ABK_CONTROL = TRUE
  MaxCount = 2
  MaxFaults = 2
INVARIANT CleanMeansSaved
INVARIANT SavedSurvives
INVARIANT ResetIsFinal
INVARIANT CounterNotBehind
PROPERTY DurableSpec
