SPECIFICATION Spec
CONSTANTS
  c1 = c1
  c2 = c2
  Creds = {c1, c2}
  Blobs <- NoBlobs
  OldFiles <- MCOldFiles
  FaultKinds = {"read"}
  ABK_CONTROL = FALSE
  MaxCount = 3
  MaxFaults = 1
INVARIANT SavedSomewhere
