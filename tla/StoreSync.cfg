SPECIFICATION SyncSpec
CONSTANTS
  Creds = {c1, c2}
  Blobs = {}
  OldFiles <- MCOldFiles
  FaultKinds = {"open"}
  ABK_CONTROL = FALSE
  MaxCount = 1
  MaxFaults = 2
SYMMETRY MCSymmetry
VIEW MCView
INVARIANT SyncHarmless
PROPERTY SyncAgrees
