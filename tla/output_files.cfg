SPECIFICATION Spec
CONSTANTS
  r1 = r1
  r2 = r2
  e1 = e1
  e2 = e2
  e3 = e3
  Torn = Torn
  Bad = Bad
  Missing = Missing
  Truncated = Truncated
  Runs = {r1, r2}
  Events = {e1, e2, e3}
  StreamEvents = {e1}
  Batches <- MCBatches
  Deferred = {e3}
  MaxLines = 2
SYMMETRY Symmetric
INVARIANTS
  TypeOK
  ArtifactsTraceable
  MergedIsOcsf
  LayersAlign
CHECK_DEADLOCK FALSE
