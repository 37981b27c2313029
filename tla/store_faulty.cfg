\* Every fault, and a caller that goes on with a store whose store() raised: what
\* still holds when the chain on disk may be damaged. A damaged manifest can no
\* longer be opened, so the system may stop.
SPECIFICATION Spec
CONSTANTS
  Events = {e1, e2, e3}
  Metas = {m1}
  Writers = {w}
  Readers = {r}
  Tears = {"fragment", "unterminated"}
  KeepAfterError = TRUE
  MaxFaults = 3
  Torn = Torn
  Nothing = Nothing
CHECK_DEADLOCK FALSE
SYMMETRY EventSymmetry
INVARIANTS
  BlobBeforeRecord
  StableReceipts
  NoSilentLoss
