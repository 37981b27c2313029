\* One writing and one verifying process; crashes and I/O errors at every step,
\* appends torn inside the record. A torn line stops the store for good, so the
\* system may stop.
SPECIFICATION Spec
CONSTANTS
  Events = {e1, e2, e3}
  Metas = {m1, m2}
  Writers = {w}
  Readers = {r}
  Tears = {"fragment"}
  KeepAfterError = FALSE
  MaxFaults = 3
  Torn = Torn
  Nothing = Nothing
CHECK_DEADLOCK FALSE
INVARIANTS
  TypeOK
  ChainIntact
  OneRecordPerEvent
  ReceiptsDurable
  LoadedRecordsVerify
PROPERTIES
  PreservesEvidence
