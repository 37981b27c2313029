\* Two processes have the same evidence directory open for writing.
SPECIFICATION Spec
CONSTANTS
  Events = {e1, e2}
  Metas = {m1}
  Writers = {w1, w2}
  Readers = {}
  Tears = {}
  KeepAfterError = FALSE
  MaxFaults = 0
  Torn = Torn
  Nothing = Nothing
CHECK_DEADLOCK FALSE
INVARIANTS
  RecordsLinkToPrevious
