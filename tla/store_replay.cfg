\* Two processes store the same two events and replay them after crashes and I/O
\* errors that tear no line.
SPECIFICATION FairSpec
CONSTANTS
  Events = {e1, e2}
  Metas = {m1}
  Writers = {w1, w2}
  Readers = {}
  Tears = {}
  KeepAfterError = FALSE
  MaxFaults = 2
  Torn = Torn
  Nothing = Nothing
INVARIANTS
  SharedTemporaryHeals
PROPERTIES
  EveryEventAcknowledged
