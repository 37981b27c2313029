\* Damage to the chain_index of a record.
SPECIFICATION Spec
CONSTANTS
  e1 = e1
  e2 = e2
  e3 = e3
  d1 = d1
  d2 = d2
  EventIds = {e1, e2, e3}
  Digests = {d1, d2}
  DigestOf <- MCDigestOf
  Others = {o1, o2}
  Alterable = {"chain_index"}
  MaxRecords = 2
  MaxAlterations = 1
  Junk = Junk
CHECK_DEADLOCK FALSE
INVARIANTS
  AlterationDetected
