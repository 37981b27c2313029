\* Every kind of damage, twice, in a manifest of up to three lines.
SPECIFICATION Spec
CONSTANTS
  e1 = e1
  e2 = e2
  e3 = e3
  d1 = d1
  d2 = d2
  EventIds = {e1, e2, e3}
  Digests = {d1, d2}
  DigestOf <- MCDigestOf
  Others = {o1, o2}
  Alterable = {"event_id", "raw_sha256", "meta", "chain_index", "previous_chain_hash", "chain_hash", "version", "blob_file", "drop", "repeat",
    "restore", "blob"}
  MaxRecords = 3
  MaxAlterations = 2
  Junk = Junk
CHECK_DEADLOCK FALSE
INVARIANTS
  TypeOK
  PassMeansAsWritten
  PassFixesHistory
  DamageStaysLocal
