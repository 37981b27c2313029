\* Every route of an event (pack, registry parser, Tier 0, and the errors), while
\* packs with two bodies are deployed, edited, signed, removed and distrusted at
\* any moment.
SPECIFICATION Spec
CONSTANTS
  b1 = b1
  b2 = b2
  k1 = k1
  k2 = k2
  None = None
  Missing = Missing
  Malformed = Malformed
  Events = {"traffic", "vpn", "plain", "broken", "bytes"}
  Decodable = {"traffic", "vpn", "plain", "broken"}
  Configured = {"traffic", "broken"}
  Parsers = {"fortigate.traffic", "fortigate.vpn"}
  Registered = {"fortigate.traffic"}
  ParserOf <- MCParserOf
  ParserFails = {"broken"}
  Bodies = {b1, b2}
  Applies <- MCApplies
  KeyIds = {k1}
INVARIANTS
  TypeOK
  RunsOnlySignedPacks
  BindingMatchesFields
  GoodPackResolves
  EvidenceBacked
  FallbackUnchanged
PROPERTY
  TrustedWhenCached
