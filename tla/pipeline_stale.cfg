\* A pack that was cached goes bad afterwards.
SPECIFICATION Spec
CONSTANTS
  b1 = b1
  b2 = b2
  k1 = k1
  k2 = k2
  None = None
  Missing = Missing
  Malformed = Malformed
  Events = {"traffic"}
  Decodable = {"traffic"}
  Configured = {"traffic"}
  Parsers = {"fortigate.traffic", "fortigate.vpn"}
  Registered = {"fortigate.traffic"}
  ParserOf <- MCParserOf
  ParserFails = {}
  Bodies = {b1}
  Applies <- MCApplies
  KeyIds = {k1}
INVARIANT
  BadPackResolvesToNothing
