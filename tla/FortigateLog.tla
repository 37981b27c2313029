--------------------------- MODULE FortigateLog ---------------------------
(***************************************************************************)
(* What the FortiGate parsers for system and VPN events share.  A log is   *)
(* the function of its key=value fields.                                   *)
(***************************************************************************)
EXTENDS VendorEvent

CONSTANT EventIdOf  \* the last five digits of each log id

\* these parsers take "unknown" for no value too
Clean(text) == IF text = "unknown" THEN None ELSE Cleaned(text)

\* fields.get(a) or fields.get(b) as a value, which may be None or blank
EitherValue(f, a, b) ==
  LET key == IF Field(f, a) # "" THEN a ELSE b
  IN IF key \in DOMAIN f THEN Text(f[key]) ELSE None

ValueOf(f, key) == IF key \in DOMAIN f THEN Text(f[key]) ELSE None

\* convert_port, convert_int: what is no number stays as it is
Converted(v) == IF v = None THEN None ELSE AsNumber(v[2])

ShortLogId(f) ==
  IF Field(f, "logid") \in DOMAIN EventIdOf THEN EventIdOf[f.logid] ELSE "no-id"

BuildTimestamp(f) ==
  IF Field(f, "date") = "" \/ Field(f, "time") = "" THEN None
  ELSE Text(f.date \o "T" \o f.time \o Field(f, "tz"))

ProtocolNames ==
  [number \in {"6", "17", "1", "58"} |->
     CASE number = "6" -> "TCP" [] number = "17" -> "UDP"
       [] number = "1" -> "ICMP" [] number = "58" -> "ICMPV6"]

NormalizeProtocol(v) ==
  IF v = None THEN None
  ELSE Text(IF v[2] \in DOMAIN ProtocolNames THEN ProtocolNames[v[2]]
            ELSE Upper(v[2]))
=============================================================================
