--------------------------- MODULE FortigateVpn ---------------------------
(***************************************************************************)
(* The FortiGate parser for VPN events.                                    *)
(***************************************************************************)
EXTENDS FortigateLog

Detect(f) ==
  \/ Field(f, "subtype") \in {"vpn", "ipsec", "sslvpn", "ssl-vpn"}
  \/ HasAny(Field(f, "logdesc"), {"vpn", "ipsec"})
  \/ Has(Field(f, "tunneltype"), "ssl")

VpnType(f) ==
  IF \/ Has(Field(f, "tunneltype"), "ssl") \/ Has(Field(f, "logdesc"), "ssl vpn")
     \/ Field(f, "subtype") \in {"sslvpn", "ssl-vpn"}
  THEN Text("SSL_VPN")
  ELSE IF \/ Field(f, "subtype") = "ipsec" \/ Has(Field(f, "logdesc"), "ipsec")
          \/ Field(f, "action") = "negotiate"
  THEN Text("IPSEC") ELSE None

Identified(f, ids, type, subtype, outcome) ==
  Rule(type, subtype, outcome, ShortLogId(f) \in ids)

SslVpnRules(f) ==
  << Rule("CONNECTION", "CONNECTION_INITIATED", "UNKNOWN",
          ShortLogId(f) = "39943" \/ Field(f, "action") = "ssl-new-con"),
     Rule("AUTHENTICATION", "LOGIN_FAILURE", "FAILURE",
          ShortLogId(f) = "39426" \/ Field(f, "action") = "ssl-login-fail"),
     Identified(f, {"39424"}, "TUNNEL", "USER_TUNNEL_UP", "SUCCESS"),
     Identified(f, {"39947"}, "TUNNEL", "TUNNEL_UP", "SUCCESS"),
     Identified(f, {"39948"}, "TUNNEL", "TUNNEL_DOWN", "UNKNOWN"),
     Identified(f, {"39944", "39951"}, "ERROR", "TUNNEL_ERROR", "FAILURE") >>

IpsecRules(f) ==
  << Identified(f, {"37129"}, "NEGOTIATION", "NEGOTIATION_SUCCESS", "SUCCESS"),
     Identified(f, {"37128", "37124"}, "NEGOTIATION", "NEGOTIATION_FAILURE",
                "FAILURE") >>

\* logs without a known id
FallbackRules(f) ==
  LET action == Field(f, "action")
      status == Field(f, "status")
  IN << Rule("NEGOTIATION", "NEGOTIATION_SUCCESS", "SUCCESS",
             action = "negotiate" /\ status = "success"),
        Rule("NEGOTIATION", "NEGOTIATION_FAILURE", "FAILURE",
             /\ action = "negotiate"
             /\ \/ status \in {"failure", "failed", "negotiate_error", "error"}
                \/ Has(Field(f, "reason"), "error")),
        Rule("TUNNEL", "TUNNEL_UP", "SUCCESS", action = "tunnel-up"),
        Rule("TUNNEL", "TUNNEL_DOWN", "UNKNOWN", action = "tunnel-down") >>

Classify(f) == FirstRule(SslVpnRules(f) \o IpsecRules(f) \o FallbackRules(f))

\* the details keep the keys that have no value
BuildDetails(f) ==
  [vpn_type |-> VpnType(f), tunnel_type |-> ValueOf(f, "tunneltype"),
   tunnel_name |-> ValueOf(f, "vpntunnel"), tunnel_ip |-> ValueOf(f, "tunnelip"),
   vpn_phase |-> Converted(ValueOf(f, "stage")),
   duration |-> Converted(ValueOf(f, "duration"))]

\* type and name of the tunnel that the event is about
BuildObject(f) ==
  LET tunnel == Field(f, "vpntunnel")
  IN IF tunnel = "" THEN <<None, None>> ELSE <<Text("VPN_TUNNEL"), Text(tunnel)>>

(***************************************************************************)
(* The event of a log that Detect accepts; for any other normalize raises. *)
(***************************************************************************)
NormalizeLog(f) ==
  LET c == Classify(f)
      object == BuildObject(f)
  IN EventWith(
       [timestamp |-> BuildTimestamp(f),
        vendor |-> Text("Fortinet"), product |-> Text("FortiGate"),
        category |-> Text("VPN"), type |-> Text(c.type), subtype |-> Text(c.subtype),
        outcome |-> Text(c.outcome), severity |-> ValueOf(f, "level"),
        src_ip |-> EitherValue(f, "remip", "srcip"),
        src_port |-> Converted(EitherValue(f, "remport", "srcport")),
        dst_ip |-> EitherValue(f, "locip", "dstip"),
        dst_port |-> Converted(EitherValue(f, "locport", "dstport")),
        protocol |-> NormalizeProtocol(EitherValue(f, "proto", "protocol")),
        user |-> Clean(Field(f, "user")), action |-> ValueOf(f, "action"),
        reason |-> Clean(EitherField(f, "reason", "error_reason")),
        object_type |-> object[1], object_name |-> object[2],
        vendor_event_id |-> ValueOf(f, "logid")],
       BuildDetails(f), Texts(f))
=============================================================================
