----------------------------- MODULE PanosVpn -----------------------------
(***************************************************************************)
(* The PAN-OS parser for VPN events: the GLOBALPROTECT log and the rows of *)
(* the SYSTEM log about tunnels and key exchange.                          *)
(***************************************************************************)
EXTENDS VendorEvent

\* parse_csv_fields: the row starts at "1," and a date and has a type
Readable(row) == row.located /\ row.columns >= 5

VpnSystemSubtypes == {"vpn", "sslvpn", "global-protect", "crypto"}

Detect(row) ==
  /\ Readable(row)
  /\ \/ row.cells.type = "GLOBALPROTECT"
     \/ row.cells.type = "SYSTEM" /\ row.cells.subtype \in VpnSystemSubtypes

-----------------------------------------------------------------------------
StatusToOutcome(status) ==
  CASE status \in {"success", "succeeded", "connected", "complete", "completed"} ->
         "SUCCESS"
    [] status \in {"failure", "failed", "error", "denied"} -> "FAILURE"
    [] OTHER -> "UNKNOWN"

\* the phrases in several fields of the row, which the code joins into one text
Phrases(f, names) == UNION {PhrasesIn[Field(f, n)] : n \in names}

\* a tunnel that went down failed when the text says why
DownOutcome(text) ==
  IF text \cap {"timeout", "failed", "failure", "error", "dpd"} # {} THEN "FAILURE"
  ELSE "UNKNOWN"

LoginRules(f, text) ==
  LET e == PhrasesIn[Field(f, "eventid")]
      Login(subtype, outcome, mark, statuses, phrase) ==
        Rule("AUTHENTICATION", subtype, outcome,
             \/ mark \in e
             \/ Field(f, "stage") = "login" /\ Field(f, "status") \in statuses
             \/ phrase \in text)
  IN << Login("LOGIN_FAILURE", "FAILURE", "auth-fail", {"failure", "failed"},
              "authentication failed"),
        Login("LOGIN_SUCCESS", "SUCCESS", "auth-succ", {"success", "succeeded"},
              "authentication succeeded") >>

SettingRules(f, text) ==
  LET e == PhrasesIn[Field(f, "eventid")]
  IN << Rule("CONFIGURATION", "CONFIG_RELEASED", "SUCCESS",
             "config-release" \in e \/ "configuration released" \in text),
        Rule("CONFIGURATION", "CONFIG_RECEIVED", "SUCCESS",
             \/ "config-succ" \in e
             \/ /\ Field(f, "stage") = "configuration"
                /\ Field(f, "status") \in {"success", "succeeded"}
             \/ "configuration generated" \in text) >>

LogoutRule(f, text) ==
  Rule("CONNECTION", "USER_LOGOUT",
       IF Field(f, "status") # "" THEN StatusToOutcome(f.status) ELSE "SUCCESS",
       \/ "logout-succ" \in PhrasesIn[Field(f, "eventid")]
       \/ Field(f, "stage") = "logout" \/ "logout succeeded" \in text)

TunnelDownRule(f, text) ==
  Rule("TUNNEL", "TUNNEL_DOWN", DownOutcome(text),
       \/ {"tunnel is down", "tunnel down"} \cap text # {}
       \/ "tunnel-down" \in PhrasesIn[Field(f, "eventid")])

TunnelUpRule(f, text) ==
  Rule("TUNNEL", "TUNNEL_UP", "SUCCESS",
       \/ "tunnel creation finished" \in text
       \/ "tunnel-up" \in PhrasesIn[Field(f, "eventid")]
       \/ /\ Field(f, "stage") = "tunnel"
          /\ Field(f, "status") \in {"success", "succeeded"})

PostureRule(f, text) ==
  Rule("HOST_POSTURE", "HIP_CHECK_COMPLETED",
       IF Field(f, "status") # "" THEN StatusToOutcome(f.status) ELSE "SUCCESS",
       \/ Field(f, "stage") = "host-info"
       \/ {"hip report", "hip check"} \cap text # {})

ConnectionRules(f, text) ==
  LET e == PhrasesIn[Field(f, "eventid")]
  IN << Rule("CONNECTION", "PRELOGIN", "UNKNOWN",
             \/ Field(f, "stage") = "before-login"
             \/ {"prelogin", "pre-login"} \cap e # {}),
        Rule("CONNECTION", "CONNECTION_ESTABLISHED", "SUCCESS",
             \/ "regist-succ" \in e
             \/ /\ Field(f, "stage") = "connected"
                /\ Field(f, "status") \in {"success", "succeeded", "connected"}
             \/ "user login succeeded" \in text) >>

\* any text in the error column counts, a placeholder such as "none" too
ErrorRule(f, text) ==
  Rule("ERROR", "VPN_ERROR", "FAILURE",
       \/ Field(f, "status") \in {"failure", "failed", "error"}
       \/ Field(f, "error") # ""
       \/ {"could not connect", "connection failed"} \cap text # {})

GlobalprotectRules(f) ==
  LET text == Phrases(f, {"eventid", "stage", "status", "description", "error",
                          "reason"})
  IN LoginRules(f, text) \o SettingRules(f, text)
     \o <<LogoutRule(f, text), TunnelDownRule(f, text), TunnelUpRule(f, text),
          PostureRule(f, text)>>
     \o ConnectionRules(f, text) \o <<ErrorRule(f, text)>>

NegotiationRules(text) ==
  << Rule("NEGOTIATION", "NEGOTIATION_SUCCESS", "SUCCESS",
          {"negotiation is succeeded", "negotiation succeeded", "established sa"}
            \cap text # {}),
     Rule("NEGOTIATION", "NEGOTIATION_FAILURE", "FAILURE",
          {"negotiation failed", "negotiation failure", "no proposal chosen",
           "proposal mismatch", "proposal does not match"} \cap text # {}) >>

TunnelStatusRules(f, text) ==
  << Rule("TUNNEL", "TUNNEL_UP", "SUCCESS",
          \/ Field(f, "eventid") = "tunnel-status-up"
          \/ {"tunnel", " is up"} \subseteq text),
     Rule("TUNNEL", "TUNNEL_DOWN", DownOutcome(text),
          \/ Field(f, "eventid") = "tunnel-status-down"
          \/ "ike sa is down" \in text
          \/ {"tunnel", " is down"} \subseteq text),
     Rule("ERROR", "VPN_ERROR", "FAILURE",
          {"error", "failed", "failure"} \cap text # {}) >>

SystemVpnRules(f) ==
  LET text == Phrases(f, {"eventid", "subtype", "description"})
  IN NegotiationRules(text) \o TunnelStatusRules(f, text)

Classify(f) ==
  FirstRule(IF f.type = "GLOBALPROTECT" THEN GlobalprotectRules(f)
            ELSE SystemVpnRules(f))

-----------------------------------------------------------------------------
VpnType(f) ==
  LET text == Phrases(f, {"subtype", "tunnel_type", "description"})
  IN IF f.type = "GLOBALPROTECT" THEN Text("GLOBALPROTECT")
     ELSE IF {"ipsec", "ike"} \cap text # {} \/ f.subtype \in {"vpn", "crypto"}
     THEN Text("IPSEC")
     ELSE IF "ssl" \in text THEN Text("SSL_VPN") ELSE None

\* the columns that the details of a GlobalProtect event keep
ClientColumns ==
  [stage |-> "stage", authentication_method |-> "auth_method",
   tunnel_type |-> "tunnel_type", source_region |-> "srcregion",
   machine_name |-> "machinename", public_ip |-> "public_ip",
   public_ipv6 |-> "public_ipv6", private_ip |-> "private_ip",
   private_ipv6 |-> "private_ipv6", host_id |-> "hostid",
   endpoint_serial |-> "endpoint_serial", client_version |-> "client_version",
   client_os |-> "client_os", client_os_version |-> "client_os_version"]

SessionColumns ==
  [repeat_count |-> "repeat_count", status |-> "status", location |-> "location",
   login_duration |-> "login_duration", connect_method |-> "connect_method",
   error |-> "error", error_code |-> "error_code", portal |-> "portal",
   gateway |-> "gateway", sequence_number |-> "sequence_number",
   description |-> "description", device_name |-> "device_name",
   virtual_system |-> "vsys"]

SystemColumns ==
  [system_subtype |-> "subtype", system_object |-> "object", module |-> "module",
   sequence_number |-> "sequence_number", description |-> "description",
   device_name |-> "device_name", virtual_system |-> "vsys"]

BuildDetails(f) ==
  LET columns == IF f.type = "GLOBALPROTECT" THEN ClientColumns ++ SessionColumns
                 ELSE SystemColumns
      Value(k) == IF k \in {"repeat_count", "login_duration"}
                  THEN ConvertInt(Field(f, columns[k]))
                  ELSE CleanField(f, columns[k])
  IN Present([k \in DOMAIN columns |-> Value(k)] ++ [vpn_type |-> VpnType(f)])

\* the first column that is not empty, even when it holds a placeholder
FailureReason(f) ==
  Cleaned(IF Field(f, "error") # "" THEN f.error
          ELSE IF Field(f, "reason") # "" THEN f.reason ELSE Field(f, "description"))

BuildObject(f) ==
  LET gateway == CleanField(f, "gateway")
      portal == CleanField(f, "portal")
      object == CleanField(f, "object")
      Named(type, name) == IF name = None THEN <<None, None>> ELSE <<Text(type), name>>
  IN CASE f.type = "GLOBALPROTECT" /\ gateway # None -> Named("VPN_GATEWAY", gateway)
       [] f.type = "GLOBALPROTECT" /\ gateway = None -> Named("VPN_PORTAL", portal)
       [] OTHER -> Named("VPN_TUNNEL", object)

(***************************************************************************)
(* The event of a row that Detect accepts; for any other normalize raises. *)
(***************************************************************************)
NormalizeRow(row) ==
  LET f == row.cells
      c == Classify(f)
      client == f.type = "GLOBALPROTECT"
      object == BuildObject(f)
  IN EventWith(
       [timestamp |-> Timestamp(EitherField(f, "time_generated", "receive_time")),
        vendor |-> PaloAlto, product |-> Text("PAN-OS"),
        category |-> Text("VPN"), type |-> Text(c.type), subtype |-> Text(c.subtype),
        outcome |-> Text(c.outcome), severity |-> CleanField(f, "severity"),
        src_ip |-> IF client THEN CleanField(f, "public_ip") ELSE None,
        user |-> IF client THEN CleanField(f, "srcuser") ELSE None,
        reason |-> IF c.outcome = "FAILURE" THEN FailureReason(f)
                   ELSE CleanField(f, "reason"),
        object_type |-> object[1], object_name |-> object[2],
        vendor_event_id |-> CleanField(f, "eventid")],
       BuildDetails(f), Texts(f))
=============================================================================
