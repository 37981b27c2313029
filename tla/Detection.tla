----------------------------- MODULE Detection -----------------------------
(***************************************************************************)
(* The detection engine: the format of a raw log, its vendor and product,  *)
(* and the event family with the parser that is named for it.              *)
(*                                                                         *)
(* A raw log is what the detectors and the parsers see of its text:        *)
(*   marks     "blank", "CEF", "LEEF", "JSON", "XML", "PRI": blank text,   *)
(*             headers and forms that are found in it                      *)
(*   pairs     its key=value fields                                        *)
(*   balanced  its quotes pair up, so that shlex.split() succeeds          *)
(*   columns, dated, located, cells                                        *)
(*             its CSV columns: how many (0: unreadable), the second is a  *)
(*             time, a PAN-OS row starts in it, and the columns by name    *)
(*   asa       the message number after %ASA-, or None                     *)
(*   text      its whole text, for the keywords in it                      *)
(***************************************************************************)
EXTENDS VendorEvent

Form(format, confidence, when) ==
  [format |-> format, confidence |-> confidence, when |-> when]

Forms(log) ==
  << Form("plain_text", 0, "blank" \in log.marks),
     Form("cef", 100, "CEF" \in log.marks),
     Form("leef", 100, "LEEF" \in log.marks),
     Form("json", 100, "JSON" \in log.marks),
     Form("xml", 100, "XML" \in log.marks),
     Form("syslog", 95, "PRI" \in log.marks),
     Form("key_value", 90, Cardinality(DOMAIN log.pairs) >= 2),
     Form("csv", 75, log.columns >= 3),
     Form("plain_text", 25, TRUE) >>

(***************************************************************************)
(* FormatDetector.detect, with the confidence in hundredths: the formats   *)
(* that syslog may carry are looked for before syslog.                     *)
(***************************************************************************)
FormatOf(log) ==
  Forms(log)[Min({i \in DOMAIN Forms(log) : Forms(log)[i].when})]

-----------------------------------------------------------------------------
(***************************************************************************)
(* The fingerprints.  No source is a confidence of 0.                      *)
(***************************************************************************)
Source(vendor, product, confidence) ==
  [vendor |-> vendor, product |-> product, confidence |-> confidence]

NoSource == Source(None, None, 0)

\* the fields that shlex.split() finds
ShellFields(log) == IF log.balanced THEN log.pairs ELSE Empty

FortinetClues(log) ==
  LET fields == ShellFields(log)
  IN {clue \in {"devname", "devid", "logid", "type", "subtype", "vd"} :
        CASE clue = "devname" -> Has(Field(fields, "devname"), "^FGT")
          [] clue = "devid" -> HasAny(Field(fields, "devid"), {"^FGT", "^FGVM", "^FG"})
          [] OTHER -> clue \in DOMAIN fields}

ClueWeight ==
  [devname |-> 35, devid |-> 35, logid |-> 10, type |-> 5, subtype |-> 10, vd |-> 5]

(***************************************************************************)
(* The score is a sum of floating-point numbers, added in the order of the *)
(* clues.  The sums that are 0.50 on paper come out at 0.49999999999999994 *)
(* when 0.10 is added before 0.05.                                         *)
(***************************************************************************)
RoundsDown(clues) ==
  clues \ {"devname", "devid"} \in
    {{"logid", "type"}, {"logid", "vd"}, {"subtype", "vd"}}

FortinetSource(log) ==
  LET clues == FortinetClues(log)
      score == MapThenSumSet(LAMBDA c : ClueWeight[c], clues)
  IN IF score < 50 \/ (score = 50 /\ RoundsDown(clues)) THEN NoSource
     ELSE Source("Fortinet", "FortiGate", score)

CiscoSource(log) ==
  IF log.asa = None THEN NoSource ELSE Source("Cisco", "ASA", 100)

KnownTypes ==
  {"TRAFFIC", "THREAT", "SYSTEM", "CONFIG", "AUTH", "GLOBALPROTECT", "HIPMATCH",
   "URL", "CORRELATION", "GTP"}

PaloAltoSource(log) ==
  LET score == (IF Field(log.cells, "type") \in KnownTypes THEN 50 ELSE 0)
               + (IF Field(log.cells, "serial") # "" THEN 20 ELSE 0)
               + (IF log.dated THEN 20 ELSE 0)
               + (IF log.columns >= 15 THEN 10 ELSE 0)
  IN IF log.columns < 7 \/ score < 70 THEN NoSource
     ELSE Source("Palo Alto Networks", "PAN-OS", score)

(***************************************************************************)
(* SourceDetector.detect: the highest confidence, and the first of equals. *)
(***************************************************************************)
SourceOf(log) ==
  LET candidates == <<FortinetSource(log), CiscoSource(log), PaloAltoSource(log)>>
      best == Max({candidates[i].confidence : i \in 1 .. 3})
  IN IF "blank" \in log.marks THEN NoSource
     ELSE candidates[Min({i \in 1 .. 3 : candidates[i].confidence = best})]

-----------------------------------------------------------------------------
(***************************************************************************)
(* The event families.                                                     *)
(***************************************************************************)
Family(family, parser, confidence) ==
  [event_family |-> family, parser_id |-> parser, confidence |-> confidence]

UnknownFamily == Family(None, None, 100)

FortigateFamily(log) ==
  LET fields == ShellFields(log)
      type == Lower(Field(fields, "type"))
      subtype == Lower(Field(fields, "subtype"))
  IN IF type = "traffic" THEN Family("traffic", "fortinet.fortigate.traffic", 100)
     ELSE IF "vpn" \in {type, subtype}
       THEN Family("vpn", "fortinet.fortigate.vpn", 100)
     ELSE IF subtype \in {"router", "routing"}
       THEN Family("router", "fortinet.fortigate.router", 100)
     ELSE IF subtype = "system"
       THEN Family("system", "fortinet.fortigate.system", 100)
     ELSE UnknownFamily

AsaTrafficMessages == {"302013", "302014", "302015", "302016", "302020", "302021"}

VpnKeywords ==
  {"anyconnect", "webvpn", "vpn", "ipsec", "isakmp", "ikev1", "ikev2", "tunnel-group"}

RouterKeywords == {"bgp", "ospf", "eigrp", "rip", "routing", "route"}

SystemKeywords ==
  {"failover", "interface", "reload", "configuration", "config", "license", "memory",
   "cpu"}

\* the message number decides, then the keywords anywhere in the text
AsaFamily(log) ==
  IF log.asa \in AsaTrafficMessages THEN Family("traffic", "cisco.asa.traffic", 100)
  ELSE IF HasAny(log.text, VpnKeywords) THEN Family("vpn", "cisco.asa.vpn", 90)
  ELSE IF HasAny(log.text, RouterKeywords)
    THEN Family("router", "cisco.asa.router", 85)
  ELSE IF HasAny(log.text, SystemKeywords)
    THEN Family("system", "cisco.asa.system", 80)
  ELSE UnknownFamily

\* Mutant: the subtype "vpn" itself is forgotten.
OtherVpnSubtypes == {"sslvpn", "global-protect", "globalprotect"}

PanosVpnSubtypes == {"vpn", "sslvpn", "global-protect", "globalprotect"}

PanosFamily(log) ==
  LET type == Field(log.cells, "type")
      subtype == Field(log.cells, "subtype")
  IN IF log.columns < 5 THEN UnknownFamily
     ELSE IF type = "TRAFFIC" THEN Family("traffic", "paloalto.pan_os.traffic", 100)
     ELSE IF \/ type = "GLOBALPROTECT"
             \/ (type = "SYSTEM" /\ subtype \in PanosVpnSubtypes)
       THEN Family("vpn", "paloalto.pan_os.vpn", 100)
     ELSE IF type = "SYSTEM" /\ subtype \in {"routing", "bfd"}
       THEN Family("router", "paloalto.pan_os.router", 100)
     ELSE IF type = "SYSTEM" THEN Family("system", "paloalto.pan_os.system", 100)
     ELSE UnknownFamily

FamilyOf(log, product) ==
  CASE product = "FortiGate" -> FortigateFamily(log)
    [] product = "ASA" -> AsaFamily(log)
    [] product = "PAN-OS" -> PanosFamily(log)

-----------------------------------------------------------------------------
(***************************************************************************)
(* DetectionEngine.detect: without a source the engine stops there.        *)
(***************************************************************************)
DetectLog(log) ==
  LET source == SourceOf(log)
      family == FamilyOf(log, source.product)
      known == source # NoSource
  IN [format |-> FormatOf(log).format, vendor |-> source.vendor,
      product |-> source.product,
      event_family |-> IF known THEN family.event_family ELSE None,
      parser_id |-> IF known THEN family.parser_id ELSE None,
      confidence |-> IF known THEN Min({source.confidence, family.confidence})
                     ELSE 0]
=============================================================================
