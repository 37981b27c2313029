--------------------------- MODULE Normalization ---------------------------
(***************************************************************************)
(* map_legacy_common_event and validate_common_event: a legacy event       *)
(* becomes a CommonEvent or the call raises.                               *)
(*                                                                         *)
(* A CommonEvent is its filled slots ("src_endpoint.port", ...), its       *)
(* details and vendor fields, and its status.  A nested model whose slots  *)
(* are all None and a nested model that is None are the same here.         *)
(***************************************************************************)
EXTENDS LegacyEvent, SequencesExt

\* _has_meaningful_value of the mapper
Meaningful(v) == v \notin {None, Blank}

-----------------------------------------------------------------------------
(***************************************************************************)
(* Conversions.                                                            *)
(***************************************************************************)
TextValue(v) == IF Is("text", v) /\ v # Blank THEN v ELSE None

ConvertInteger(v) ==
  IF Is("int", v) THEN v
  ELSE IF Is("text", v) /\ v[2] \in DOMAIN Numerals THEN Number(Numerals[v[2]])
  ELSE None

IdentifierValue(v) ==
  IF Is("int", v) THEN Text(ToString(v[2])) ELSE TextValue(v)

ConvertTimestamp(v) ==
  IF Is("time", v) THEN v
  ELSE IF Is("text", v) /\ v[2] \in DOMAIN IsoTimes THEN Time(IsoTimes[v[2]])
  ELSE None

-----------------------------------------------------------------------------
(***************************************************************************)
(* What kind of event it is.  Texts are compared without case.             *)
(***************************************************************************)
Folded(v) == IF TextValue(v) = None THEN None ELSE Lower(v[2])

Says(legacy, key, words) == Folded(legacy.fields[key]) \in words

IsProduct(legacy, vendor, product) ==
  Says(legacy, "vendor", {vendor}) /\ Says(legacy, "product", {product})

IsTraffic(legacy) ==
  Says(legacy, "category", {"traffic"}) \/ Says(legacy, "type", {"traffic"})

RoutingSubtypes ==
  {"bgp_neighbor_state", "bgp_route_update", "eigrp_neighbor_state",
   "isis_adjacency_state", "ospf_adjacency_change", "ospf_neighbor_state",
   "ospf_route_update", "routing_table_change"}

RoutingObjects ==
  {"bfd_session", "network_prefix", "pbf_rule", "route", "route_table",
   "routing_daemon", "routing_neighbor", "routing_peer", "routing_protocol",
   "virtual_router"}

\* Mutant: an event is about routing only when its category or type says so.
IsRoutingByCategory(legacy) ==
  Says(legacy, "category", {"router"}) \/ Says(legacy, "type", {"routing"})

IsRouting(legacy) ==
  \/ Says(legacy, "category", {"router"})
  \/ Says(legacy, "type", {"routing"})
  \/ Says(legacy, "subtype", RoutingSubtypes)
  \/ Says(legacy, "object_type", RoutingObjects)

(***************************************************************************)
(* The contexts in which details fill slots.                               *)
(***************************************************************************)
Contexts(legacy) ==
  LET traffic == IsTraffic(legacy)
      fortigate == IsProduct(legacy, "fortinet", "fortigate")
      asa == IsProduct(legacy, "cisco", "asa")
      panos == IsProduct(legacy, "palo alto networks", "pan-os")
      nat == /\ asa \/ IsProduct(legacy, "cisco", "ios")
             /\ Says(legacy, "subtype", {"nat_translation"})
             /\ Says(legacy, "object_type", {"nat_translation"})
  IN {c \in {"fortigate traffic", "fortigate device", "asa traffic",
             "asa nat traffic", "panos traffic", "panos device",
             "cisco nat"} :
        CASE c = "fortigate traffic" -> fortigate /\ traffic
          [] c = "fortigate device"  -> /\ fortigate /\ ~traffic
                                        /\ Says(legacy, "category", {"system"})
                                        /\ Says(legacy, "type", {"device"})
          [] c = "asa traffic"       -> asa /\ traffic
          [] c = "asa nat traffic"   -> asa /\ traffic /\ nat
          [] c = "panos traffic"     -> panos /\ traffic
          [] c = "panos device"      -> /\ panos
                                        /\ Says(legacy, "category",
                                             {"traffic", "router", "system"})
          [] c = "cisco nat"         -> nat}

\* a slot, the context in which a detail fills it, and the conversion
Fills(context, as, pairs) ==
  {[context |-> context, as |-> as, detail |-> pair[1], slot |-> pair[2]] :
     pair \in pairs}

Interfaces ==
  {<<"source_interface", "src_endpoint.interface">>,
   <<"destination_interface", "dst_endpoint.interface">>}

DetailSlots ==
  UNION {
    Fills("fortigate traffic", "text", Interfaces \cup
      {<<"virtual_domain", "device.virtual_domain">>,
       <<"policy_name", "policy.name">>,
       <<"nat_disposition", "nat.disposition">>}),
    Fills("fortigate traffic", "identifier",
      {<<"session_id", "network.session_id">>, <<"policy_id", "policy.id">>}),
    Fills("fortigate device", "identifier", {<<"device_id", "device.id">>}),
    Fills("fortigate device", "text",
      {<<"device_name", "device.name">>,
       <<"virtual_domain", "device.virtual_domain">>}),
    Fills("asa traffic", "text", Interfaces),
    Fills("asa traffic", "identifier",
      {<<"connection_id", "network.session_id">>}),
    Fills("asa traffic", "integer", {<<"bytes", "network.bytes_total">>}),
    Fills("panos traffic", "text",
      {<<"inbound_interface", "src_endpoint.interface">>,
       <<"outbound_interface", "dst_endpoint.interface">>,
       <<"source_zone", "src_endpoint.zone">>,
       <<"destination_zone", "dst_endpoint.zone">>,
       <<"rule", "policy.name">>, <<"rule_uuid", "policy.uuid">>,
       <<"nat_src_ip", "nat.translated_src_ip">>,
       <<"nat_dst_ip", "nat.translated_dst_ip">>}),
    Fills("panos traffic", "identifier",
      {<<"session_id", "network.session_id">>, <<"policy_id", "policy.id">>}),
    Fills("panos traffic", "integer",
      {<<"bytes_total", "network.bytes_total">>,
       <<"packets_total", "network.packets_total">>,
       <<"elapsed_seconds", "network.duration_seconds">>,
       <<"nat_src_port", "nat.translated_src_port">>,
       <<"nat_dst_port", "nat.translated_dst_port">>}),
    Fills("panos device", "text",
      {<<"device_name", "device.name">>,
       <<"serial_number", "device.serial_number">>,
       <<"virtual_system", "device.virtual_system">>}),
    Fills("cisco nat", "text",
      {<<"translated_ip", "nat.translated_src_ip">>}),
    Fills("cisco nat", "integer",
      {<<"translated_port", "nat.translated_src_port">>}),
    Fills("asa nat traffic", "text", {<<"nat_type", "nat.type">>})}

(***************************************************************************)
(* The slots the scalar fields fill.                                       *)
(***************************************************************************)
FieldSlot ==
  [timestamp |-> "timestamps.event_time",
   vendor |-> "vendor.vendor", product |-> "vendor.product",
   vendor_event_id |-> "vendor.vendor_event_id",
   category |-> "classification.category", type |-> "classification.type",
   subtype |-> "classification.subtype",
   outcome |-> "classification.outcome",
   severity |-> "classification.severity",
   action |-> "classification.action", reason |-> "classification.reason",
   src_ip |-> "src_endpoint.ip", src_port |-> "src_endpoint.port",
   dst_ip |-> "dst_endpoint.ip", dst_port |-> "dst_endpoint.port",
   protocol |-> "network.protocol", user |-> "actor.user",
   object_type |-> "resource.type", object_name |-> "resource.name",
   u_id |-> "traceability.u_id", raw_id |-> "traceability.raw_id"]

Slots ==
  {FieldSlot[k] : k \in DOMAIN FieldSlot} \cup {row.slot : row \in DetailSlots}

EndpointKeys == {"src_ip", "src_port", "dst_ip", "dst_port"}
PortKeys == {"src_port", "dst_port"}

(***************************************************************************)
(* What the mapper puts into the slot of a scalar field.  A routing event  *)
(* has no endpoints; blank texts are None where the mapper looks.          *)
(***************************************************************************)
FieldValue(legacy, key) ==
  LET v == legacy.fields[key]
  IN CASE key \in EndpointKeys /\ IsRouting(legacy) -> None
       [] key = "timestamp" -> ConvertTimestamp(v)
       [] key \in PortKeys /\ ~IsRouting(legacy) -> ConvertInteger(v)
       [] key \in {"src_ip", "dst_ip", "protocol", "user", "object_type",
                   "object_name"} /\ ~(key \in EndpointKeys /\ IsRouting(legacy))
            -> IF Meaningful(v) THEN v ELSE None
       [] OTHER -> v

DetailValue(legacy, row) ==
  LET v == Lookup(legacy.details, row.detail)
  IN CASE row.as = "text" -> TextValue(v)
       [] row.as = "identifier" -> IdentifierValue(v)
       [] row.as = "integer" -> ConvertInteger(v)

FieldOf == [slot \in {FieldSlot[k] : k \in ScalarKeys} |->
              CHOOSE k \in ScalarKeys : FieldSlot[k] = slot]

SlotValue(legacy, slot, rows) ==
  LET filling == {row \in rows : row.slot = slot}
  IN IF slot \in DOMAIN FieldOf THEN FieldValue(legacy, FieldOf[slot])
     ELSE IF filling # {}
       THEN DetailValue(legacy, CHOOSE row \in filling : TRUE)
     ELSE None

-----------------------------------------------------------------------------
(***************************************************************************)
(* Preservation of what finds no slot, under details.unmapped_fields.      *)
(***************************************************************************)
UnmappedFields(details) ==
  LET existing == Lookup(details, "unmapped_fields")
  IN IF existing = None THEN Empty
     ELSE IF Is("mapping", existing) THEN existing[2]
     ELSE Put(Empty, "legacy_unmapped_fields", existing)

(***************************************************************************)
(* A legacy event is one dictionary: each key is there once, so what is in *)
(* "extra" is no known field and has a name of its own.                    *)
(***************************************************************************)
EventFields == {"fields", "details", "vendor_fields", "extra"}

IsList(s) == s \in Seq(ToSet(s))

IsDictionary(legacy) ==
  /\ IsRecord(legacy, EventFields)
  /\ IsRecord(legacy.fields, ScalarKeys)
  /\ IsFiniteSet(DOMAIN legacy.details)
  /\ IsFiniteSet(DOMAIN UnmappedFields(legacy.details))
  /\ IsFiniteSet(DOMAIN legacy.vendor_fields)
  /\ IsList(legacy.extra)
  /\ \A i \in DOMAIN legacy.extra :
       /\ legacy.extra[i][1] \in STRING \ LegacyEventKeys
       /\ \A j \in DOMAIN legacy.extra :
            legacy.extra[j][1] = legacy.extra[i][1] => i = j

(***************************************************************************)
(* The names an entry gets whose own name is taken.                        *)
(***************************************************************************)
Prefixed(key) == "legacy_" \o key

Suffixed(key, n) == Prefixed(key) \o "_" \o ToString(n)

\* Mutant: a suffix is tried only once.
OneCollisionKey(values, key) ==
  IF key \notin DOMAIN values THEN key ELSE Prefixed(key)

CollisionSafeKey(values, key) ==
  LET free == {n \in 2 .. Cardinality(DOMAIN values) + 2 :
                 Suffixed(key, n) \notin DOMAIN values}
  IN IF key \notin DOMAIN values THEN key
     ELSE IF Prefixed(key) \notin DOMAIN values THEN Prefixed(key)
     ELSE Suffixed(key, Min(free))

Preserve(details, entry) ==
  LET values == UnmappedFields(details)
  IN Put(details, "unmapped_fields",
         Mapping(Put(values, CollisionSafeKey(values, entry[1]), entry[2])))

\* Mutant: a port that does not convert is forgotten.
UnplacedWithoutPorts(legacy, key) ==
  LET v == legacy.fields[key]
  IN /\ Meaningful(v)
     /\ \/ key \in EndpointKeys /\ IsRouting(legacy)
        \/ key = "timestamp" /\ ConvertTimestamp(v) = None

(***************************************************************************)
(* The scalar fields whose value the mapper could not place.               *)
(***************************************************************************)
Unplaced(legacy, key) ==
  LET v == legacy.fields[key]
  IN /\ Meaningful(v)
     /\ \/ key \in EndpointKeys /\ IsRouting(legacy)
        \/ key \in PortKeys /\ ConvertInteger(v) = None
        \/ key = "timestamp" /\ ConvertTimestamp(v) = None

UnplacedEntry(legacy, key) ==
  IF Unplaced(legacy, key) THEN <<<<key, legacy.fields[key]>>>> ELSE <<>>

\* what is preserved, in the order of the calls
Preserved(legacy) ==
  UnplacedEntry(legacy, "timestamp")
    \o UnplacedEntry(legacy, "src_ip") \o UnplacedEntry(legacy, "src_port")
    \o UnplacedEntry(legacy, "dst_ip") \o UnplacedEntry(legacy, "dst_port")
    \o legacy.extra

-----------------------------------------------------------------------------
MapLegacyEvent(legacy, status) ==
  LET contexts == Contexts(legacy)
      rows == {row \in DetailSlots : row.context \in contexts}
  IN [mapping_status |-> status,
      slots |-> [slot \in Slots |-> SlotValue(legacy, slot, rows)],
      details |-> FoldLeft(Preserve, legacy.details, Preserved(legacy)),
      vendor_fields |-> legacy.vendor_fields]

(***************************************************************************)
(* The types pydantic checks, and the validators.  Every slot that is not  *)
(* a number or a time is a text; the numbers have a range.                 *)
(***************************************************************************)
Ports == {"src_endpoint.port", "dst_endpoint.port",
          "nat.translated_src_port", "nat.translated_dst_port"}

MaxPort == 65535

Counters == {"network.bytes_total", "network.packets_total",
             "network.duration_seconds"}

Required == {"traceability.u_id", "traceability.raw_id", "vendor.vendor",
             "vendor.product"}

WellTyped(slot, v) ==
  IF v = None THEN slot \notin Required
  ELSE IF slot = "timestamps.event_time" THEN Is("time", v) /\ v[2] \in Int
  ELSE IF slot \in Ports \cup Counters THEN Is("int", v)
  ELSE Is("text", v)

NonEmptyText(common) == \A slot \in Required : common.slots[slot] # Blank

\* Mutant: ports are checked from below only.
LowPorts(common) ==
  \A slot \in Ports :
    common.slots[slot] # None => common.slots[slot][2] >= 0

ValidPorts(common) ==
  \A slot \in Ports :
    common.slots[slot] # None => common.slots[slot][2] \in 0 .. MaxPort

NonNegative(common) ==
  \A slot \in Counters :
    common.slots[slot] # None => common.slots[slot][2] >= 0

ValidateEvent(common) ==
  /\ NonEmptyText(common)
  /\ ValidPorts(common)
  /\ NonNegative(common)

Accepted(common) ==
  /\ \A slot \in Slots : WellTyped(slot, common.slots[slot])
  /\ ValidateEvent(common)
=============================================================================
