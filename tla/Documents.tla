------------------------------ MODULE Documents ------------------------------
(***************************************************************************)
(* What ffc --snapshot-json and --snapshot-json-v2 publish of a collected  *)
(* posture (ui/dashboard_json.cpp, ui/dashboard_json_v2.cpp), with the     *)
(* recommendations of ui/dashboard_state.cpp, and what the browser's pages *)
(* make of the first of them (web/src/client).                             *)
(*                                                                         *)
(* A member of a document that may be null is a set: {} for null and {v}   *)
(* for the value v.  Counts stand for 0 and more; escaping, identity,      *)
(* time and the members that are always null are left out.                 *)
(***************************************************************************)
EXTENDS Posture, FiniteSetsExt

-----------------------------------------------------------------------------
(* Findings and recommendations. *)

DashboardFindings(state) == Blockers(state) \cup Reviews(state) \cup DashboardGaps(state)

Category(finding) ==
    CASE finding = "panic"                                -> "Isolation"
      [] finding \in {"missing", "state", "inactive"}     -> "Firewall"
      [] finding \in {"inbound", "forward", "masquerade"} -> "Exposure"
      [] finding = "listeners"                            -> "Listener"
      [] OTHER                                            -> "EvidenceGap"

\* Mutant: a listener is no more urgent than a change.
ListenersLast(category) ==
    CASE category = "Isolation" -> 800 [] category = "Firewall"    -> 750
      [] category = "Exposure"  -> 700 [] category = "EvidenceGap" -> 300
      [] OTHER -> 100

RecommendationPriority(category) ==
    CASE category = "Isolation" -> 800 [] category = "Firewall"    -> 750
      [] category = "Exposure"  -> 700 [] category = "Listener"    -> 600
      [] category = "Change"    -> 500 [] category = "EvidenceGap" -> 300
      [] OTHER -> 100

\* The findings that may stand first after the stable sort.
Primary(state) ==
    LET Urgency(f) == RecommendationPriority(Category(f))
        found      == DashboardFindings(state)
        highest    == Max({Urgency(f) : f \in found})
    IN  {f \in found : Urgency(f) = highest}

-----------------------------------------------------------------------------
(* The documents. *)

\* json_bool, json_count and json_string; nullable_bool and its companions.
Nullable(q, value) == When(Known(o, q), value)

Count(items) == Cardinality(Exposed(o) \cap items)

\* active_interface, active_zone and active_zone_v2: the first by name of these.
InterfaceZones == {z \in Zones : Interfaces(o, z) # {}}
ActiveZones    == IF InterfaceZones # {} THEN InterfaceZones ELSE {o["defaultZone"].value}
ActiveZonesV2  == IF InterfaceZones # {} THEN InterfaceZones
                  ELSE IF BoundZones(o) # {} THEN BoundZones(o)
                  ELSE {o["defaultZone"].value}

\* What the two documents have in common, and with it all of the first.
Summary ==
    [evidence      |-> OverallEvidence(o),
     mode          |-> o["mode"].value,
     defcon        |-> DefconReadiness(o),
     risk          |-> Risk(o),
     gaps          |-> Cardinality(DashboardGaps(o)),
     primary       |-> Primary(o),
     active        |-> Nullable("service", o["service"].value),
     enabled       |-> Nullable("enablement", o["enablement"].value),
     defaultZone   |-> Nullable("defaultZone", o["defaultZone"].value),
     ports         |-> Nullable("runtime", Count({"ports", "broadPorts"})),
     protocols     |-> Nullable("runtime", Count({"protocols"})),
     richRules     |-> Nullable("runtime", Count({"richRules"})),
     forward       |-> Nullable("runtime", Count({"forward"}) > 0),
     listeners     |-> Nullable("sockets", Cardinality(Reachable(o))),
     interface     |-> Nullable("activeZones", Classified(o)),
     zone          |-> Nullable("activeZones", ActiveZones),
     tunnel        |-> Nullable("tunnels", IF o["tunnels"].value THEN "a tunnel" ELSE "")]

Zone(q, z) ==
    LET listed == o[q].value[z]
    IN  [policy |-> listed.policy, sources |-> listed.sources, valid |-> listed.valid,
         target |-> listed.target,
         applicable |-> z \in Applicable(o), active |-> z \in BoundZones(o)]

Inventory(q) == Nullable(q, [z \in DOMAIN o[q].value |-> Zone(q, z)])

\* Mutant: zones are compared where both listings have them.
ComparedWhereBoth ==
    LET common == DOMAIN o["runtime"].value \cap DOMAIN o["permanent"].value
    IN  {z \in common : o["runtime"].value[z].policy # o["permanent"].value[z].policy}

\* A zone that one listing lacks has drifted, too.
Drifted ==
    LET runtime   == o["runtime"].value
        permanent == o["permanent"].value
    IN  {z \in DOMAIN runtime \cup DOMAIN permanent :
            z \in DOMAIN runtime \cap DOMAIN permanent => runtime[z] # permanent[z]}

\* What the second document adds.
Details ==
    [zone      |-> Nullable("activeZones", ActiveZonesV2),
     runtime   |-> Inventory("runtime"),
     permanent |-> Inventory("permanent"),
     policies  |-> Nullable("policies", o["policies"].value),
     drift     |-> When(Known(o, "runtime") /\ Known(o, "permanent"), Drifted),
     bindings  |-> Nullable("sockets", o["sockets"].value),
     findings  |-> DashboardFindings(o)]

-----------------------------------------------------------------------------
(* The pages. *)

\* display(): null and the empty string are shown as the fallback.
Display(member, fallback) == IF member \subseteq {""} THEN {fallback} ELSE member

\* yesNo() and activeState()
YesNo(member) == CASE member = {TRUE} -> "YES" [] member = {FALSE} -> "NO" [] OTHER -> "UNKNOWN"

\* The firewall, exposure, network and overview pages.
Pages ==
    LET document == Summary
    IN  [active    |-> YesNo(document.active),
         enabled   |-> YesNo(document.enabled),
         forward   |-> YesNo(document.forward),
         ports     |-> document.ports,
         protocols |-> document.protocols,
         richRules |-> document.richRules,
         listeners |-> document.listeners,
         tunnel    |-> Display(document.tunnel, "NONE")]
=============================================================================
