----------------------------- MODULE Assessment -----------------------------
(***************************************************************************)
(* What the program concludes from one collected FirewallState: which      *)
(* zones apply (firewall_state.cpp), the readiness report and its exit     *)
(* code (readiness.cpp, command_executor.cpp), the threat assessment       *)
(* (threat_assessment.cpp) and the dashboard's risk (dashboard_state.cpp). *)
(*                                                                         *)
(* A FirewallState is a function o from observations to records            *)
(*    [status |-> "Available" | "Partial" | "Unavailable", value |-> ...]. *)
(* A zone is listed as [policy, sources, valid, target]: the exposures its *)
(* fields show, its source bindings, whether no value was unrecognised     *)
(* (details_valid), and whether a target was found.                        *)
(* Texts are left out: a check is its label and level, a finding its kind  *)
(* and title.                                                              *)
(***************************************************************************)
EXTENDS Integers, FiniteSets, Functions

CONSTANTS Zones,    \* names of firewalld zones
          Devices,  \* physical transport devices
          Wifi,     \* those of them that are Wi-Fi
          Sources   \* source bindings (address ranges)

ASSUME DevicesAssumption == /\ Wifi \subseteq Devices
                            /\ IsFiniteSet(Devices) /\ IsFiniteSet(Sources)

\* What a zone's fields can open; "broadPorts" is a port range of 1024 or more.
Selectors == {"services", "ports", "broadPorts", "protocols", "sourcePorts", "richRules"}
Exposures == Selectors \cup {"forwardPorts", "masquerade", "forward", "accept"}

Firewalld == {"installation", "service", "enablement", "panic", "config", "logDenied",
              "defaultZone", "activeZones", "runtime", "permanent", "policies"}
Observations == Firewalld \cup
    {"mode", "tunnels", "sockets", "kernelJournal", "firewalldJournal",
     "networkManager", "timeSync", "journald"}

When(condition, x) == IF condition THEN {x} ELSE {}

Known(o, q) == o[q].status = "Available"
Hostile(o) == o["mode"].value = "HostileNetwork"

-----------------------------------------------------------------------------
(* firewall_state.cpp: the zones that apply. *)

Interfaces(o, z) == o["activeZones"].value.interfaces[z]
ZoneSources(o, z) == o["activeZones"].value.sources[z]
Members(o, z) == Cardinality(Interfaces(o, z)) + Cardinality(ZoneSources(o, z))
Classified(o) == UNION {Interfaces(o, z) : z \in Zones}
Unclassified(o) == o["networkManager"].value \ Classified(o)

DefaultApplies(o) == \/ ~Known(o, "networkManager")
                     \/ Unclassified(o) # {}

BoundByInterface(o) == {z \in Zones : Interfaces(o, z) # {}}   \* a mutant

BoundZones(o) == {z \in Zones : Interfaces(o, z) \cup ZoneSources(o, z) # {}}
Applicable(o) ==
    BoundZones(o) \cup
    {z \in {o["defaultZone"].value} : DefaultApplies(o) /\ Known(o, "defaultZone")}

Listed(o) == DOMAIN o["runtime"].value

DetailsKnown(o) == /\ \A q \in {"activeZones", "runtime", "defaultZone"} : Known(o, q)
                   /\ Applicable(o) \subseteq Listed(o)

\* The exposures of the zones that apply, as far as they are listed.
Exposed(o) == UNION {o["runtime"].value[z].policy : z \in Applicable(o) \cap Listed(o)}

ForwardingPath(o) == \E z \in Applicable(o) \cap Listed(o) :
    "forward" \in o["runtime"].value[z].policy /\ Members(o, z) > 1

Drift(o) == o["runtime"].value # o["permanent"].value

-----------------------------------------------------------------------------
(* Listeners are the kinds of binding `ss` shows beyond loopback. *)
Reachable(o) == o["sockets"].value \cap {"attributed", "anonymous"}

\* DefensivePostureCollector and the backend report an issue exactly for these.
Issues(o, depth) ==
    \/ ~Known(o, "installation") \/ ~o["service"].value
    \/ \E q \in {"panic", "config", "logDenied", "defaultZone", "activeZones", "runtime",
                 "mode", "tunnels", "sockets", "networkManager"} : ~Known(o, q)
    \/ ~o["config"].value
    \/ ~Known(o, "kernelJournal") /\ ~Known(o, "firewalldJournal")
    \/ /\ depth = "Complete"
       /\ \E q \in {"permanent", "policies", "timeSync", "journald"} : ~Known(o, q)

-----------------------------------------------------------------------------
(* readiness.cpp: one level per check. *)

JudgedSafe(o, q, level) == IF Known(o, q) THEN level ELSE "Pass"   \* a mutant

Judged(o, q, level) == IF Known(o, q) THEN level ELSE "Warn"

PassIf(ok, level) == IF ok THEN "Pass" ELSE level
Stricter(o) == IF Hostile(o) THEN "Fail" ELSE "Warn"

ServiceChecks(o) ==
    [mode        |-> PassIf(Hostile(o), "Info"),
     installed   |-> PassIf(Known(o, "installation"), "Fail"),
     active      |-> Judged(o, "service", PassIf(o["service"].value, "Fail")),
     enabled     |-> Judged(o, "enablement", PassIf(o["enablement"].value, "Warn")),
     panic       |-> Judged(o, "panic", PassIf(~o["panic"].value, "Fail")),
     config      |-> Judged(o, "config", PassIf(o["config"].value, "Fail")),
     defaultZone |-> Judged(o, "defaultZone", "Pass")]

NetworkChecks(o) ==
    [manager    |-> Judged(o, "networkManager", "Pass"),
     transport  |-> IF o["networkManager"].value \cap Wifi # {} THEN "Warn" ELSE "Info",
     tunnels    |-> Judged(o, "tunnels", PassIf(o["tunnels"].value, "Info")),
     assigned   |-> Judged(o, "activeZones",
                       IF Classified(o) # {} THEN "Pass"
                       ELSE IF BoundZones(o) = {} THEN "Warn" ELSE "Info"),
     classified |-> Judged(o, "networkManager",
                       Judged(o, "activeZones", PassIf(Unclassified(o) = {}, "Warn"))),
     sources    |-> Judged(o, "activeZones",
                       PassIf(\A z \in Zones : ZoneSources(o, z) = {}, "Warn"))]

EvidenceChecks(o) ==
    [listeners |-> Judged(o, "sockets", PassIf(Reachable(o) = {}, Stricter(o))),
     multicast |-> Judged(o, "sockets",
                      IF "multicast" \in o["sockets"].value /\ Hostile(o)
                      THEN "Warn" ELSE "Info"),
     denials   |-> Judged(o, "kernelJournal", PassIf(o["kernelJournal"].value = 0, "Warn"))]

InboundPorts(o) == Exposed(o) \cap {"services", "ports", "broadPorts"}   \* a mutant

Inbound(o) == Exposed(o) \cap Selectors

ZoneChecks(o) ==
    LET Detail(level) == IF DetailsKnown(o) THEN level ELSE "Warn"
    IN  [inbound      |-> Detail(PassIf(Inbound(o) = {}, Stricter(o))),
         richRules    |-> Detail(PassIf("richRules" \notin Exposed(o), Stricter(o))),
         target       |-> Detail(PassIf("accept" \notin Exposed(o), "Fail")),
         forwardPorts |-> Detail(PassIf("forwardPorts" \notin Exposed(o), "Warn")),
         forwarding   |-> Detail(IF ForwardingPath(o) THEN Stricter(o)
                                 ELSE PassIf("forward" \notin Exposed(o), "Info")),
         masquerade   |-> Detail(PassIf("masquerade" \notin Exposed(o), Stricter(o))),
         coverage     |-> Detail("Info")]

CollectionChecks(o, depth) ==
    [policies |-> Judged(o, "policies", PassIf(~o["policies"].value, "Warn")),
     aligned  |-> Judged(o, "runtime", Judged(o, "permanent", PassIf(~Drift(o), "Warn"))),
     issues   |-> IF Issues(o, depth) THEN "Warn" ELSE "Info"]

Levels(o, depth) == UNION {Range(ServiceChecks(o)), Range(NetworkChecks(o)),
    Range(EvidenceChecks(o)), Range(ZoneChecks(o)), Range(CollectionChecks(o, depth))}

ReadinessExitCode(o, depth) == IF "Fail" \in Levels(o, depth) THEN 2
                               ELSE IF "Warn" \in Levels(o, depth) THEN 1 ELSE 0

-----------------------------------------------------------------------------
(* threat_assessment.cpp: the set of findings <<kind, title>>. *)

Gap(title) == <<"CoverageGap", title>>

CollectionGaps(o) ==
    {Gap(q) : q \in {p \in {"installation", "activeZones", "runtime", "permanent",
                            "policies", "panic"} : ~Known(o, p)}}
    \cup When(Known(o, "installation") /\ ~o["service"].value, Gap("service"))
    \cup When(Known(o, "policies") /\ o["policies"].value, Gap("policy details"))

DenialFinding(o) ==
    CASE o["kernelJournal"].status = "Partial" -> Gap("kernel journal truncated")
      [] o["kernelJournal"].status = "Unavailable" -> Gap("kernelJournal")
      [] Known(o, "kernelJournal") /\ o["kernelJournal"].value > 0 ->
            <<"CandidateAlert", "denied packets">>
      [] OTHER -> IF ~Known(o, "logDenied") THEN Gap("logDenied")
                  ELSE IF o["logDenied"].value = "off" THEN Gap("denials are not logged")
                  ELSE <<"NoAlert", "no denied packets">>

ListenerFindings(o) ==
    IF ~Known(o, "sockets") THEN {Gap("sockets")}
    ELSE IF Reachable(o) = {} THEN {<<"NoAlert", "no listeners">>}
    ELSE {<<"Exposure", "listeners">>} \cup
         When("anonymous" \in Reachable(o), Gap("listener attribution"))

QualityFindings(o) ==
    {Gap(q) : q \in {p \in {"timeSync", "journald"} : ~Known(o, p)}}
    \cup When(Known(o, "timeSync") /\ ~o["timeSync"].value, Gap("clock"))
    \cup {<<"ScopeLimit", "outbound discovery">>}

PolicyFindings(o) ==
    When("broadPorts" \in Exposed(o), <<"Exposure", "broadPorts">>)
    \cup {<<"Exposure", e>> : e \in {x \in Exposed(o) : /\ DetailsKnown(o)
                               /\ x \in {"protocols", "sourcePorts", "richRules"}}}
    \cup When("forward" \in Exposed(o),
              IF ForwardingPath(o) THEN <<"Exposure", "forwarding path">>
              ELSE <<"ScopeLimit", "forwarding">>)

DriftFindings(o) ==
    When(Known(o, "runtime") /\ Known(o, "permanent") /\ Drift(o),
         <<"CandidateAlert", "drift">>)

JournalFindings(o) ==
    When(o["firewalldJournal"].status = "Partial", Gap("firewalld journal truncated"))
    \cup When(Known(o, "firewalldJournal") /\ o["firewalldJournal"].value > 0,
              <<"NoAlert", "firewalld journal">>)

Findings(o) == UNION {CollectionGaps(o), {DenialFinding(o)}, ListenerFindings(o),
    QualityFindings(o), PolicyFindings(o), DriftFindings(o), JournalFindings(o)}

-----------------------------------------------------------------------------
(* dashboard_state.cpp: evidence, blockers, reviews and the risk they make. *)

ReviewedPolicy == {"ports", "broadPorts", "protocols", "richRules", "accept"}

ComponentStatus(o) ==
    LET Binary(q) == IF Known(o, q) THEN "Available" ELSE "Unavailable"
    IN  [runtime |-> o["runtime"].status, permanent |-> o["permanent"].status,
         networkManager |-> Binary("networkManager"), profiles |-> "Unavailable",
         sockets |-> Binary("sockets"), kernelJournal |-> Binary("kernelJournal"),
         firewalldJournal |-> Binary("firewalldJournal"), vpnRoute |-> "Unavailable"]

DashboardGaps(o) ==
    {c \in DOMAIN ComponentStatus(o) : ComponentStatus(o)[c] # "Available"}
    \cup When(~DetailsKnown(o), "applicablePolicy")

Blockers(o) ==
    When(~Known(o, "installation"), "missing")
    \cup When(Known(o, "installation") /\ ~Known(o, "service"), "state")
    \cup When(Known(o, "service") /\ ~o["service"].value, "inactive")
    \cup When(Known(o, "panic") /\ o["panic"].value, "panic")

Reviews(o) ==
    When(DetailsKnown(o) /\ Exposed(o) \cap ReviewedPolicy # {}, "inbound")
    \cup {r \in {"forward", "masquerade"} : DetailsKnown(o) /\ r \in Exposed(o)}
    \cup When(Known(o, "sockets") /\ Reachable(o) # {}, "listeners")

Risk(o) == IF Blockers(o) # {} THEN "Blocked"
           ELSE IF Reviews(o) # {} THEN "Review" ELSE "Ready"

DefconReadiness(o) == IF ~Hostile(o) THEN "NotEvaluated"
                      ELSE IF Risk(o) = "Ready" THEN "Ready" ELSE "NotReady"

OverallEvidence(o) == IF \E c \in DOMAIN ComponentStatus(o) :
                            ComponentStatus(o)[c] = "Available"
                      THEN "Partial" ELSE "Unavailable"
=============================================================================
