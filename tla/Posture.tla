------------------------------- MODULE Posture -------------------------------
(***************************************************************************)
(* One posture collection: FirewalldCommandBackend::inspect inside         *)
(* DefensivePostureCollector::inspect. Some twenty commands are run one    *)
(* after another, each of them can fail or answer with output that is not  *)
(* recognised, noticed by the code or not, and the host can be changed     *)
(* between any two of them by an administrator, by NetworkManager or by    *)
(* firewalld itself. Nothing in the code makes the answers belong to one   *)
(* moment; the properties say what the conclusions of module Assessment    *)
(* are worth all the same.                                                 *)
(*                                                                         *)
(* The host is external: its fields are what the commands can see of it.   *)
(***************************************************************************)
EXTENDS Assessment, Sequences

CONSTANTS Baseline,    \* a zone that is the default in the first state
          Traffic,     \* the devices connected in the first state
          Moving,      \* bound: exposures that change during the collection
          MaxChanges,  \* bound: changes of the host during the collection
          MaxDisturbances  \* bound: changes, and commands that do not answer, together

\* No default zone was named; firewalld has no zone of this name.
NoZone == "no zone"

ASSUME PostureAssumption == /\ NoZone \notin Zones
                            /\ Baseline \in Zones /\ Traffic \subseteq Devices
                            /\ Moving \subseteq Exposures
                            /\ MaxChanges \in Nat /\ MaxDisturbances \in Nat

VARIABLES host,   \* what is true of the host now
          seen,   \* history: the hosts there were during the collection
          depth,  \* "Landing" or "Complete"
          o,      \* the FirewallState collected so far
          next,   \* index in Order of the next command
          misread,  \* history: queries taken as available without all their output
          changes, faults

vars == <<host, seen, depth, o, next, misread, changes, faults>>

-----------------------------------------------------------------------------
(* The host. *)

ZoneConfigs == [policy : SUBSET Exposures, sources : SUBSET Sources]

Hosts ==
    [running : BOOLEAN, enabled : BOOLEAN, panic : BOOLEAN, configValid : BOOLEAN,
     logDenied : {"off", "all"}, default : Zones, binding : [Devices -> SUBSET Zones],
     connected : SUBSET Devices, runtime : [Zones -> ZoneConfigs],
     permanent : [Zones -> ZoneConfigs], policies : BOOLEAN,
     mode : {"Normal", "HostileNetwork"}, tunnel : BOOLEAN,
     listeners : SUBSET {"attributed", "anonymous", "multicast"},
     denials : 0..2, activity : 0..2, timeSync : BOOLEAN, journald : BOOLEAN]

\* Every device with traffic is bound to these zones.
BoundTo(zones) == [d \in Devices |-> IF d \in Traffic THEN zones ELSE {}]

\* A host with nothing to report; journals hold 0 no, 1 some, 2 too many entries.
Quiet ==
    LET closed == [z \in Zones |-> [policy |-> {}, sources |-> {}]]
    IN  [running |-> TRUE, enabled |-> TRUE, panic |-> FALSE, configValid |-> TRUE,
         logDenied |-> "all", default |-> Baseline,
         binding |-> BoundTo({Baseline}),
         connected |-> Traffic, runtime |-> closed, permanent |-> closed,
         policies |-> FALSE, mode |-> "Normal", tunnel |-> FALSE, listeners |-> {},
         denials |-> 0, activity |-> 0, timeSync |-> TRUE, journald |-> TRUE]

Flip(set, x) == IF x \in set THEN set \ {x} ELSE set \cup {x}

\* The hosts one change away: one setting, one field of a zone, one binding. The
\* permanent listing is only compared, so one field stands for all of them there.
Changed(h, exposures) ==
    {[h EXCEPT ![f] = ~h[f]] : f \in {"running", "enabled", "panic", "configValid",
                                      "policies", "tunnel", "timeSync", "journald"}}
    \cup {[h EXCEPT !.logDenied = l] : l \in {"off", "all"} \ {h.logDenied}}
    \cup {[h EXCEPT !.default = z] : z \in Zones \ {h.default}}
    \cup {[h EXCEPT !.mode = m] : m \in {"Normal", "HostileNetwork"} \ {h.mode}}
    \cup {[h EXCEPT !.connected = Flip(@, d)] : d \in Devices}
    \cup {[h EXCEPT !.binding[d] = b] : d \in Devices, b \in {{}} \cup {{z} : z \in Zones}}
    \cup {[h EXCEPT !.runtime[z].policy = Flip(@, e)] : z \in Zones, e \in exposures}
    \cup {[h EXCEPT !.runtime[z].sources = Flip(@, s)] : z \in Zones, s \in Sources}
    \cup {[h EXCEPT !.permanent[z].policy = Flip(@, "services")] : z \in Zones}
    \cup {[h EXCEPT !.listeners = Flip(@, k)] : k \in {"attributed", "anonymous", "multicast"}}
    \cup {[h EXCEPT ![f] = n] : f \in {"denials", "activity"}, n \in 0..2}

\* Hosts whose zones are configured for good: runtime and permanent are the same.
Saved(hosts) == {[h EXCEPT !.permanent = h.runtime] : h \in hosts}

\* Zones of which one accepts or forwards, and at most one is bound to sources.
OneOpen ==
    {[x \in Zones |-> [policy |-> {e \in {p} : x = open},
                       sources |-> IF x = bound THEN Sources ELSE {}]] :
        open \in Zones, bound \in Zones \cup {NoZone}, p \in {"accept", "forward"}}

\* Every way traffic can be spread over them: where the zones that apply matter most.
Layout(default, connected, zones, runtime) ==
    [Quiet EXCEPT !.default = default, !.connected = connected, !.runtime = runtime,
                  !.binding = BoundTo(zones)]

Layouts == {Layout(z, c, b, r) : z \in Zones, c \in {{}, Traffic},
                                 b \in {{}} \cup {{x} : x \in Zones}, r \in OneOpen}

-----------------------------------------------------------------------------
(* What a command answers. *)

Order == <<"installation", "service", "enablement", "panic", "config", "logDenied",
           "defaultZone", "activeZones", "runtime", "permanent", "policies", "mode",
           "tunnels", "sockets", "kernelJournal", "firewalldJournal", "networkManager",
           "timeSync", "journald">>

Nowhere == [z \in Zones |-> {}]
NoZones == [z \in {} |-> {}]
\* The member initialisers of FirewallState: what a field is without an answer.
Blank == [q \in Observations |->
    [status |-> "Unavailable",
     value |-> CASE q = "activeZones" -> [interfaces |-> Nowhere, sources |-> Nowhere]
                 [] q \in {"runtime", "permanent"} -> NoZones
                 [] q = "defaultZone" -> NoZone
                 [] q = "logDenied" -> ""
                 [] q \in {"sockets", "networkManager"} -> {}
                 [] q \in {"kernelJournal", "firewalldJournal"} -> 0
                 [] q = "mode" -> "HostileNetwork"
                 [] OTHER -> FALSE]]

Listing(config) == [z \in Zones |-> [policy |-> config[z].policy,
                                     sources |-> config[z].sources, valid |-> TRUE,
                                     target |-> TRUE]]

Truth(h, q) ==
    CASE q = "installation" -> TRUE
      [] q = "service" -> h.running
      [] q = "enablement" -> h.enabled
      [] q = "panic" -> h.panic
      [] q = "config" -> h.configValid
      [] q = "logDenied" -> h.logDenied
      [] q = "defaultZone" -> h.default
      [] q = "activeZones" ->
            [interfaces |-> [z \in Zones |-> {d \in Devices : z \in h.binding[d]}],
             sources |-> [z \in Zones |-> h.runtime[z].sources]]
      [] q = "runtime" -> Listing(h.runtime)
      [] q = "permanent" -> Listing(h.permanent)
      [] q = "policies" -> h.policies
      [] q = "mode" -> h.mode
      [] q = "tunnels" -> h.tunnel
      [] q = "sockets" -> h.listeners
      [] q = "kernelJournal" -> h.denials
      [] q = "firewalldJournal" -> h.activity
      [] q = "networkManager" -> h.connected
      [] q = "timeSync" -> h.timeSync
      [] q = "journald" -> h.journald

AfterService == Firewalld \ {"installation", "service", "enablement"}

\* SecuritySignalsInspector: a journal answer of the limit's length is partial.
Answer(h, q) ==
    IF \/ q \in AfterService \ {"config"} /\ ~h.running
       \/ q = "journald" /\ ~h.journald
    THEN Blank[q]
    ELSE [status |-> IF q \in {"kernelJournal", "firewalldJournal"} /\ Truth(h, q) = 2
                     THEN "Partial" ELSE "Available",
          value |-> Truth(h, q)]

\* Commands that succeed with output of which nothing is recognised, and the code
\* notices.
Shaped == {"enablement", "logDenied", "defaultZone", "activeZones", "runtime",
           "permanent", "policies"}

Noticed(q) ==
    {IF q = "mode" THEN [Blank[q] EXCEPT !.status = "Partial"] ELSE Blank[q]}
    \cup {[Blank[p] EXCEPT !.status = "Partial"] : p \in Shaped \cap {q}}

\* A listing without one line of one zone. Its parser leaves out what has no key it
\* knows; a value that it does not know makes the zone's details invalid.
Lines == (Exposures \ {"broadPorts", "accept"}) \cup {"sources", "target"}
Opened(line) == CASE line = "ports"  -> {"ports", "broadPorts"}
                  [] line = "target" -> {"accept"}
                  [] OTHER           -> {line}

Lose(zones, z, line) ==
    [zones EXCEPT ![z].policy = @ \ Opened(line),
                  ![z].sources = IF line = "sources" THEN {} ELSE @,
                  ![z].target = @ /\ line # "target"]

Garble(zones, z, line) == [Lose(zones, z, line) EXCEPT ![z].valid = FALSE]

\* has_recognized_zone_details: one recognised zone makes the listing available.
ListingStatus(zones) ==
    IF \E z \in DOMAIN zones : zones[z].valid /\ zones[z].target
    THEN "Available" ELSE "Partial"

TornListings(zones) ==
    {Lose(zones, z, l) : z \in Zones, l \in Lines}
    \cup {Garble(zones, z, l) : z \in Zones, l \in {"target", "masquerade", "forward"}}
    \cup {[x \in Zones \ {z} |-> zones[x]] : z \in Zones}

\* The bindings of some zones only.
KeptBindings(bound) ==
    {[interfaces |-> [z \in Zones |-> IF z \in i THEN bound.interfaces[z] ELSE {}],
      sources    |-> [z \in Zones |-> IF z \in s THEN bound.sources[z] ELSE {}]] :
        i, s \in SUBSET Zones} \ {Blank["activeZones"].value}

\* What is left of an answer whose lines are in part, or all, not recognised, where
\* the code does not notice: most parsers skip such a line, those of the policies
\* and of the journals count it. One word that names no zone passes for a default
\* zone until the zones are listed.
Readings(h, q) ==
    CASE q \in {"runtime", "permanent"} -> TornListings(Truth(h, q))
      [] q = "activeZones" -> KeptBindings(Truth(h, q))
      [] q \in {"sockets", "networkManager"} -> SUBSET Truth(h, q)
      [] q = "tunnels" -> {FALSE}
      [] q = "timeSync" -> {FALSE}
      [] q = "defaultZone" -> {NoZone}
      [] q = "policies" -> {TRUE}
      [] q \in {"kernelJournal", "firewalldJournal"} -> When(Truth(h, q) = 0, 1)
      [] OTHER -> {}

Unnoticed(h, q) ==
    {[status |-> IF q \in {"runtime", "permanent"} THEN ListingStatus(v) ELSE "Available",
      value  |-> v] : v \in Readings(h, q) \ {Truth(h, q)}}

Faulty(h, q) ==
    Noticed(q) \cup {a \in Unnoticed(h, q) : Answer(h, q).status # "Unavailable"}

-----------------------------------------------------------------------------
(* The collection. *)

Init ==
    /\ host \in {Quiet} \cup Changed(Quiet, Exposures)
                        \cup Saved(Changed(Quiet, Exposures) \cup Layouts)
    /\ seen = {host}
    /\ depth \in {"Landing", "Complete"}
    /\ o = Blank
    /\ next = 1
    /\ misread = {}
    /\ changes = 0 /\ faults = 0

Done == next > Len(Order)

\* The early returns of the backend, and what only a complete collection asks.
Skipped(q) ==
    \/ q \in Firewalld \ {"installation"} /\ ~Known(o, "installation")
    \/ q \in AfterService /\ ~o["service"].value
    \/ q \in {"permanent", "policies", "timeSync", "journald"} /\ depth = "Landing"

\* The backend's last test: a default zone that the runtime listing does not have.
DefaultListed(state) ==
    IF /\ Known(state, "defaultZone") /\ Known(state, "runtime")
       /\ state["defaultZone"].value \notin DOMAIN state["runtime"].value
    THEN [state EXCEPT !["defaultZone"].status = "Partial"] ELSE state

\* The collector's: without journald a journal that looked complete may not be.
JournalsConfirmed(state) ==
    [q \in Observations |->
        IF /\ q \in {"kernelJournal", "firewalldJournal"} /\ Known(state, q)
           /\ ~Known(state, "journald")
        THEN [state[q] EXCEPT !.status = "Partial"] ELSE state[q]]

Recorded(q, answer) ==
    LET told == [o EXCEPT ![q] = answer]
    IN  CASE q = "runtime" -> DefaultListed(told)
          [] q = "journald" -> JournalsConfirmed(told)
          [] OTHER -> told

Ask ==
    /\ ~Done
    /\ LET q == Order[next]
       IN  \/ Skipped(q) /\ UNCHANGED <<o, misread, faults>>
           \/ ~Skipped(q) /\ o' = Recorded(q, Answer(host, q)) /\ UNCHANGED <<misread, faults>>
           \/ /\ ~Skipped(q) /\ changes + faults < MaxDisturbances
              /\ \E answer \in Faulty(host, q) :
                    /\ o' = Recorded(q, answer)
                    /\ misread' = misread \cup When(answer.status = "Available", q)
              /\ faults' = faults + 1
    /\ next' = next + 1
    /\ UNCHANGED <<host, seen, depth, changes>>

\* A change before the first command only makes another initial state.
Change ==
    /\ ~Done /\ next > 1
    /\ changes < MaxChanges /\ changes + faults < MaxDisturbances
    /\ host' \in Changed(host, Moving) \ {host}
    /\ seen' = seen \cup {host'}
    /\ changes' = changes + 1
    /\ UNCHANGED <<depth, o, next, misread, faults>>

Next == Ask \/ Change

Spec == Init /\ [][Next]_vars

-----------------------------------------------------------------------------
(* Properties. *)

Status == {"Unavailable", "Partial", "Available"}

ZoneDetails == [policy : SUBSET Exposures, sources : SUBSET Sources,
                valid : BOOLEAN, target : BOOLEAN]

Values(q) ==
    CASE q = "activeZones" -> [interfaces : [Zones -> SUBSET Devices],
                               sources : [Zones -> SUBSET Sources]]
      [] q \in {"runtime", "permanent"} -> [DOMAIN o[q].value \cap Zones -> ZoneDetails]
      [] q = "defaultZone" -> Zones \cup {NoZone}
      [] q = "logDenied" -> {"", "off", "all"}
      [] q = "sockets" -> SUBSET {"attributed", "anonymous", "multicast"}
      [] q = "networkManager" -> SUBSET Devices
      [] q \in {"kernelJournal", "firewalldJournal"} -> 0..2
      [] q = "mode" -> {"Normal", "HostileNetwork"}
      [] OTHER -> BOOLEAN

\* Every observation keeps its status and a value of its kind; what was not asked
\* yet, or was skipped, stays unavailable; a complete collection that could not
\* confirm journald ends without a journal that claims to be complete
\* (posture_inspector.cpp:18-32).
TypeOK ==
    /\ host \in Hosts /\ seen \subseteq Hosts /\ host \in seen
    /\ depth \in {"Landing", "Complete"}
    /\ next \in 1..Len(Order) + 1 /\ changes \in 0..MaxChanges
    /\ faults \in Nat /\ changes + faults <= MaxDisturbances
    /\ DOMAIN o = Observations
    /\ \A q \in Observations : o[q].status \in Status /\ o[q].value \in Values(q)
    /\ \A i \in next..Len(Order) : o[Order[i]] = Blank[Order[i]]
    /\ misread \subseteq {Order[i] : i \in 1..next - 1}
    /\ Done /\ depth = "Complete" /\ ~Known(o, "journald") =>
          ~Known(o, "kernelJournal") /\ ~Known(o, "firewalldJournal")

\* The answers that what is said of the zones that apply rests on. The default zone
\* is not among them: when it is misread, the code notices as soon as it can.
Relied == {"activeZones", "runtime", "networkManager"}

\* The zones that carry the traffic of a host: the bound ones, and the default zone
\* as soon as a connected device is bound to none.
Carrying(h) ==
    {z \in Zones : (\E d \in Devices : z \in h.binding[d]) \/ h.runtime[z].sources # {}}
    \cup {z \in {h.default} : \E d \in h.connected : h.binding[d] = {}}

OpenTo(h, exposures) == \E z \in Carrying(h) : h.runtime[z].policy \cap exposures # {}

\* Two members of a zone that forwards can reach each other through the host.
Forwards(h) == \E z \in Carrying(h) :
    /\ "forward" \in h.runtime[z].policy
    /\ Cardinality({d \in Devices : z \in h.binding[d]}) + Cardinality(h.runtime[z].sources) > 1

\* A readiness report that exits with 0 tells the truth, unless a line of the active
\* zones, the runtime listing or the devices was not recognised and the code did not
\* notice: although its answers were taken one after another, while the host was
\* changed once, there was a moment of the collection at which firewalld ran, panic
\* mode was off and no zone that carries traffic opened anything the report checks
\* (firewalld_backend.cpp:46-169, readiness.cpp:44-296, command_executor.cpp:47-51).
CleanIsTrue ==
    Done /\ misread \cap Relied = {} /\ ReadinessExitCode(o, depth) = 0 =>
        \E h \in seen : /\ h.running /\ ~h.panic /\ ~Forwards(h)
                       /\ ~OpenTo(h, Exposures \ {"forward"})

\* The same, under the same condition, for a dashboard whose risk is "Ready" without
\* the gap that says that the policy is not known (dashboard_state.cpp:148-225): no
\* zone that carries traffic opened ports, protocols or rich rules, accepted,
\* forwarded or masqueraded.
ReadyIsTrue ==
    /\ Done /\ misread \cap Relied = {} /\ Risk(o) = "Ready"
    /\ "applicablePolicy" \notin DashboardGaps(o)
    => \E h \in seen : h.running /\ ~OpenTo(h, ReviewedPolicy \cup {"forward", "masquerade"})

\* The three views of one collection do not contradict each other: what the threat
\* assessment calls an exposure or a candidate alert, and what the dashboard blocks
\* or wants reviewed, is never clean for readiness, unless it is forwarding between
\* fewer than two members, which the dashboard alone has reviewed.
ViewsAgree ==
    Done /\ ReadinessExitCode(o, depth) = 0 =>
        /\ \A f \in Findings(o) : f[1] \notin {"Exposure", "CandidateAlert"}
        /\ Risk(o) # "Ready" => Reviews(o) = {"forward"} /\ ~ForwardingPath(o)

\* Unavailable and partial evidence never ends in a clean report; the count of
\* firewalld's own journal entries is the one observation readiness does without
\* (README.md:83, docs/DEFCON_OPERATIONS.md:31).
UnknownNeverClean ==
    Done /\ (\E q \in Observations \ {"firewalldJournal"} : ~Known(o, q)) =>
        ReadinessExitCode(o, depth) # 0
=============================================================================
