---------------------------- MODULE PostureProofs ----------------------------
(***************************************************************************)
(* Proofs about modules Posture and PostureViews, for any zones, devices,  *)
(* source bindings and any number of disturbed answers.  That the views of *)
(* one collection agree, that the unknown is never clean and that the      *)
(* first recommendation fits the risk holds for any number of changes of   *)
(* the host.  What a view says of the host is only true of one moment      *)
(* while the host is changed at most once: then all hosts that were seen   *)
(* are the same but for one facet (OneFacet), at most one answer reads     *)
(* that facet, and the host this answer was given of fits them all         *)
(* (OneMoment).                                                            *)
(***************************************************************************)
EXTENDS PostureViews, FiniteSetTheorems, TLAPS

-----------------------------------------------------------------------------
(* What a clean readiness report has judged. *)

\* A report exits with 0 when no check of it warned or failed.
LEMMA NothingJudged ==
  ASSUME ReadinessExitCode(o, depth) = 0
  PROVE  /\ \A c \in DOMAIN ServiceChecks(o) : ServiceChecks(o)[c] \notin {"Warn", "Fail"}
         /\ \A c \in DOMAIN NetworkChecks(o) : NetworkChecks(o)[c] \notin {"Warn", "Fail"}
         /\ \A c \in DOMAIN EvidenceChecks(o) : EvidenceChecks(o)[c] \notin {"Warn", "Fail"}
         /\ \A c \in DOMAIN ZoneChecks(o) : ZoneChecks(o)[c] \notin {"Warn", "Fail"}
         /\ \A c \in DOMAIN CollectionChecks(o, depth) :
               CollectionChecks(o, depth)[c] \notin {"Warn", "Fail"}
<1>1. "Fail" \notin Levels(o, depth) /\ "Warn" \notin Levels(o, depth)
  BY DEF ReadinessExitCode
<1>2. \A f : Range(f) \subseteq Levels(o, depth) => \A c \in DOMAIN f : f[c] \notin {"Warn", "Fail"}
  BY <1>1 DEF Range
<1>3. /\ Range(ServiceChecks(o)) \subseteq Levels(o, depth)
      /\ Range(NetworkChecks(o)) \subseteq Levels(o, depth)
      /\ Range(EvidenceChecks(o)) \subseteq Levels(o, depth)
      /\ Range(ZoneChecks(o)) \subseteq Levels(o, depth)
      /\ Range(CollectionChecks(o, depth)) \subseteq Levels(o, depth)
  BY DEF Levels
<1> QED
  BY <1>2, <1>3

\* What is known, and what it says, when no check of the service warned.
LEMMA CleanService ==
  ASSUME ReadinessExitCode(o, depth) = 0
  PROVE  /\ Known(o, "installation") /\ Known(o, "service") /\ Known(o, "enablement")
         /\ Known(o, "panic") /\ Known(o, "config") /\ Known(o, "defaultZone")
         /\ o["service"].value /\ o["enablement"].value
         /\ ~o["panic"].value /\ o["config"].value
<1> DEFINE C == ServiceChecks(o)
<1>1. \A c \in DOMAIN C : C[c] \notin {"Warn", "Fail"}
  BY NothingJudged
<1>2. /\ C.installed \notin {"Warn", "Fail"} /\ C.active \notin {"Warn", "Fail"}
      /\ C.enabled \notin {"Warn", "Fail"} /\ C.panic \notin {"Warn", "Fail"}
      /\ C.config \notin {"Warn", "Fail"} /\ C.defaultZone \notin {"Warn", "Fail"}
  BY <1>1 DEF ServiceChecks
<1> QED
  BY <1>2 DEF ServiceChecks, Judged, PassIf

\* The same of the network, the listeners and the kernel journal.
LEMMA CleanNetwork ==
  ASSUME ReadinessExitCode(o, depth) = 0
  PROVE  /\ Known(o, "networkManager") /\ Known(o, "tunnels") /\ Known(o, "activeZones")
         /\ Known(o, "sockets") /\ Known(o, "kernelJournal")
         /\ Unclassified(o) = {} /\ Reachable(o) = {} /\ o["kernelJournal"].value = 0
<1> DEFINE C == NetworkChecks(o)
           D == EvidenceChecks(o)
<1>1. /\ \A c \in DOMAIN C : C[c] \notin {"Warn", "Fail"}
      /\ \A c \in DOMAIN D : D[c] \notin {"Warn", "Fail"}
  BY NothingJudged
<1>2. /\ C.manager \notin {"Warn", "Fail"} /\ C.tunnels \notin {"Warn", "Fail"}
      /\ C.assigned \notin {"Warn", "Fail"} /\ C.classified \notin {"Warn", "Fail"}
  BY <1>1 DEF NetworkChecks
<1>3. D.listeners \notin {"Warn", "Fail"} /\ D.denials \notin {"Warn", "Fail"}
  BY <1>1 DEF EvidenceChecks
<1>4. Known(o, "networkManager") /\ Known(o, "tunnels") /\ Known(o, "activeZones")
  BY <1>2 DEF NetworkChecks, Judged
<1>5. Unclassified(o) = {}
  BY <1>2, <1>4 DEF NetworkChecks, Judged, PassIf
<1> QED
  BY <1>3, <1>4, <1>5 DEF EvidenceChecks, Judged, PassIf, Stricter

\* The same of the zones that apply, and of the collection.
LEMMA CleanZones ==
  ASSUME ReadinessExitCode(o, depth) = 0
  PROVE  /\ DetailsKnown(o)
         /\ Exposed(o) \cap (Exposures \ {"forward"}) = {}
         /\ ~ForwardingPath(o)
         /\ Known(o, "policies") /\ Known(o, "runtime") /\ Known(o, "permanent")
         /\ ~o["policies"].value /\ ~Drift(o) /\ ~Issues(o, depth)
<1> DEFINE C == ZoneChecks(o)
           D == CollectionChecks(o, depth)
<1>1. /\ \A c \in DOMAIN C : C[c] \notin {"Warn", "Fail"}
      /\ \A c \in DOMAIN D : D[c] \notin {"Warn", "Fail"}
  BY NothingJudged
<1>2. /\ C.inbound \notin {"Warn", "Fail"} /\ C.richRules \notin {"Warn", "Fail"}
      /\ C.target \notin {"Warn", "Fail"} /\ C.forwardPorts \notin {"Warn", "Fail"}
      /\ C.forwarding \notin {"Warn", "Fail"} /\ C.masquerade \notin {"Warn", "Fail"}
  BY <1>1 DEF ZoneChecks
<1>3. /\ D.policies \notin {"Warn", "Fail"} /\ D.aligned \notin {"Warn", "Fail"}
      /\ D.issues \notin {"Warn", "Fail"}
  BY <1>1 DEF CollectionChecks
<1>4. DetailsKnown(o)
  BY <1>2 DEF ZoneChecks
<1>5. /\ Inbound(o) = {} /\ "accept" \notin Exposed(o) /\ "forwardPorts" \notin Exposed(o)
      /\ "masquerade" \notin Exposed(o) /\ ~ForwardingPath(o)
  BY <1>2, <1>4 DEF ZoneChecks, PassIf, Stricter
<1>6. Exposed(o) \cap (Exposures \ {"forward"}) = {}
  BY <1>5 DEF Inbound, Exposures
<1>7. /\ Known(o, "policies") /\ Known(o, "runtime") /\ Known(o, "permanent")
      /\ ~o["policies"].value /\ ~Drift(o) /\ ~Issues(o, depth)
  BY <1>3 DEF CollectionChecks, Judged, PassIf
<1> QED
  BY <1>4, <1>5, <1>6, <1>7

-----------------------------------------------------------------------------
(* The three views of one collection. *)

\* No view of a collection calls anything an exposure, an alert, a blocker or a
\* review item that a clean readiness report leaves out, but forwarding without a
\* path, for any zones, devices and evidence.
THEOREM ViewsAlwaysAgree == Spec => []ViewsAgree
<1>1. ViewsAgree
  <2> SUFFICES ASSUME ReadinessExitCode(o, depth) = 0
               PROVE  /\ \A f \in Findings(o) : f[1] \notin {"Exposure", "CandidateAlert"}
                      /\ Risk(o) # "Ready" => Reviews(o) = {"forward"} /\ ~ForwardingPath(o)
    BY DEF ViewsAgree
  <2> USE CleanService, CleanNetwork, CleanZones
  <2>1. \A f \in CollectionGaps(o) : f[1] = "CoverageGap"
    BY DEF CollectionGaps, Gap, When
  <2>2. DenialFinding(o)[1] \notin {"Exposure", "CandidateAlert"}
    BY DEF DenialFinding, Known, Gap
  <2>3. \A f \in ListenerFindings(o) : f[1] \notin {"Exposure", "CandidateAlert"}
    <3>1. ListenerFindings(o) = {<<"NoAlert", "no listeners">>}
      BY DEF ListenerFindings
    <3>2. <<"NoAlert", "no listeners">>[1] = "NoAlert"
      OBVIOUS
    <3> QED
      BY <3>1, <3>2, Zenon
  <2>4. \A f \in QualityFindings(o) : f[1] \notin {"Exposure", "CandidateAlert"}
    <3>1. \A f \in QualityFindings(o) : \E x : f = <<"CoverageGap", x>> \/ f = <<"ScopeLimit", x>>
      BY DEF QualityFindings, Gap, When
    <3> QED
      BY <3>1
  <2>5. \A f \in PolicyFindings(o) : f[1] \notin {"Exposure", "CandidateAlert"}
    BY DEF PolicyFindings, When, Exposures, Selectors
  <2>6. DriftFindings(o) = {}
    BY DEF DriftFindings, When
  <2>7. \A f \in JournalFindings(o) : f[1] \notin {"Exposure", "CandidateAlert"}
    <3>1. \A f \in JournalFindings(o) : \E x : f = <<"CoverageGap", x>> \/ f = <<"NoAlert", x>>
      BY DEF JournalFindings, Gap, When
    <3> QED
      BY <3>1
  <2>8. \A f \in Findings(o) : f[1] \notin {"Exposure", "CandidateAlert"}
    BY <2>1, <2>2, <2>3, <2>4, <2>5, <2>6, <2>7 DEF Findings
  <2>9. Blockers(o) = {}
    BY DEF Blockers, When
  <2>10. Reviews(o) \subseteq {"forward"}
    BY DEF Reviews, When, ReviewedPolicy, Exposures, Selectors
  <2> QED
    BY <2>8, <2>9, <2>10 DEF Risk
<1> QED
  BY <1>1, PTL

-----------------------------------------------------------------------------
(* Recommendations. *)

\* Max is what its name says wherever there is a greatest.
LEMMA MaxIsGreatest ==
  ASSUME NEW S, \E x \in S : \A y \in S : x >= y
  PROVE  Max(S) \in S /\ \A y \in S : Max(S) >= y
BY DEF Max

\* A nonempty set of priorities has a greatest.
LEMMA HighestExists ==
  ASSUME NEW S, S # {}, \A p \in S : p \in {800, 750, 700, 600, 300}
  PROVE  \E x \in S : \A y \in S : x >= y
<1>1. CASE 800 \in S
  BY <1>1
<1>2. CASE 800 \notin S /\ 750 \in S
  BY <1>2
<1>3. CASE 800 \notin S /\ 750 \notin S /\ 700 \in S
  BY <1>3
<1>4. CASE 800 \notin S /\ 750 \notin S /\ 700 \notin S /\ 600 \in S
  BY <1>4
<1>5. CASE 800 \notin S /\ 750 \notin S /\ 700 \notin S /\ 600 \notin S
  <2>1. \A y \in S : y = 300
    BY <1>5
  <2>2. PICK x : x \in S
    OBVIOUS
  <2> QED
    BY <2>1, <2>2
<1> QED
  BY <1>1, <1>2, <1>3, <1>4, <1>5

\* How urgent a finding is.
Urgency(f) == RecommendationPriority(Category(f))

\* The urgency of every finding there can be.
LEMMA Urgencies ==
  /\ Urgency("panic") = 800
  /\ \A f \in {"missing", "state", "inactive"} : Urgency(f) = 750
  /\ \A f \in {"inbound", "forward", "masquerade"} : Urgency(f) = 700
  /\ Urgency("listeners") = 600
  /\ \A f \in DOMAIN ComponentStatus(o) \cup {"applicablePolicy"} : Urgency(f) = 300
BY DEF Urgency, Category, RecommendationPriority, ComponentStatus

\* The recommendation that stands first fits the risk in every state, whatever was
\* collected.
THEOREM RecommendationAlwaysFits == Spec => []RecommendationFits
<1>1. RecommendationFits
  <2> DEFINE found == DashboardFindings(o)
             S == {Urgency(f) : f \in found}
  <2>1. Blockers(o) \subseteq {"missing", "state", "inactive", "panic"}
    BY DEF Blockers, When
  <2>2. Reviews(o) \subseteq {"inbound", "forward", "masquerade", "listeners"}
    BY DEF Reviews, When
  <2>3. DashboardGaps(o) \subseteq DOMAIN ComponentStatus(o) \cup {"applicablePolicy"}
    BY DEF DashboardGaps, When
  <2>4. "profiles" \in DashboardGaps(o)
    BY DEF DashboardGaps, ComponentStatus
  <2>5. S # {} /\ \A p \in S : p \in {800, 750, 700, 600, 300}
    BY <2>1, <2>2, <2>3, <2>4, Urgencies DEF DashboardFindings
  <2>6. Max(S) \in S /\ \A p \in S : p <= Max(S)
    <3> HIDE DEF S
    <3>1. \E x \in S : \A y \in S : x >= y
      BY <2>5, HighestExists
    <3>2. Max(S) \in S /\ \A y \in S : Max(S) >= y
      BY <3>1, MaxIsGreatest
    <3>3. \A y \in S : y \in Int
      BY <2>5
    <3> QED
      BY <3>2, <3>3
  <2>7. Primary(o) = {f \in found : Urgency(f) = Max(S)}
    BY DEF Primary, Urgency
  <2>8. Primary(o) # {}
    BY <2>6, <2>7
  <2>9. ASSUME NEW f \in Primary(o)
        PROVE  f \in found /\ \A g \in found : Urgency(g) <= Urgency(f)
    BY <2>6, <2>7
  <2>10. ASSUME NEW f \in Primary(o), "panic" \in Blockers(o)
         PROVE  f = "panic"
    BY <2>1, <2>2, <2>3, <2>9, <2>10, Urgencies DEF DashboardFindings
  <2>11. ASSUME NEW f \in Primary(o), Blockers(o) # {}
         PROVE  f \in Blockers(o)
    BY <2>1, <2>2, <2>3, <2>9, <2>11, Urgencies DEF DashboardFindings
  <2>12. ASSUME NEW f \in Primary(o), Blockers(o) = {}, Reviews(o) # {}
         PROVE  f \in Reviews(o)
    BY <2>2, <2>3, <2>9, <2>12, Urgencies DEF DashboardFindings
  <2>13. ASSUME NEW f \in Primary(o), Blockers(o) = {}, Reviews(o) = {}
         PROVE  f \in DashboardGaps(o)
    BY <2>9, <2>13 DEF DashboardFindings
  <2> QED
    BY <2>8, <2>10, <2>11, <2>12, <2>13 DEF RecommendationFits, Risk
<1> QED
  BY <1>1, PTL
-----------------------------------------------------------------------------
(* The host. *)

\* What two hosts have in common but for one facet, of what the zones that apply
\* and the state of the firewall depend on.
SameBut(h, k, facet) ==
    /\ facet # "running" => h.running = k.running
    /\ facet # "panic" => h.panic = k.panic
    /\ facet # "default" => h.default = k.default
    /\ facet # "binding" => h.binding = k.binding
    /\ facet # "connected" => h.connected = k.connected
    /\ facet # "permanent" => h.permanent = k.permanent
    /\ facet # "policy" => \A z \in Zones : h.runtime[z].policy = k.runtime[z].policy
    /\ facet # "sources" => \A z \in Zones : h.runtime[z].sources = k.runtime[z].sources

\* One change of a host makes a host, and touches one facet.
LEMMA ChangedOnce ==
  ASSUME NEW h \in Hosts, NEW moving \in SUBSET Exposures, NEW k \in Changed(h, moving)
  PROVE  k \in Hosts /\ \E facet : SameBut(h, k, facet)
<1>1. CASE \E f \in {"running", "enabled", "panic", "configValid", "policies", "tunnel",
                     "timeSync", "journald"} : k = [h EXCEPT ![f] = ~h[f]]
  <2>1. PICK f \in {"running", "enabled", "panic", "configValid", "policies", "tunnel",
                    "timeSync", "journald"} : k = [h EXCEPT ![f] = ~h[f]]
    BY <1>1
  <2>2. k \in Hosts
    <3>1. CASE f \in {"running", "enabled", "panic", "configValid"}
      BY <2>1, <3>1 DEF Hosts
    <3>2. CASE f \in {"policies", "tunnel", "timeSync", "journald"}
      BY <2>1, <3>2 DEF Hosts
    <3> QED
      BY <3>1, <3>2
  <2>3. SameBut(h, k, f)
    <3>1. /\ h.default = k.default /\ h.binding = k.binding /\ h.connected = k.connected
          /\ h.permanent = k.permanent /\ h.runtime = k.runtime
      BY <2>1 DEF Hosts
    <3>2. (f # "running" => h.running = k.running) /\ (f # "panic" => h.panic = k.panic)
      BY <2>1 DEF Hosts
    <3> QED
      BY ONLY <3>1, <3>2 DEF SameBut
  <2> QED
    BY <2>2, <2>3
<1>2. CASE \E l \in {"off", "all"} : k = [h EXCEPT !.logDenied = l]
  <2>1. k \in Hosts
    BY <1>2 DEF Hosts
  <2>2. SameBut(h, k, "logDenied")
    BY <1>2 DEF Hosts, SameBut
  <2> QED
    BY <2>1, <2>2
<1>3. CASE \E z \in Zones : k = [h EXCEPT !.default = z]
  <2>1. k \in Hosts
    BY <1>3 DEF Hosts
  <2>2. SameBut(h, k, "default")
    BY <1>3 DEF Hosts, SameBut
  <2> QED
    BY <2>1, <2>2
<1>4. CASE \E m \in {"Normal", "HostileNetwork"} : k = [h EXCEPT !.mode = m]
  <2>1. k \in Hosts
    BY <1>4 DEF Hosts
  <2>2. SameBut(h, k, "mode")
    BY <1>4 DEF Hosts, SameBut
  <2> QED
    BY <2>1, <2>2
<1>5. CASE \E d \in Devices : k = [h EXCEPT !.connected = Flip(@, d)]
  <2>1. k \in Hosts
    BY <1>5 DEF Hosts, Flip
  <2>2. SameBut(h, k, "connected")
    BY <1>5 DEF Hosts, SameBut
  <2> QED
    BY <2>1, <2>2
<1>6. CASE \E d \in Devices, b \in {{}} \cup {{z} : z \in Zones} : k = [h EXCEPT !.binding[d] = b]
  <2>1. k \in Hosts
    BY <1>6 DEF Hosts
  <2>2. SameBut(h, k, "binding")
    BY <1>6 DEF Hosts, SameBut
  <2> QED
    BY <2>1, <2>2
<1>7. CASE \E z \in Zones, e \in moving : k = [h EXCEPT !.runtime[z].policy = Flip(@, e)]
  <2>1. PICK z \in Zones, e \in moving : k = [h EXCEPT !.runtime[z].policy = Flip(@, e)]
    BY <1>7
  <2> DEFINE config == [h.runtime[z] EXCEPT !.policy = Flip(h.runtime[z].policy, e)]
  <2>2. h.runtime \in [Zones -> ZoneConfigs]
    BY DEF Hosts
  <2>3. config \in ZoneConfigs
    BY <2>2 DEF ZoneConfigs, Flip
  <2>4. k = [h EXCEPT !.runtime = [h.runtime EXCEPT ![z] = config]]
    BY <2>1
  <2>5. k \in Hosts
    <3> HIDE DEF config
    <3>1. [h.runtime EXCEPT ![z] = config] \in [Zones -> ZoneConfigs]
      BY <2>2, <2>3
    <3> QED
      BY <2>4, <3>1 DEF Hosts
  <2>6. SameBut(h, k, "policy")
    BY <1>7 DEF Hosts, ZoneConfigs, SameBut
  <2> QED
    BY <2>5, <2>6
<1>8. CASE \E z \in Zones, s \in Sources : k = [h EXCEPT !.runtime[z].sources = Flip(@, s)]
  <2>1. PICK z \in Zones, s \in Sources : k = [h EXCEPT !.runtime[z].sources = Flip(@, s)]
    BY <1>8
  <2> DEFINE config == [h.runtime[z] EXCEPT !.sources = Flip(h.runtime[z].sources, s)]
  <2>2. h.runtime \in [Zones -> ZoneConfigs]
    BY DEF Hosts
  <2>3. config \in ZoneConfigs
    BY <2>2 DEF ZoneConfigs, Flip
  <2>4. k = [h EXCEPT !.runtime = [h.runtime EXCEPT ![z] = config]]
    BY <2>1
  <2>5. k \in Hosts
    <3> HIDE DEF config
    <3>1. [h.runtime EXCEPT ![z] = config] \in [Zones -> ZoneConfigs]
      BY <2>2, <2>3
    <3> QED
      BY <2>4, <3>1 DEF Hosts
  <2>6. SameBut(h, k, "sources")
    BY <1>8 DEF Hosts, ZoneConfigs, SameBut
  <2> QED
    BY <2>5, <2>6
<1>9. CASE \E z \in Zones : k = [h EXCEPT !.permanent[z].policy = Flip(@, "services")]
  <2>1. PICK z \in Zones : k = [h EXCEPT !.permanent[z].policy = Flip(@, "services")]
    BY <1>9
  <2> DEFINE config == [h.permanent[z] EXCEPT !.policy = Flip(h.permanent[z].policy, "services")]
  <2>2. h.permanent \in [Zones -> ZoneConfigs]
    BY DEF Hosts
  <2>3. config \in ZoneConfigs
    BY <2>2 DEF ZoneConfigs, Flip, Exposures, Selectors
  <2>4. k = [h EXCEPT !.permanent = [h.permanent EXCEPT ![z] = config]]
    BY <2>1
  <2>5. k \in Hosts
    <3> HIDE DEF config
    <3>1. [h.permanent EXCEPT ![z] = config] \in [Zones -> ZoneConfigs]
      BY <2>2, <2>3
    <3> QED
      BY <2>4, <3>1 DEF Hosts
  <2>6. SameBut(h, k, "permanent")
    BY <1>9 DEF Hosts, ZoneConfigs, SameBut
  <2> QED
    BY <2>5, <2>6
<1>10. CASE \E l \in {"attributed", "anonymous", "multicast"} :
               k = [h EXCEPT !.listeners = Flip(@, l)]
  <2>1. k \in Hosts
    BY <1>10 DEF Hosts, Flip
  <2>2. SameBut(h, k, "listeners")
    BY <1>10 DEF Hosts, SameBut
  <2> QED
    BY <2>1, <2>2
<1>11. CASE \E f \in {"denials", "activity"}, n \in 0..2 : k = [h EXCEPT ![f] = n]
  <2>1. k \in Hosts
    BY <1>11 DEF Hosts
  <2>2. SameBut(h, k, "journal")
    BY <1>11 DEF Hosts, SameBut
  <2> QED
    BY <2>1, <2>2
<1> QED
  BY <1>1, <1>2, <1>3, <1>4, <1>5, <1>6, <1>7, <1>8, <1>9, <1>10, <1>11 DEF Changed


\* The hosts that a collection may start with are hosts.
LEMMA InitialHosts ==
  ASSUME Init PROVE host \in Hosts
<1> USE PostureAssumption DEF PostureAssumption
<1>1. Quiet \in Hosts
  BY DEF Quiet, Hosts, ZoneConfigs, BoundTo
<1>2. Changed(Quiet, Exposures) \subseteq Hosts
  BY <1>1, ChangedOnce
<1>3. Layouts \subseteq Hosts
  <2>1. OneOpen \subseteq [Zones -> ZoneConfigs]
    BY DEF OneOpen, ZoneConfigs, Exposures
  <2> SUFFICES ASSUME NEW k \in Layouts PROVE k \in Hosts
    OBVIOUS
  <2>2. PICK z \in Zones, c \in {{}, Traffic}, b \in {{}} \cup {{x} : x \in Zones}, r \in OneOpen :
           k = Layout(z, c, b, r)
    BY DEF Layouts
  <2>3. BoundTo(b) \in [Devices -> SUBSET Zones]
    BY DEF BoundTo
  <2> QED
    BY <1>1, <2>1, <2>2, <2>3 DEF Layout, Hosts
<1>4. \A h \in Hosts : [h EXCEPT !.permanent = h.runtime] \in Hosts
  BY DEF Hosts
<1> QED
  BY <1>1, <1>2, <1>3, <1>4 DEF Init, Saved

-----------------------------------------------------------------------------
(* The collection. *)

\* The hosts that were seen: the first, and the one change of it.
HostsInv ==
    /\ host \in seen /\ seen \subseteq Hosts
    /\ changes \in Nat /\ changes <= MaxChanges
    /\ changes = 0 => seen = {host}

\* All hosts that were seen are the same but for one facet.
OneFacet == \E facet : \A h, k \in seen : SameBut(h, k, facet)

\* Every step keeps the hosts that were seen in order.
LEMMA HostsStep ==
  ASSUME HostsInv, [Next]_vars PROVE HostsInv'
<1>1. CASE Ask
  BY <1>1 DEF Ask, HostsInv
<1>2. CASE Change
  <2>1. /\ host' \in Changed(host, Moving) /\ host \in Hosts
        /\ seen' = seen \cup {host'} /\ changes' = changes + 1 /\ changes < MaxChanges
    BY <1>2 DEF Change, HostsInv
  <2>2. host' \in Hosts
    BY <2>1, ChangedOnce, PostureAssumption DEF PostureAssumption
  <2> QED
    BY <2>1, <2>2, PostureAssumption DEF HostsInv, PostureAssumption
<1> QED
  BY <1>1, <1>2 DEF Next, vars, HostsInv

\* The only change of the host touches one facet.
LEMMA OneFacetStep ==
  ASSUME MaxChanges <= 1, HostsInv, OneFacet, [Next]_vars PROVE OneFacet'
<1>1. CASE Change
  <2>1. /\ host' \in Changed(host, Moving) /\ host \in Hosts
        /\ seen' = seen \cup {host'} /\ changes = 0
    BY <1>1, PostureAssumption DEF Change, HostsInv, PostureAssumption
  <2>2. PICK facet : SameBut(host, host', facet)
    BY <2>1, ChangedOnce, PostureAssumption DEF PostureAssumption
  <2>3. seen' = {host, host'}
    BY <2>1 DEF HostsInv
  <2>4. \A h, k \in seen' : SameBut(h, k, facet)
    BY <2>2, <2>3 DEF SameBut
  <2> QED
    BY <2>4 DEF OneFacet
<1>2. CASE UNCHANGED seen
  BY <1>2 DEF OneFacet
<1> QED
  BY <1>1, <1>2 DEF Next, Ask, vars

\* The queries of which a misread answer can lack something; of the others a misread
\* answer says too much, or names no zone.
Skipping == {"activeZones", "runtime", "permanent", "tunnels", "sockets",
             "networkManager", "timeSync", "firewalldJournal"}
Harmless(q, value) == \/ q = "defaultZone" /\ value = NoZone
                      \/ q = "policies" /\ value
                      \/ q = "kernelJournal" /\ value = 1

\* An answer that is available says what was true of a host that was seen, unless it
\* was misread.
Excused(q, value) == q \in misread \cap Skipping \/ Harmless(q, value)

Told(q) == Known(o, q) => \/ \E h \in seen : o[q].value = Truth(h, q)
                          \/ Excused(q, o[q].value)

CollectionInv ==
    /\ next \in 1..Len(Order) + 1
    /\ DOMAIN o = Observations
    /\ \A q \in Observations : DOMAIN o[q] = {"status", "value"} /\ o[q].status \in Status
    /\ \A q \in Observations : Told(q)
    /\ next <= 9 => ~Known(o, "runtime")
    /\ Known(o, "defaultZone") /\ Known(o, "runtime") =>
          o["defaultZone"].value \in DOMAIN o["runtime"].value
    /\ depth = "Landing" => ~Known(o, "policies")

\* The commands are asked for in the order of the code: the default zone before
\* the listing that it is compared with.
LEMMA OrderFacts ==
  /\ Len(Order) = 19
  /\ \A i \in 1..19 : /\ Order[i] \in Observations
                      /\ Order[i] = "runtime" => i = 9
                      /\ Order[i] = "defaultZone" => i = 7
BY DEF Order, Observations, Firewalld

\* What was not asked is unavailable.
LEMMA BlankFacts ==
  \A q \in Observations : Blank[q].status = "Unavailable" /\ DOMAIN Blank[q] = {"status", "value"}
<1> SUFFICES ASSUME NEW q \in Observations
             PROVE  Blank[q].status = "Unavailable" /\ DOMAIN Blank[q] = {"status", "value"}
  OBVIOUS
<1>1. \E v : Blank[q] = [status |-> "Unavailable", value |-> v]
  BY Zenon DEF Blank
<1> QED
  BY <1>1

\* An answer without a fault is true of the host it was given of.
LEMMA TrueAnswers ==
  ASSUME NEW h, NEW q \in Observations
  PROVE  /\ DOMAIN Answer(h, q) = {"status", "value"} /\ Answer(h, q).status \in Status
         /\ Answer(h, q).status = "Available" => Answer(h, q).value = Truth(h, q)
BY BlankFacts DEF Answer, Status

\* A faulty answer that is available all the same is a misread one.
LEMMA FaultyAnswers ==
  ASSUME NEW h, NEW q \in Observations, NEW answer \in Faulty(h, q)
  PROVE  /\ DOMAIN answer = {"status", "value"} /\ answer.status \in Status
         /\ answer.status = "Available" => q \in Skipping \/ Harmless(q, answer.value)
<1>1. CASE answer \in Unnoticed(h, q)
  <2>1. PICK v \in Readings(h, q) :
           answer = [status |-> IF q \in {"runtime", "permanent"} THEN ListingStatus(v)
                                ELSE "Available",
                     value  |-> v]
    BY <1>1 DEF Unnoticed
  <2>2. DOMAIN answer = {"status", "value"} /\ answer.value = v
    BY <2>1
  <2>3. answer.status \in Status
    BY <2>1 DEF ListingStatus, Status
  <2>4. q \in Skipping \/ Harmless(q, v)
    BY <2>1 DEF Skipping, Harmless, Readings, When
  <2> QED
    BY <2>2, <2>3, <2>4
<1>2. CASE answer \in Noticed(q)
  <2>1. answer = Blank[q] \/ answer = [Blank[q] EXCEPT !.status = "Partial"]
    BY <1>2 DEF Noticed
  <2> QED
    BY <2>1, BlankFacts DEF Status
<1> QED
  BY <1>1, <1>2 DEF Faulty

\* What recording an answer leaves available.
LEMMA RecordedFacts ==
  ASSUME CollectionInv, NEW q \in Observations, NEW answer,
         DOMAIN answer = {"status", "value"}, answer.status \in Status
  PROVE  /\ DOMAIN Recorded(q, answer) = Observations
         /\ \A p \in Observations : /\ DOMAIN Recorded(q, answer)[p] = {"status", "value"}
                                    /\ Recorded(q, answer)[p].status \in Status
         /\ \A p \in Observations : Known(Recorded(q, answer), p) =>
               Recorded(q, answer)[p] = IF p = q THEN answer ELSE o[p]
         /\ q = "runtime" /\ Known(Recorded(q, answer), "defaultZone")
               /\ Known(Recorded(q, answer), "runtime") =>
                  o["defaultZone"].value \in DOMAIN answer.value
<1> DEFINE told == [o EXCEPT ![q] = answer]
<1>1. /\ DOMAIN told = Observations
      /\ \A p \in Observations : told[p] = IF p = q THEN answer ELSE o[p]
      /\ \A p \in Observations : DOMAIN told[p] = {"status", "value"} /\ told[p].status \in Status
  BY DEF CollectionInv
<1>2. {"runtime", "defaultZone", "journald", "kernelJournal", "firewalldJournal"} \subseteq Observations
  BY DEF Observations, Firewalld
<1> HIDE DEF told
<1>3. CASE q = "runtime"
  <2>1. Recorded(q, answer) = DefaultListed(told)
    BY <1>3 DEF Recorded, told
  <2> QED
    BY <1>1, <1>2, <1>3, <2>1 DEF DefaultListed, Known, Status
<1>4. CASE q = "journald"
  <2>1. Recorded(q, answer) = JournalsConfirmed(told)
    BY <1>4 DEF Recorded, told
  <2> QED
    BY <1>1, <1>2, <1>4, <2>1 DEF JournalsConfirmed, Known, Status
<1>5. CASE q # "runtime" /\ q # "journald"
  <2>1. Recorded(q, answer) = told
    BY <1>5 DEF Recorded, told
  <2> QED
    BY <1>1, <1>2, <1>5, <2>1
<1> QED
  BY <1>3, <1>4, <1>5

\* A command tells something, or is skipped.
LEMMA AskFacts ==
  ASSUME CollectionInv, Ask
  PROVE  /\ next \in 1..19 /\ next' = next + 1 /\ seen' = seen /\ depth' = depth
         /\ misread \subseteq misread'
         /\ \/ o' = o
            \/ /\ ~Skipped(Order[next])
               /\ \E answer : /\ o' = Recorded(Order[next], answer)
                              /\ DOMAIN answer = {"status", "value"}
                              /\ answer.status \in Status
                              /\ answer.status = "Available" =>
                                    \/ answer.value = Truth(host, Order[next])
                                    \/ Order[next] \in misread' \cap Skipping
                                    \/ Harmless(Order[next], answer.value)
<1>1. next \in 1..19 /\ next' = next + 1 /\ seen' = seen /\ depth' = depth
  BY OrderFacts DEF Ask, Done, CollectionInv
<1> DEFINE q == Order[next]
<1>2. q \in Observations
  BY <1>1, OrderFacts
<1>3. \/ o' = o /\ misread' = misread
      \/ ~Skipped(q) /\ o' = Recorded(q, Answer(host, q)) /\ misread' = misread
      \/ /\ ~Skipped(q)
         /\ \E answer \in Faulty(host, q) :
               /\ o' = Recorded(q, answer)
               /\ misread' = misread \cup When(answer.status = "Available", q)
  BY DEF Ask
<1> HIDE DEF q
<1>4. CASE ~Skipped(q) /\ o' = Recorded(q, Answer(host, q)) /\ misread' = misread
  BY <1>1, <1>2, <1>4, TrueAnswers DEF q
<1>5. CASE /\ ~Skipped(q)
           /\ \E answer \in Faulty(host, q) :
                 /\ o' = Recorded(q, answer)
                 /\ misread' = misread \cup When(answer.status = "Available", q)
  <2>1. PICK answer \in Faulty(host, q) :
           /\ o' = Recorded(q, answer)
           /\ misread' = misread \cup When(answer.status = "Available", q)
    BY <1>5
  <2>2. /\ DOMAIN answer = {"status", "value"} /\ answer.status \in Status
        /\ answer.status = "Available" => q \in Skipping \/ Harmless(q, answer.value)
    BY <1>2, FaultyAnswers
  <2>3. misread \subseteq misread' /\ (answer.status = "Available" => q \in misread')
    BY <2>1 DEF When
  <2> QED
    BY <1>1, <1>5, <2>1, <2>2, <2>3 DEF q
<1> QED
  BY <1>1, <1>3, <1>4, <1>5 DEF q

\* Every step keeps the answers true of a host that was seen.
LEMMA CollectionStep ==
  ASSUME HostsInv, CollectionInv, [Next]_vars PROVE CollectionInv'
<1>1. ASSUME Ask, o' = o PROVE CollectionInv'
  BY <1>1, AskFacts, OrderFacts DEF CollectionInv, Told, Excused, Known
<1>2. ASSUME Ask, NEW answer, o' = Recorded(Order[next], answer), ~Skipped(Order[next]),
             DOMAIN answer = {"status", "value"}, answer.status \in Status,
             answer.status = "Available" => \/ answer.value = Truth(host, Order[next])
                                            \/ Order[next] \in misread' \cap Skipping
                                            \/ Harmless(Order[next], answer.value)
      PROVE  CollectionInv'
  <2> DEFINE q == Order[next]
  <2>1. /\ next \in 1..19 /\ next' = next + 1 /\ seen' = seen /\ depth' = depth /\ host \in seen
        /\ misread \subseteq misread'
    BY <1>2, AskFacts DEF HostsInv
  <2>2. q \in Observations /\ (q = "runtime" => next = 9) /\ (q = "defaultZone" => next = 7)
    BY <2>1, OrderFacts
  <2>3. o' = Recorded(q, answer) /\ ~Skipped(q)
    BY <1>2
  <2>4. answer.status = "Available" => \/ answer.value = Truth(host, q)
                                       \/ q \in misread' \cap Skipping
                                       \/ Harmless(q, answer.value)
    BY <1>2
  <2> HIDE DEF q
  <2>5. /\ DOMAIN o' = Observations
        /\ \A p \in Observations : DOMAIN o'[p] = {"status", "value"} /\ o'[p].status \in Status
        /\ \A p \in Observations : Known(o', p) => o'[p] = IF p = q THEN answer ELSE o[p]
        /\ q = "runtime" /\ Known(o', "defaultZone") /\ Known(o', "runtime") =>
              o["defaultZone"].value \in DOMAIN answer.value
    BY <1>2, <2>2, <2>3, RecordedFacts
  <2>6. \A p \in Observations : Told(p)'
    <3> SUFFICES ASSUME NEW p \in Observations, Known(o', p)
                 PROVE  \/ \E h \in seen' : o'[p].value = Truth(h, p)
                        \/ p \in misread' \cap Skipping
                        \/ Harmless(p, o'[p].value)
      BY DEF Told, Excused
    <3>1. CASE p = q
      BY <2>1, <2>4, <2>5, <3>1 DEF Known
    <3>2. CASE p # q
      BY <2>1, <2>5, <3>2 DEF Known, CollectionInv, Told, Excused
    <3> QED
      BY <3>1, <3>2
  <2>7. {"runtime", "defaultZone", "policies"} \subseteq Observations
    BY DEF Observations, Firewalld
  <2>8. (next <= 9 => ~Known(o, "runtime"))'
    BY <2>1, <2>2, <2>5, <2>7 DEF CollectionInv, Known
  <2>9. ASSUME Known(o', "defaultZone"), Known(o', "runtime")
        PROVE  o'["defaultZone"].value \in DOMAIN o'["runtime"].value
    <3>1. CASE q = "runtime"
      BY <2>5, <2>7, <2>9, <3>1
    <3>2. CASE q # "runtime"
      <4>1. Known(o, "runtime") /\ o'["runtime"] = o["runtime"]
        BY <2>5, <2>7, <2>9, <3>2 DEF Known
      <4>2. q # "defaultZone"
        BY <2>1, <2>2, <4>1 DEF CollectionInv
      <4> QED
        BY <2>5, <2>7, <2>9, <4>1, <4>2 DEF Known, CollectionInv
    <3> QED
      BY <3>1, <3>2
  <2>10. (depth = "Landing" => ~Known(o, "policies"))'
    <3>1. q = "policies" => depth # "Landing"
      BY <2>3 DEF Skipped
    <3> QED
      BY <2>1, <2>5, <2>7, <3>1 DEF Known, CollectionInv
  <2>11. (next \in 1..Len(Order) + 1)'
    BY <2>1, OrderFacts
  <2> QED
    BY <2>5, <2>6, <2>8, <2>9, <2>10, <2>11 DEF CollectionInv
<1>3. CASE Ask
  BY <1>1, <1>2, <1>3, AskFacts
<1>4. CASE Change
  BY <1>4 DEF Change, CollectionInv, Told, Excused, Known
<1>5. CASE UNCHANGED vars
  BY <1>5 DEF vars, CollectionInv, Told, Excused, Known
<1> QED
  BY <1>3, <1>4, <1>5 DEF Next

\* The two invariants of a collection.
LEMMA CollectionInvariance == Spec => [](HostsInv /\ CollectionInv)
<1>1. Init => HostsInv /\ CollectionInv
  <2> SUFFICES ASSUME Init PROVE HostsInv /\ CollectionInv
    OBVIOUS
  <2>1. HostsInv
    BY InitialHosts, PostureAssumption DEF Init, HostsInv, PostureAssumption
  <2>2. \A q \in Observations : o[q].status = "Unavailable" /\ DOMAIN o[q] = {"status", "value"}
    BY BlankFacts DEF Init
  <2>3. DOMAIN o = Observations /\ next = 1
    BY DEF Init, Blank
  <2>4. {"runtime", "defaultZone", "policies"} \subseteq Observations
    BY DEF Observations, Firewalld
  <2>5. CollectionInv
    BY <2>2, <2>3, <2>4, OrderFacts DEF CollectionInv, Told, Known, Status
  <2> QED
    BY <2>1, <2>5
<1> QED
  BY <1>1, HostsStep, CollectionStep, PTL DEF Spec

-----------------------------------------------------------------------------
(* One moment for several answers. *)

\* What the answer q says that conclusions on the zones that apply make use of.
Fit(h, q) ==
    /\ q = "service" => o["service"].value = h.running
    /\ q = "panic" => o["panic"].value = h.panic
    /\ q = "defaultZone" => o["defaultZone"].value = h.default
    /\ q = "networkManager" => o["networkManager"].value = h.connected
    /\ q = "activeZones" =>
          \A z \in Zones : /\ Interfaces(o, z) = {d \in Devices : z \in h.binding[d]}
                           /\ ZoneSources(o, z) = h.runtime[z].sources
    /\ q = "runtime" => /\ Listed(o) = Zones
                        /\ \A z \in Zones : o["runtime"].value[z].policy = h.runtime[z].policy

Asked == {"service", "panic", "defaultZone", "networkManager", "activeZones", "runtime"}

\* The facets of a host that an answer reads.
Reads(q, facet) ==
    \/ q = "service" /\ facet = "running"
    \/ q = "panic" /\ facet = "panic"
    \/ q = "defaultZone" /\ facet = "default"
    \/ q = "networkManager" /\ facet = "connected"
    \/ q = "activeZones" /\ facet \in {"binding", "sources"}
    \/ q = "runtime" /\ facet = "policy"

\* A true answer fits the host it was true of.
LEMMA TrueFits ==
  ASSUME NEW h \in Hosts, NEW q \in Asked, o[q].value = Truth(h, q)
  PROVE  Fit(h, q)
<1>1. CASE q = "service"
  BY <1>1 DEF Fit, Truth
<1>2. CASE q = "panic"
  BY <1>2 DEF Fit, Truth
<1>3. CASE q = "defaultZone"
  BY <1>3 DEF Fit, Truth
<1>4. CASE q = "networkManager"
  BY <1>4 DEF Fit, Truth
<1>5. CASE q = "activeZones"
  BY <1>5 DEF Fit, Truth, Interfaces, ZoneSources
<1>6. CASE q = "runtime"
  BY <1>6 DEF Fit, Truth, Listing, Listed
<1> QED
  BY <1>1, <1>2, <1>3, <1>4, <1>5, <1>6 DEF Asked

\* An answer fits every host that differs only in what it does not read.
LEMMA FitCarries ==
  ASSUME NEW h \in Hosts, NEW k \in Hosts, NEW facet, NEW q \in Asked,
         SameBut(h, k, facet), ~Reads(q, facet), Fit(h, q)
  PROVE  Fit(k, q)
BY DEF SameBut, Reads, Fit, Asked

\* Of hosts that are the same but for one facet, one fits all answers together: the
\* one the only answer that reads this facet was given of.
LEMMA OneMoment ==
  ASSUME HostsInv, OneFacet, CollectionInv, misread \cap Relied = {}
  PROVE  \E h \in seen : \A q \in Asked :
            Known(o, q) => Fit(h, q) \/ (q = "defaultZone" /\ o[q].value = NoZone)
<1>1. PICK facet : \A h, k \in seen : SameBut(h, k, facet)
  BY DEF OneFacet
<1>2. seen \subseteq Hosts /\ host \in seen
  BY DEF HostsInv
<1>3. \A q \in Asked : Known(o, q) => \/ \E h \in seen : Fit(h, q)
                                      \/ q = "defaultZone" /\ o[q].value = NoZone
  <2> SUFFICES ASSUME NEW q \in Asked, Known(o, q),
                      ~(q = "defaultZone" /\ o[q].value = NoZone)
               PROVE  \E h \in seen : Fit(h, q)
    OBVIOUS
  <2>1. q \in Observations
    BY DEF Asked, Observations, Firewalld
  <2>2. ~Excused(q, o[q].value)
    BY DEF Excused, Skipping, Harmless, Relied, Asked
  <2>3. PICK h \in seen : o[q].value = Truth(h, q)
    BY <2>1, <2>2 DEF CollectionInv, Told
  <2> QED
    BY <1>2, <2>3, TrueFits
<1>4. CASE \E q \in Asked, h \in seen : Reads(q, facet) /\ Fit(h, q)
  <2>1. PICK q \in Asked, h \in seen : Reads(q, facet) /\ Fit(h, q)
    BY <1>4
  <2>2. \A p \in Asked : Reads(p, facet) => p = q
    BY <2>1 DEF Reads, Asked
  <2> QED
    BY <1>1, <1>2, <1>3, <2>1, <2>2, FitCarries
<1>5. CASE \A q \in Asked, h \in seen : ~(Reads(q, facet) /\ Fit(h, q))
  BY <1>1, <1>2, <1>3, <1>5, FitCarries
<1> QED
  BY <1>4, <1>5

\* A host that fits what is known of the zones that apply has no other zones, and
\* nothing opened that is not exposed.
LEMMA FitCarrying ==
  ASSUME NEW h \in Hosts, DetailsKnown(o), o["defaultZone"].value \in Listed(o),
         Fit(h, "defaultZone"), Fit(h, "activeZones"), Fit(h, "runtime"),
         Known(o, "networkManager") => Fit(h, "networkManager")
  PROVE  /\ Carrying(h) \subseteq Applicable(o)
         /\ \A z \in Carrying(h) : h.runtime[z].policy \subseteq Exposed(o)
         /\ Forwards(h) => ForwardingPath(o)
<1>1. Listed(o) = Zones /\ \A z \in Zones : o["runtime"].value[z].policy = h.runtime[z].policy
  BY DEF Fit
<1>2. \A z \in Zones : /\ Interfaces(o, z) = {d \in Devices : z \in h.binding[d]}
                       /\ ZoneSources(o, z) = h.runtime[z].sources
  BY DEF Fit
<1>3. o["defaultZone"].value = h.default /\ h.default \in Zones
  BY <1>1 DEF Fit
<1>4. ASSUME NEW z \in Zones, NEW d \in Devices, z \in h.binding[d]
      PROVE  z \in Applicable(o)
  BY <1>2, <1>4 DEF Applicable, BoundZones
<1>5. ASSUME NEW z \in Zones, h.runtime[z].sources # {}
      PROVE  z \in Applicable(o)
  BY <1>2, <1>5 DEF Applicable, BoundZones
<1>6. ASSUME NEW d \in h.connected, h.binding[d] = {}
      PROVE  h.default \in Applicable(o)
  <2>1. d \in Devices
    BY DEF Hosts
  <2>2. d \notin Classified(o)
    BY <1>2, <1>6, <2>1 DEF Classified
  <2>3. DefaultApplies(o)
    BY <2>2 DEF DefaultApplies, Unclassified, Fit
  <2> QED
    BY <1>3, <2>3 DEF Applicable, DetailsKnown
<1>7. Carrying(h) \subseteq Applicable(o) /\ Carrying(h) \subseteq Zones
  BY <1>3, <1>4, <1>5, <1>6 DEF Carrying
<1>8. \A z \in Carrying(h) : h.runtime[z].policy \subseteq Exposed(o)
  BY <1>1, <1>7 DEF Exposed
<1>9. Forwards(h) => ForwardingPath(o)
  BY <1>1, <1>2, <1>7 DEF Forwards, ForwardingPath, Members
<1> QED
  BY <1>7, <1>8, <1>9

\* With the details known, the one moment has the default zone, too.
LEMMA DetailsMoment ==
  ASSUME HostsInv, OneFacet, CollectionInv, misread \cap Relied = {}, DetailsKnown(o)
  PROVE  \E h \in seen :
            /\ h \in Hosts
            /\ Known(o, "service") => Fit(h, "service")
            /\ Known(o, "panic") => Fit(h, "panic")
            /\ Carrying(h) \subseteq Applicable(o)
            /\ \A z \in Carrying(h) : h.runtime[z].policy \subseteq Exposed(o)
            /\ Forwards(h) => ForwardingPath(o)
<1>1. PICK h \in seen : \A q \in Asked :
         Known(o, q) => Fit(h, q) \/ (q = "defaultZone" /\ o[q].value = NoZone)
  BY OneMoment
<1>2. Known(o, "runtime") /\ Known(o, "activeZones") /\ Known(o, "defaultZone")
  BY DEF DetailsKnown
<1>3. Fit(h, "runtime") /\ Fit(h, "activeZones")
  BY <1>1, <1>2 DEF Asked
<1>4. o["defaultZone"].value \in Listed(o) /\ Listed(o) = Zones
  BY <1>2, <1>3 DEF CollectionInv, Listed, Fit
<1>5. Fit(h, "defaultZone")
  BY <1>1, <1>2, <1>4, PostureAssumption DEF Asked, PostureAssumption
<1>6. h \in Hosts
  BY DEF HostsInv
<1>7. /\ Known(o, "networkManager") => Fit(h, "networkManager")
      /\ Known(o, "service") => Fit(h, "service")
      /\ Known(o, "panic") => Fit(h, "panic")
  BY <1>1 DEF Asked
<1> QED
  BY <1>3, <1>4, <1>5, <1>6, <1>7, FitCarrying

-----------------------------------------------------------------------------
(* What the conclusions are worth. *)

\* With one change of the host at most, all hosts are the same but for one facet.
LEMMA OneFacetInvariance == MaxChanges <= 1 => (Spec => []OneFacet)
<1> SUFFICES ASSUME MaxChanges <= 1 PROVE Spec => []OneFacet
  OBVIOUS
<1>1. Init => OneFacet
  <2> SUFFICES ASSUME Init PROVE OneFacet
    OBVIOUS
  <2>1. \A h, k \in seen : SameBut(h, k, "none")
    BY DEF Init, SameBut
  <2> QED
    BY <2>1 DEF OneFacet
<1> QED
  BY <1>1, OneFacetStep, CollectionInvariance, PTL DEF Spec

\* A readiness report that exits with 0 was true at one moment, for any zones,
\* devices and sources, any layout of the host and any number of failed, partial
\* and misread answers, as long as the host is changed at most once and neither the
\* active zones nor the runtime listing nor the devices were misread unnoticed.
THEOREM CleanIsAlwaysTrue == ASSUME MaxChanges <= 1 PROVE Spec => []CleanIsTrue
<1>1. HostsInv /\ OneFacet /\ CollectionInv => CleanIsTrue
  <2> SUFFICES ASSUME HostsInv, OneFacet, CollectionInv, misread \cap Relied = {},
                      ReadinessExitCode(o, depth) = 0
               PROVE  \E h \in seen : /\ h.running /\ ~h.panic /\ ~Forwards(h)
                                      /\ ~OpenTo(h, Exposures \ {"forward"})
    BY DEF CleanIsTrue
  <2>1. PICK h \in seen : /\ Known(o, "service") => Fit(h, "service")
                          /\ Known(o, "panic") => Fit(h, "panic")
                          /\ \A z \in Carrying(h) : h.runtime[z].policy \subseteq Exposed(o)
                          /\ Forwards(h) => ForwardingPath(o)
    BY DetailsMoment, CleanZones
  <2>2. h.running /\ ~h.panic
    BY <2>1, CleanService DEF Fit
  <2>3. ~Forwards(h)
    BY <2>1, CleanZones
  <2>4. ~OpenTo(h, Exposures \ {"forward"})
    BY <2>1, CleanZones DEF OpenTo
  <2> QED
    BY <2>2, <2>3, <2>4
<1> QED
  BY <1>1, OneFacetInvariance, CollectionInvariance, PTL

\* So was, under the same conditions, a dashboard's "Ready" without the gap of an
\* unknown policy.
THEOREM ReadyIsAlwaysTrue == ASSUME MaxChanges <= 1 PROVE Spec => []ReadyIsTrue
<1>1. HostsInv /\ OneFacet /\ CollectionInv => ReadyIsTrue
  <2> SUFFICES ASSUME HostsInv, OneFacet, CollectionInv, misread \cap Relied = {},
                      Risk(o) = "Ready",
                      "applicablePolicy" \notin DashboardGaps(o)
               PROVE  \E h \in seen :
                         h.running /\ ~OpenTo(h, ReviewedPolicy \cup {"forward", "masquerade"})
    BY DEF ReadyIsTrue
  <2>1. DetailsKnown(o)
    BY DEF DashboardGaps, When
  <2>2. Blockers(o) = {} /\ Reviews(o) = {}
    BY DEF Risk
  <2>3. Known(o, "service") /\ o["service"].value
    BY <2>2 DEF Blockers, When
  <2>4. Exposed(o) \cap (ReviewedPolicy \cup {"forward", "masquerade"}) = {}
    BY <2>1, <2>2 DEF Reviews, When
  <2>5. PICK h \in seen : /\ Known(o, "service") => Fit(h, "service")
                          /\ \A z \in Carrying(h) : h.runtime[z].policy \subseteq Exposed(o)
    BY <2>1, DetailsMoment
  <2>6. h.running
    BY <2>3, <2>5 DEF Fit
  <2>7. ~OpenTo(h, ReviewedPolicy \cup {"forward", "masquerade"})
    BY <2>4, <2>5 DEF OpenTo
  <2> QED
    BY <2>6, <2>7
<1> QED
  BY <1>1, OneFacetInvariance, CollectionInvariance, PTL

\* No observation but the firewalld journal may be unknown for a clean report,
\* whatever fails and however often the host is changed.
THEOREM UnknownIsNeverClean == Spec => []UnknownNeverClean
<1>1. CollectionInv /\ depth \in {"Landing", "Complete"} => UnknownNeverClean
  <2> SUFFICES ASSUME CollectionInv, depth \in {"Landing", "Complete"},
                      ReadinessExitCode(o, depth) = 0,
                      NEW q \in Observations \ {"firewalldJournal"}
               PROVE  Known(o, q)
    BY DEF UnknownNeverClean
  <2>1. depth = "Complete"
    BY CleanZones DEF CollectionInv
  <2>2. ~Issues(o, depth)
    BY CleanZones
  <2>3. \A p \in {"logDenied", "mode", "timeSync", "journald"} : Known(o, p)
    BY <2>1, <2>2 DEF Issues
  <2> QED
    BY <2>3, CleanService, CleanNetwork, CleanZones DEF Observations, Firewalld
<1>2. Spec => [](depth \in {"Landing", "Complete"})
  <2>1. Init => depth \in {"Landing", "Complete"}
    BY DEF Init
  <2>2. depth \in {"Landing", "Complete"} /\ [Next]_vars => (depth \in {"Landing", "Complete"})'
    BY DEF Next, Ask, Change, vars
  <2> QED
    BY <2>1, <2>2, PTL DEF Spec
<1> QED
  BY <1>1, <1>2, CollectionInvariance, PTL

-----------------------------------------------------------------------------
(* What the views are worth. *)

\* What is known when a view shows an item as safe.
KnownSafe(item) ==
    \/ item = "active" /\ Known(o, "service") /\ o["service"].value
    \/ item = "enabled" /\ Known(o, "enablement") /\ o["enablement"].value
    \/ item = "valid" /\ Known(o, "config") /\ o["config"].value
    \/ item = "no panic" /\ Known(o, "panic") /\ ~o["panic"].value
    \/ item = "tunnel" /\ Known(o, "tunnels") /\ o["tunnels"].value
    \/ item = "no tunnel" /\ Known(o, "tunnels") /\ ~o["tunnels"].value
    \/ item = "no denials" /\ Known(o, "kernelJournal") /\ o["kernelJournal"].value = 0
    \/ item = "logged" /\ Known(o, "logDenied") /\ o["logDenied"].value # "off"
    \/ item = "no services" /\ Known(o, "sockets") /\ Reachable(o) = {}
    \/ item = "no sockets" /\ Known(o, "sockets") /\ o["sockets"].value = {}
    \/ item = "no policies" /\ Known(o, "policies") /\ ~o["policies"].value
    \/ item \in PolicyItems \cup {"richRules"} /\ DetailsKnown(o) /\ None(item)

\* The status screen shows as safe what is known to be so.
LEMMA StatusFacts == \A i \in StatusSafe : KnownSafe(i)
BY DEF StatusSafe, Shown, When, KnownSafe

\* So does the home screen, as far as the zones that apply are known.
LEMMA HomeFacts == ASSUME DetailsKnown(o) PROVE \A i \in HomeSafe : KnownSafe(i)
BY DEF HomeSafe, Shown, When, KnownSafe, PolicyItems

\* So does the expanded home screen, and says itself when they are not.
LEMMA ExpandedFacts == \A i \in ExpandedSafe : KnownSafe(i)
BY DEF ExpandedSafe, NoEntries, Shown, When, KnownSafe, PolicyItems

\* So does the overview.
LEMMA OverviewFacts == \A i \in OverviewSafe : KnownSafe(i)
BY DEF OverviewSafe, OverviewPolicy, NoEntries, When, KnownSafe

\* So does the list of listeners.
LEMMA ListenersFacts == \A i \in ListenersSafe : KnownSafe(i)
BY DEF ListenersSafe, When, KnownSafe

\* The value of an answer that is available and not excused was true of a host.
LEMMA Witness ==
  ASSUME HostsInv, CollectionInv, NEW q \in Observations, Known(o, q), ~Excused(q, o[q].value)
  PROVE  \E h \in seen : h \in Hosts /\ o[q].value = Truth(h, q)
BY DEF HostsInv, CollectionInv, Told

\* "No alert" for the denials is only found in a journal that was read whole, and
\* with denials logged.
LEMMA ThreatFacts ==
  ASSUME HostsInv, CollectionInv PROVE \A i \in ThreatSafe : KnownSafe(i)
<1>1. <<"NoAlert", "no listeners">> \in Findings(o) => Known(o, "sockets") /\ Reachable(o) = {}
  <2> SUFFICES ASSUME <<"NoAlert", "no listeners">> \in Findings(o)
               PROVE  Known(o, "sockets") /\ Reachable(o) = {}
    OBVIOUS
  <2>1. <<"NoAlert", "no listeners">> \notin CollectionGaps(o)
    BY DEF CollectionGaps, Gap, When
  <2>2. <<"NoAlert", "no listeners">> # DenialFinding(o)
    BY DEF DenialFinding, Gap
  <2>3. <<"NoAlert", "no listeners">> \notin QualityFindings(o)
    BY DEF QualityFindings, Gap, When
  <2>4. <<"NoAlert", "no listeners">> \notin PolicyFindings(o)
    BY DEF PolicyFindings, When
  <2>5. <<"NoAlert", "no listeners">> \notin DriftFindings(o) \cup JournalFindings(o)
    BY DEF DriftFindings, JournalFindings, Gap, When
  <2>6. <<"NoAlert", "no listeners">> \in ListenerFindings(o)
    BY <2>1, <2>2, <2>3, <2>4, <2>5 DEF Findings
  <2> QED
    BY <2>6 DEF ListenerFindings, Gap, When
<1>2. <<"NoAlert", "no denied packets">> \in Findings(o) =>
         DenialFinding(o) = <<"NoAlert", "no denied packets">>
  <2> SUFFICES ASSUME <<"NoAlert", "no denied packets">> \in Findings(o)
               PROVE  DenialFinding(o) = <<"NoAlert", "no denied packets">>
    OBVIOUS
  <2>1. <<"NoAlert", "no denied packets">> \notin CollectionGaps(o)
    BY DEF CollectionGaps, Gap, When
  <2>2. <<"NoAlert", "no denied packets">> \notin ListenerFindings(o)
    BY DEF ListenerFindings, Gap, When
  <2>3. <<"NoAlert", "no denied packets">> \notin QualityFindings(o)
    BY DEF QualityFindings, Gap, When
  <2>4. <<"NoAlert", "no denied packets">> \notin PolicyFindings(o)
    BY DEF PolicyFindings, When
  <2>5. <<"NoAlert", "no denied packets">> \notin DriftFindings(o) \cup JournalFindings(o)
    BY DEF DriftFindings, JournalFindings, Gap, When
  <2> QED
    BY <2>1, <2>2, <2>3, <2>4, <2>5 DEF Findings
<1>3. {"kernelJournal", "logDenied"} \subseteq Observations
  BY DEF Observations, Firewalld
<1>4. ASSUME DenialFinding(o) = <<"NoAlert", "no denied packets">>
      PROVE  /\ Known(o, "kernelJournal") /\ o["kernelJournal"].value = 0
             /\ Known(o, "logDenied") /\ o["logDenied"].value # "off"
  <2>1. /\ o["kernelJournal"].status # "Partial" /\ o["kernelJournal"].status # "Unavailable"
        /\ ~(Known(o, "kernelJournal") /\ o["kernelJournal"].value > 0)
        /\ Known(o, "logDenied") /\ o["logDenied"].value # "off"
    BY <1>4 DEF DenialFinding, Gap
  <2>2. Known(o, "kernelJournal")
    BY <1>3, <2>1 DEF CollectionInv, Status, Known
  <2>3. o["kernelJournal"].value \in 0..2
    <3>1. CASE Excused("kernelJournal", o["kernelJournal"].value)
      BY <3>1 DEF Excused, Skipping, Harmless
    <3>2. CASE ~Excused("kernelJournal", o["kernelJournal"].value)
      <4>1. PICK h \in Hosts : o["kernelJournal"].value = Truth(h, "kernelJournal")
        BY <1>3, <2>2, <3>2, Witness
      <4> QED
        BY <4>1 DEF Truth, Hosts
    <3> QED
      BY <3>1, <3>2
  <2> QED
    BY <2>1, <2>2, <2>3
<1> QED
  BY <1>1, <1>2, <1>4 DEF ThreatSafe, When, KnownSafe

\* A count of 0 means that there is nothing.
LEMMA CountFacts ==
  /\ \A items \in SUBSET Exposures : /\ Count(items) = 0 => Exposed(o) \cap items = {}
                                     /\ ~(Count(items) > 0) => Exposed(o) \cap items = {}
  /\ Cardinality(Reachable(o)) = 0 => Reachable(o) = {}
<1>1. IsFiniteSet(Exposures) /\ IsFiniteSet({"attributed", "anonymous"})
  <2>1. \A x, y : IsFiniteSet({x, y})
    <3> TAKE x, y
    <3>1. IsFiniteSet({x}) /\ {x, y} = {x} \cup {y}
      BY FS_Singleton
    <3> QED
      BY <3>1, FS_AddElement
  <2> DEFINE A == {"services", "ports"} \cup {"broadPorts", "protocols"}
             B == {"sourcePorts", "richRules"} \cup {"forwardPorts", "masquerade"}
             C == {"forward", "accept"}
  <2>2. IsFiniteSet(A) /\ IsFiniteSet(B) /\ IsFiniteSet(C)
    BY <2>1, FS_Union
  <2>3. Exposures = A \cup B \cup C
    BY DEF Exposures, Selectors
  <2> HIDE DEF A, B, C
  <2> QED
    BY <2>1, <2>2, <2>3, FS_Union
<1>2. \A items \in SUBSET Exposures : IsFiniteSet(Exposed(o) \cap items)
  <2> SUFFICES ASSUME NEW items \in SUBSET Exposures PROVE IsFiniteSet(Exposed(o) \cap items)
    OBVIOUS
  <2>1. Exposed(o) \cap items \subseteq Exposures
    OBVIOUS
  <2> QED
    BY <1>1, <2>1, FS_Subset
<1>3. IsFiniteSet(Reachable(o))
  <2>1. Reachable(o) \subseteq {"attributed", "anonymous"}
    BY DEF Reachable
  <2> QED
    BY <1>1, <2>1, FS_Subset
<1>4. \A items \in SUBSET Exposures : Count(items) \in Nat /\ (Count(items) = 0 => Exposed(o) \cap items = {})
  BY <1>2, FS_CardinalityType, FS_EmptySet DEF Count
<1>5. Cardinality(Reachable(o)) = 0 => Reachable(o) = {}
  BY <1>3, FS_EmptySet
<1> QED
  BY <1>4, <1>5

\* A document denies, and a page shows denied, what is known to be so.
LEMMA DocumentFacts ==
  ASSUME DetailsKnown(o) PROVE \A i \in DocumentSafe \cup PageSafe : KnownSafe(i)
<1>1. /\ Summary.active = {TRUE} => Known(o, "service") /\ o["service"].value
      /\ Summary.enabled = {TRUE} => Known(o, "enablement") /\ o["enablement"].value
  BY DEF Summary, Nullable, When
<1>2. /\ Summary.ports = {0} => Count({"ports", "broadPorts"}) = 0
      /\ Summary.protocols = {0} => Count({"protocols"}) = 0
      /\ Summary.richRules = {0} => Count({"richRules"}) = 0
  BY DEF Summary, Nullable, When
<1>3. Summary.forward = {FALSE} => ~(Count({"forward"}) > 0)
  BY DEF Summary, Nullable, When
<1>4. Summary.listeners = {0} => Known(o, "sockets") /\ Cardinality(Reachable(o)) = 0
  BY DEF Summary, Nullable, When
<1>5. /\ ~(Summary.tunnel \subseteq {""}) => Known(o, "tunnels") /\ o["tunnels"].value
      /\ Summary.tunnel = {""} => Known(o, "tunnels") /\ ~o["tunnels"].value
  BY DEF Summary, Nullable, When
<1>6. /\ Count({"ports", "broadPorts"}) = 0 => None("ports")
      /\ Count({"protocols"}) = 0 => None("protocols")
      /\ Count({"richRules"}) = 0 => None("richRules")
      /\ ~(Count({"forward"}) > 0) => None("forward")
  BY CountFacts DEF None, Counted, Exposures, Selectors
<1>7. ASSUME NEW i \in DocumentSafe PROVE KnownSafe(i)
  <2>1. \/ i = "active" /\ Summary.active = {TRUE}
        \/ i = "enabled" /\ Summary.enabled = {TRUE}
        \/ i = "ports" /\ Summary.ports = {0}
        \/ i = "protocols" /\ Summary.protocols = {0}
        \/ i = "richRules" /\ Summary.richRules = {0}
        \/ i = "forward" /\ Summary.forward = {FALSE}
        \/ i = "no services" /\ Summary.listeners = {0}
        \/ i = "no tunnel" /\ Summary.tunnel = {""}
    BY DEF DocumentSafe, When
  <2> QED
    BY <1>1, <1>2, <1>3, <1>4, <1>5, <1>6, <2>1, CountFacts DEF KnownSafe, PolicyItems
<1>8. ASSUME NEW i \in PageSafe PROVE KnownSafe(i)
  <2>1. \/ i = "active" /\ Pages.active = "YES"
        \/ i = "enabled" /\ Pages.enabled = "YES"
        \/ i = "ports" /\ Pages.ports = {0}
        \/ i = "protocols" /\ Pages.protocols = {0}
        \/ i = "richRules" /\ Pages.richRules = {0}
        \/ i = "forward" /\ Pages.forward = "NO"
        \/ i = "no services" /\ Pages.listeners = {0}
        \/ i = "tunnel" /\ Pages.tunnel # {"NONE"}
    BY DEF PageSafe, When
  <2>2. /\ Pages.active = "YES" => Summary.active = {TRUE}
        /\ Pages.enabled = "YES" => Summary.enabled = {TRUE}
        /\ Pages.forward = "NO" => Summary.forward = {FALSE}
        /\ Pages.ports = Summary.ports /\ Pages.protocols = Summary.protocols
        /\ Pages.richRules = Summary.richRules /\ Pages.listeners = Summary.listeners
        /\ Pages.tunnel # {"NONE"} => ~(Summary.tunnel \subseteq {""})
    BY DEF Pages, YesNo, Display
  <2> QED
    BY <1>1, <1>2, <1>3, <1>4, <1>5, <1>6, <2>1, <2>2, CountFacts DEF KnownSafe, PolicyItems
<1> QED
  BY <1>7, <1>8

\* So does what the second document adds.
LEMMA DetailsFacts == \A i \in DetailsSafe(Details) : KnownSafe(i)
<1>1. /\ Details.policies = {FALSE} => Known(o, "policies") /\ ~o["policies"].value
      /\ Details.bindings = {{}} => Known(o, "sockets") /\ o["sockets"].value = {}
  BY DEF Details, Nullable, When
<1> QED
  BY <1>1 DEF DetailsSafe, When, KnownSafe

\* What is known to be so was so at some moment.
LEMMA SafeWasTrue ==
  ASSUME HostsInv, OneFacet, CollectionInv, NEW item, RestsOn(item) \cap misread = {},
         KnownSafe(item)
  PROVE  \E h \in seen : Holds(h, item)
<1>1. /\ {"service", "enablement", "config", "panic", "tunnels", "kernelJournal", "logDenied",
           "sockets", "policies"} \subseteq Observations
      /\ \A q \in {"service", "enablement", "config", "panic", "logDenied"} :
            ~Excused(q, o[q].value)
      /\ o["kernelJournal"].value = 0 => ~Excused("kernelJournal", o["kernelJournal"].value)
      /\ ~o["policies"].value => ~Excused("policies", o["policies"].value)
      /\ item \in {"tunnel", "no tunnel"} => ~Excused("tunnels", o["tunnels"].value)
      /\ item \in {"no services", "no sockets"} => ~Excused("sockets", o["sockets"].value)
  <2>1. /\ item \in {"tunnel", "no tunnel"} => "tunnels" \notin misread
        /\ item \in {"no services", "no sockets"} => "sockets" \notin misread
    BY DEF RestsOn, PolicyItems
  <2>2. /\ \A q \in {"service", "enablement", "config", "panic", "logDenied"} :
              ~Excused(q, o[q].value)
        /\ o["kernelJournal"].value = 0 => ~Excused("kernelJournal", o["kernelJournal"].value)
    BY DEF Excused, Skipping, Harmless
  <2>3. Excused("policies", o["policies"].value) => o["policies"].value
    BY Zenon DEF Excused, Skipping, Harmless
  <2>4. /\ Excused("tunnels", o["tunnels"].value) => "tunnels" \in misread
        /\ Excused("sockets", o["sockets"].value) => "sockets" \in misread
    BY DEF Excused, Harmless
  <2> QED
    BY <2>1, <2>2, <2>3, <2>4, Zenon DEF Observations, Firewalld
<1>2. CASE item = "active" /\ Known(o, "service") /\ o["service"].value
  <2>1. PICK h \in seen : o["service"].value = Truth(h, "service")
    BY <1>1, <1>2, Witness
  <2> QED
    BY <1>2, <2>1 DEF Holds, Truth, PolicyItems
<1>3. CASE item = "enabled" /\ Known(o, "enablement") /\ o["enablement"].value
  <2>1. PICK h \in seen : o["enablement"].value = Truth(h, "enablement")
    BY <1>1, <1>3, Witness
  <2> QED
    BY <1>3, <2>1 DEF Holds, Truth, PolicyItems
<1>4. CASE item = "valid" /\ Known(o, "config") /\ o["config"].value
  <2>1. PICK h \in seen : o["config"].value = Truth(h, "config")
    BY <1>1, <1>4, Witness
  <2> QED
    BY <1>4, <2>1 DEF Holds, Truth, PolicyItems
<1>5. CASE item = "no panic" /\ Known(o, "panic") /\ ~o["panic"].value
  <2>1. PICK h \in seen : o["panic"].value = Truth(h, "panic")
    BY <1>1, <1>5, Witness
  <2> QED
    BY <1>5, <2>1 DEF Holds, Truth, PolicyItems
<1>6. CASE /\ item \in {"tunnel", "no tunnel"} /\ Known(o, "tunnels")
           /\ item = "tunnel" => o["tunnels"].value
           /\ item = "no tunnel" => ~o["tunnels"].value
  <2>1. PICK h \in seen : o["tunnels"].value = Truth(h, "tunnels")
    BY <1>1, <1>6, Witness
  <2> QED
    BY <1>6, <2>1 DEF Holds, Truth, PolicyItems
<1>7. CASE item = "no denials" /\ Known(o, "kernelJournal") /\ o["kernelJournal"].value = 0
  <2>1. PICK h \in seen : o["kernelJournal"].value = Truth(h, "kernelJournal")
    BY <1>1, <1>7, Witness
  <2> QED
    BY <1>7, <2>1 DEF Holds, Truth, PolicyItems
<1>8. CASE item = "logged" /\ Known(o, "logDenied") /\ o["logDenied"].value # "off"
  <2>1. PICK h \in seen : o["logDenied"].value = Truth(h, "logDenied")
    BY <1>1, <1>8, Witness
  <2> QED
    BY <1>8, <2>1 DEF Holds, Truth, PolicyItems
<1>9. CASE /\ item \in {"no services", "no sockets"} /\ Known(o, "sockets")
           /\ item = "no services" => Reachable(o) = {}
           /\ item = "no sockets" => o["sockets"].value = {}
  <2>1. PICK h \in seen : o["sockets"].value = Truth(h, "sockets")
    BY <1>1, <1>9, Witness
  <2> QED
    BY <1>9, <2>1 DEF Holds, Truth, Reachable, PolicyItems
<1>10. CASE item = "no policies" /\ Known(o, "policies") /\ ~o["policies"].value
  <2>1. PICK h \in seen : o["policies"].value = Truth(h, "policies")
    BY <1>1, <1>10, Witness
  <2> QED
    BY <1>10, <2>1 DEF Holds, Truth, PolicyItems
<1>11. CASE item \in PolicyItems \cup {"richRules"} /\ DetailsKnown(o) /\ None(item)
  <2>1. PICK h \in seen : \A z \in Carrying(h) : h.runtime[z].policy \subseteq Exposed(o)
    <3>1. misread \cap Relied = {}
      BY <1>11 DEF RestsOn, PolicyItems
    <3> QED
      BY <1>11, <3>1, DetailsMoment
  <2>2. ~OpenTo(h, Counted(item))
    BY <1>11, <2>1 DEF OpenTo, None
  <2> QED
    BY <1>11, <2>2 DEF Holds, PolicyItems
<1> QED
  BY <1>2, <1>3, <1>4, <1>5, <1>6, <1>7, <1>8, <1>9, <1>10, <1>11 DEF KnownSafe

\* The listings are those of hosts that were seen.
LEMMA ListingWasTrue ==
  ASSUME HostsInv, CollectionInv, NEW q \in {"runtime", "permanent"}, q \notin misread,
         Known(o, q)
  PROVE  \E h \in seen : /\ h \in Hosts
                         /\ o[q].value = Listing(IF q = "runtime" THEN h.runtime ELSE h.permanent)
<1>1. q \in Observations /\ ~Excused(q, o[q].value)
  BY DEF Observations, Firewalld, Excused, Skipping, Harmless
<1>2. PICK h \in seen : o[q].value = Truth(h, q)
  BY <1>1 DEF CollectionInv, Told
<1> QED
  BY <1>2 DEF HostsInv, Truth

\* Listings that agree on a zone agreed at one moment.
LEMMA SavedWasTrue ==
  ASSUME HostsInv, OneFacet, CollectionInv, {"runtime", "permanent"} \cap misread = {},
         Known(o, "runtime"), Known(o, "permanent"),
         NEW z \in Listed(o), z \in DOMAIN o["permanent"].value,
         o["runtime"].value[z] = o["permanent"].value[z]
  PROVE  \E h \in seen : h.runtime[z] = h.permanent[z]
<1>1. PICK h \in seen : h \in Hosts /\ o["runtime"].value = Listing(h.runtime)
  BY ListingWasTrue
<1>2. PICK k \in seen : k \in Hosts /\ o["permanent"].value = Listing(k.permanent)
  BY ListingWasTrue
<1>3. z \in Zones
  BY <1>1 DEF Listed, Listing
<1>4. /\ h.runtime[z].policy = k.permanent[z].policy
      /\ h.runtime[z].sources = k.permanent[z].sources
  BY <1>1, <1>2, <1>3 DEF Listing
<1>5. /\ h.runtime[z] \in ZoneConfigs /\ k.permanent[z] \in ZoneConfigs
      /\ h.permanent[z] \in ZoneConfigs /\ k.runtime[z] \in ZoneConfigs
  BY <1>1, <1>2, <1>3 DEF Hosts
<1>6. PICK facet : SameBut(h, k, facet)
  BY DEF OneFacet
<1>7. CASE facet = "permanent"
  <2>1. /\ k.runtime[z].policy = k.permanent[z].policy
        /\ k.runtime[z].sources = k.permanent[z].sources
    BY <1>3, <1>4, <1>6, <1>7 DEF SameBut
  <2>2. k.runtime[z] = k.permanent[z]
    BY <1>5, <2>1 DEF ZoneConfigs
  <2> QED
    BY <2>2
<1>8. CASE facet # "permanent"
  <2>1. h.permanent = k.permanent
    BY <1>6, <1>8 DEF SameBut
  <2>2. h.runtime[z] = h.permanent[z]
    BY <1>4, <1>5, <2>1 DEF ZoneConfigs
  <2> QED
    BY <2>2
<1> QED
  BY <1>7, <1>8

\* What is shown of a zone.
LEMMA ZoneFacts ==
  ASSUME HostsInv, OneFacet, CollectionInv, NEW z \in ZonesShown
  PROVE  \A i \in AllSafeOf(z) :
            RestsOnZone(i) \cap misread = {} => \E h \in seen : HoldsOfZone(h, z, i)
<1>1. Known(o, "runtime") /\ z \in Listed(o)
  BY DEF ZonesShown
<1>4. ASSUME NEW i, i \notin o["runtime"].value[z].policy, i # "saved", i # "not applicable",
             RestsOnZone(i) \cap misread = {}
      PROVE  \E k \in seen : HoldsOfZone(k, z, i)
  <2>1. "runtime" \notin misread
    BY <1>4 DEF RestsOnZone
  <2>2. PICK h \in seen : h \in Hosts /\ o["runtime"].value = Listing(h.runtime)
    BY <1>1, <2>1, ListingWasTrue
  <2>3. o["runtime"].value[z].policy = h.runtime[z].policy
    BY <1>1, <2>2 DEF Listed, Listing
  <2> QED
    BY <1>4, <2>3 DEF HoldsOfZone
<1>5. ASSUME Known(o, "permanent"), z \in DOMAIN o["permanent"].value,
             o["runtime"].value[z] = o["permanent"].value[z],
             RestsOnZone("saved") \cap misread = {}
      PROVE  \E k \in seen : HoldsOfZone(k, z, "saved")
  BY <1>1, <1>5, SavedWasTrue DEF HoldsOfZone, RestsOnZone
<1>6. ASSUME NEW i \in ZoneSafe(z), RestsOnZone(i) \cap misread = {}
      PROVE  \E k \in seen : HoldsOfZone(k, z, i)
  BY <1>4, <1>5, <1>6 DEF ZoneSafe, When
<1>7. ASSUME DetailsKnown(o), z \notin Applicable(o), RestsOnZone("not applicable") \cap misread = {}
      PROVE  \E k \in seen : HoldsOfZone(k, z, "not applicable")
  <2>1. misread \cap Relied = {}
    BY <1>7 DEF RestsOnZone
  <2>2. PICK k \in seen : Carrying(k) \subseteq Applicable(o)
    BY <1>7, <2>1, DetailsMoment
  <2> QED
    BY <1>7, <2>2 DEF HoldsOfZone
<1>8. ASSUME DetailsKnown(o), NEW i \in DetailsSafeOf(z, Details),
             RestsOnZone(i) \cap misread = {}
      PROVE  \E k \in seen : HoldsOfZone(k, z, i)
  <2>1. \A zones \in Details.runtime :
           /\ zones[z].policy = o["runtime"].value[z].policy
           /\ zones[z].applicable => z \in Applicable(o)
           /\ z \in Applicable(o) => zones[z].applicable
    <3>1. \A zones \in Details.runtime : zones = [x \in Listed(o) |-> Zone("runtime", x)]
      BY DEF Details, Inventory, Nullable, When, Listed
    <3>2. \A zones \in Details.runtime : zones[z] = Zone("runtime", z)
      BY <1>1, <3>1
    <3>3. Zone("runtime", z).policy = o["runtime"].value[z].policy
      BY DEF Zone
    <3>4. Zone("runtime", z).applicable = (z \in Applicable(o))
      BY DEF Zone
    <3> QED
      BY <3>2, <3>3, <3>4
  <2>2. \A drifted \in Details.drift : drifted = Drifted /\ Known(o, "permanent")
    BY DEF Details, When
  <2>3. z \notin Drifted => /\ z \in DOMAIN o["permanent"].value
                            /\ o["runtime"].value[z] = o["permanent"].value[z]
    BY <1>1 DEF Drifted, Listed
  <2>4. \/ i \in Exposures /\ i \notin o["runtime"].value[z].policy
        \/ i = "not applicable" /\ z \notin Applicable(o)
        \/ i = "saved" /\ Known(o, "permanent") /\ z \notin Drifted
    <3>1. CASE i \in UNION {Denied(zones[z]) : zones \in Details.runtime}
      BY <2>1, <3>1 DEF Denied
    <3>2. CASE i \in UNION {When(~zones[z].applicable, "not applicable") : zones \in Details.runtime}
      BY <2>1, <3>2 DEF When
    <3>3. CASE i \in UNION {When(z \notin drifted, "saved") : drifted \in Details.drift}
      BY <2>2, <3>3 DEF When
    <3>4. \/ i \in UNION {Denied(zones[z]) : zones \in Details.runtime}
          \/ i \in UNION {When(~zones[z].applicable, "not applicable") : zones \in Details.runtime}
          \/ i \in UNION {When(z \notin drifted, "saved") : drifted \in Details.drift}
      BY <1>8 DEF DetailsSafeOf
    <3> QED
      BY <3>1, <3>2, <3>3, <3>4
  <2>5. i \in Exposures => i # "saved" /\ i # "not applicable"
    BY DEF Exposures, Selectors
  <2> QED
    BY <1>4, <1>5, <1>7, <1>8, <2>3, <2>4, <2>5
<1> QED
  BY <1>6, <1>8 DEF AllSafeOf

\* What a screen, a document or a page shows as safe was so at some moment, for any
\* zones, devices and sources and any failed, partial and misread answers, as long as
\* the host is changed at most once and the item does not itself rest on an answer
\* that was misread unnoticed.
THEOREM SafeIsAlwaysTrue == ASSUME MaxChanges <= 1 PROVE Spec => []SafeIsTrue
<1>1. HostsInv /\ OneFacet /\ CollectionInv => SafeIsTrue
  <2> SUFFICES ASSUME HostsInv, OneFacet, CollectionInv PROVE SafeIsTrue
    OBVIOUS
  <2>1. \A i \in AllSafe : KnownSafe(i)
    <3>1. \A i \in UNION {StatusSafe, ExpandedSafe, OverviewSafe, ListenersSafe, ThreatSafe} :
             KnownSafe(i)
      BY StatusFacts, ExpandedFacts, OverviewFacts, ListenersFacts, ThreatFacts
    <3>2. ASSUME NEW i \in Unqualified, DetailsKnown(o) PROVE KnownSafe(i)
      BY <3>2, HomeFacts, DocumentFacts DEF Unqualified
    <3>3. \A i \in SafeItems : KnownSafe(i)
      BY <3>1, <3>2 DEF SafeItems
    <3> QED
      BY <3>3, DetailsFacts DEF AllSafe
  <2>2. \A i \in AllSafe :
           RestsOn(i) \cap misread = {} => \E h \in seen : Holds(h, i)
    BY <2>1, SafeWasTrue
  <2> QED
    BY <2>2, ZoneFacts DEF SafeIsTrue
<1> QED
  BY <1>1, OneFacetInvariance, CollectionInvariance, PTL

=============================================================================
