---------------------------- MODULE PostureViews ----------------------------
(***************************************************************************)
(* What the console's screens (ui/posture_renderer.cpp), the documents and *)
(* the browser's pages say of a collected posture: for each of them the    *)
(* items it shows as safe, a screen by the colour of success, a document   *)
(* by a value that denies an exposure.  The badges of risk and DEF CON     *)
(* readiness are conclusions of module Assessment and judged there;        *)
(* layout, counts and muted text say nothing about safety and are left     *)
(* out.                                                                    *)
(***************************************************************************)
EXTENDS Documents

\* active_exposure_counts: ports and port ranges are counted together.
Counted(item) == IF item = "ports" THEN {"ports", "broadPorts"} ELSE {item}
None(item) == Exposed(o) \cap Counted(item) = {}

PolicyItems == {"services", "ports", "protocols", "sourcePorts", "forwardPorts",
                "forward", "masquerade"}

Shown(item, q) == {i \in {item} : Known(o, q) /\ o[q].value}
NoEntries == When(Known(o, "kernelJournal") /\ o["kernelJournal"].value = 0, "no denials")

\* show_status
StatusSafe ==
    Shown("active", "service") \cup Shown("enabled", "enablement")
    \cup Shown("valid", "config")
    \cup When(Known(o, "panic") /\ ~o["panic"].value, "no panic")

\* show_dashboard_home, the compact home screen.
HomeSafe ==
    Shown("active", "service") \cup Shown("tunnel", "tunnels")
    \cup When(Known(o, "service") /\ o["service"].value /\ None("forward"), "forward")

\* show_dashboard_snapshot, the expanded home screen.
ExpandedSafe ==
    Shown("active", "service") \cup Shown("tunnel", "tunnels") \cup NoEntries
    \cup {i \in Shown("enabled", "enablement") \cup Shown("valid", "config") :
             Known(o, "service") /\ o["service"].value}
    \cup When(DetailsKnown(o) /\ None("forward"), "forward")

\* show_overview: what the zones that apply open, or UNKNOWN.
OverviewPolicy == {i \in PolicyItems : DetailsKnown(o) /\ None(i)}

OverviewSafe ==
    OverviewPolicy \cup NoEntries
    \cup When(Known(o, "sockets") /\ Reachable(o) = {}, "no services")

\* show_listeners
ListenersSafe == When(Known(o, "sockets") /\ o["sockets"].value = {}, "no sockets")

\* show_threat_assessment: findings that are no alert.
ThreatSafe ==
    {i \in {"no denials", "logged"} : <<"NoAlert", "no denied packets">> \in Findings(o)}
    \cup When(<<"NoAlert", "no listeners">> \in Findings(o), "no services")

\* show_zones, of one zone: routing and drift.
ZoneSafe(z) ==
    {i \in {"forward", "masquerade"} : i \notin o["runtime"].value[z].policy}
    \cup When(/\ Known(o, "permanent") /\ z \in DOMAIN o["permanent"].value
              /\ o["runtime"].value[z] = o["permanent"].value[z], "saved")

ZonesShown == {z \in Listed(o) : Known(o, "runtime")}

\* What the summary members of both documents deny, or confirm.
DocumentSafe ==
    LET document == Summary
    IN  {i \in {"active", "enabled"} : document[i] = {TRUE}}
        \cup {i \in {"ports", "protocols", "richRules"} : document[i] = {0}}
        \cup When(document.forward = {FALSE}, "forward")
        \cup When(document.listeners = {0}, "no services")
        \cup When(document.tunnel = {""}, "no tunnel")

\* What the second document adds, of the host and of a zone that it lists.
DetailsSafe(document) == When(document.policies = {FALSE}, "no policies")
                         \cup When(document.bindings = {{}}, "no sockets")

\* Without a target a zone is not said to accept, nor not to.
Denied(zone) == {e \in Exposures : e \notin zone.policy /\ (e = "accept" => zone.target)}

DetailsSafeOf(z, document) ==
    (UNION {Denied(zones[z]) : zones \in document.runtime})
    \cup (UNION {When(~zones[z].applicable, "not applicable") : zones \in document.runtime})
    \cup (UNION {When(z \notin drifted, "saved") : drifted \in document.drift})

\* What the pages show; their "NONE" for the tunnel stands for unknown, too.
PageSafe ==
    LET shown == Pages
    IN  {i \in {"active", "enabled"} : shown[i] = "YES"}
        \cup {i \in {"ports", "protocols", "richRules"} : shown[i] = {0}}
        \cup When(shown.forward = "NO", "forward")
        \cup When(shown.listeners = {0}, "no services")
        \cup When(shown.tunnel # {"NONE"}, "tunnel")

-----------------------------------------------------------------------------
\* What an item says of a host.
Holds(h, item) ==
    CASE item \in PolicyItems \cup {"richRules"} -> ~OpenTo(h, Counted(item))
      [] item = "active" -> h.running
      [] item = "enabled" -> h.enabled
      [] item = "valid" -> h.configValid
      [] item = "no panic" -> ~h.panic
      [] item = "tunnel" -> h.tunnel
      [] item = "no tunnel" -> ~h.tunnel
      [] item = "no denials" -> h.denials = 0
      [] item = "logged" -> h.logDenied # "off"
      [] item = "no services" -> h.listeners \cap {"attributed", "anonymous"} = {}
      [] item = "no sockets" -> h.listeners = {}
      [] item = "no policies" -> ~h.policies

HoldsOfZone(h, z, item) ==
    CASE item = "saved"          -> h.runtime[z] = h.permanent[z]
      [] item = "not applicable" -> z \notin Carrying(h)
      [] OTHER                   -> item \notin h.runtime[z].policy

\* The answers that an item rests on, of those that are taken as available although
\* lines of them were not recognised.
RestsOn(item) ==
    CASE item \in PolicyItems \cup {"richRules"}   -> Relied
      [] item \in {"no services", "no sockets"}     -> {"sockets"}
      [] item \in {"tunnel", "no tunnel"}           -> {"tunnels"}
      [] OTHER                                      -> {}

RestsOnZone(item) ==
    CASE item = "saved"          -> {"runtime", "permanent"}
      [] item = "not applicable" -> Relied
      [] OTHER                   -> {"runtime"}

\* A view that does not know which zones apply.  The expanded home screen and the
\* overview say so; the compact home screen does not, and the documents list a gap
\* but still count, see KnownBeforeSafe.
Unqualified == DocumentSafe \cup PageSafe \cup HomeSafe

SafeItems ==
    (UNION {StatusSafe, ExpandedSafe, OverviewSafe, ListenersSafe, ThreatSafe})
    \cup {i \in Unqualified : DetailsKnown(o)}

AllSafe == SafeItems \cup DetailsSafe(Details)
AllSafeOf(z) == ZoneSafe(z) \cup {i \in DetailsSafeOf(z, Details) : DetailsKnown(o)}

\* What a screen, a document or a page shows as safe was so at some moment of the
\* collection, although bindings, default zone, devices and policies were asked for
\* one after another and the host was changed once, unless the item rests on an
\* answer of which a line was not recognised and the code did not notice, see
\* RecognisedBeforeSafe (posture_renderer.cpp:78-111, 152-247, 249-485,
\* dashboard_json.cpp:94-147, dashboard_json_v2.cpp:253-321, section-page.js:45-112).
SafeIsTrue ==
    Done =>
        /\ \A i \in AllSafe :
              RestsOn(i) \cap misread = {} => \E h \in seen : Holds(h, i)
        /\ \A z \in ZonesShown : \A i \in AllSafeOf(z) :
              RestsOnZone(i) \cap misread = {} => \E h \in seen : HoldsOfZone(h, z, i)

\* README.md:83: a false or empty value is displayed as safe only when its query
\* succeeded and its command-specific output is recognized. Less than that: what is
\* shown as safe although lines of its answer were skipped is so all the same.
RecognisedBeforeSafe ==
    Done => \A i \in AllSafe : RestsOn(i) \cap misread # {} => \E h \in seen : Holds(h, i)

\* The recommendation that the documents and the home page put first is about what
\* makes the risk: panic mode before everything, a blocker when the risk is
\* "Blocked", a review item when it is "Review", and never nothing
\* (dashboard_state.cpp:71-89, 207-225, dashboard_json.cpp:69-70).
RecommendationFits ==
    Done =>
        /\ Primary(o) # {}
        /\ \A f \in Primary(o) :
              IF "panic" \in Blockers(o) THEN f = "panic"
              ELSE CASE Risk(o) = "Blocked" -> f \in Blockers(o)
                     [] Risk(o) = "Review"  -> f \in Reviews(o)
                     [] OTHER               -> f \in DashboardGaps(o)

\* README.md:83: a false or empty value is displayed as safe only when its query
\* succeeded and its output is recognized; of what the zones that apply do not open:
\* only when these zones, and all fields of their policies, are known.
KnownBeforeSafe ==
    Done /\ (Unqualified \cap (PolicyItems \cup {"richRules"}) # {}
             \/ ReadinessExitCode(o, depth) = 0)
    => /\ DetailsKnown(o)
       /\ \A z \in Applicable(o) : o["runtime"].value[z].valid
=============================================================================
