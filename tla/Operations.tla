------------------------------ MODULE Operations ------------------------------
(***************************************************************************)
(* One ffc process from its command line to its exit code:                 *)
(* OperationsConsole::run (app/application.cpp), CommandExecutor::execute, *)
(* the network evidence, diagnostics, advisory, credential and log         *)
(* analysis services it calls, and the actions of InteractiveSession that  *)
(* do something themselves.                                                *)
(*                                                                         *)
(* A process is a sequence of log records, which may fail, and of steps:   *)
(* external commands, terminal and storage calls, each of which may fail   *)
(* too.  It may be killed between any two of them, or in the middle of     *)
(* one.  The process numbers what it is asked for: 0 is its command line,  *)
(* further requests are selections in the console.                         *)
(*                                                                         *)
(* A posture collection is one step here (module Posture has its commands) *)
(* and so is a file that is written (PrivateStorage, NetworkHistory and    *)
(* Console have its system calls).                                         *)
(***************************************************************************)
EXTENDS Integers

CONSTANTS
    MaxRequests,   \* bound: the selections made in one console
    MaxChanges     \* bound: how often a tunnel comes or goes

VARIABLES
    action,    \* the action of the command line
    request,   \* the number of the request in hand
    doing,     \* what it asks for
    pc,        \* the next thing run(), or the console's run(), does
    todo,      \* the steps left of the request in hand, done by their place
    results,   \* what its steps so far resulted in
    code,      \* the exit code
    vpn,       \* what the last scan of interfaces told: tunnel, no tunnel
    records,   \* the log records that were stored, of all channels
    warned,    \* the operator was told that records are not stored
    echo,      \* the terminal shows what is typed
    tunnel,    \* what is so: there is a tunnel interface, up or down
    changes,   \* how often that changed
    effects,   \* history: what requests have brought about
    shortfall, \* history: requests that fell short of what ffc looks at (FellShort)
    unmet,     \* history: a part of the request in hand failed (Failing)
    since,     \* history: the states of the tunnel since the last scan began
    scanned    \* history: that scan succeeded, with output it recognised

world == <<tunnel, changes>>
vars  == <<action, request, doing, pc, todo, results, code, vpn, records, warned, echo,
           world, effects, shortfall, unmet, since, scanned>>

-------------------------------------------------------------------------------
(* The actions. *)

Diagnostics == {"network-diagnostics", "network-diagnostics-extended",
                "network-diagnostics-advanced"}
Captures    == {"network-metadata", "network-metadata-enrich"}
Postures    == {"status", "snapshot-json", "snapshot-json-v2", "readiness",
                "threat-assessment"}
Plain       == {"help", "invalid"}

\* parse_command_line: what a command line can ask for.
CommandActions ==
    Diagnostics \cup Captures \cup Postures \cup Plain \cup
    {"interactive", "listeners", "security-advisories", "network-history",
     "log-analysis", "configure-ipify-key", "mode", "mode-set"}

\* What the console's menus offer that is more than a view of the last posture; the
\* configuration drift and the monitor's are some of these under other names.
Selections == {"refresh", "readiness", "threat-assessment", "network-diagnostics",
               "network-metadata", "network-history", "security-advisories",
               "log-analysis"}
Collecting == {"refresh"} \cup Postures

\* The channel that an action is recorded on.
Channel(a) ==
    IF a \in {"readiness", "listeners", "threat-assessment", "security-advisories"}
    THEN "security" ELSE "audit"

\* The four logs, each read by itself.
Logs == {"read-operations", "read-audit", "read-security", "read-error"}

\* What an action does.  In the console the interfaces were scanned by the last
\* refresh.
Steps(a) ==
    CASE a = "configure-ipify-key" -> {"hide", "read-key", "restore", "save-key"}
      [] a = "mode"                -> {"load-mode"}
      [] a = "mode-set"            -> {"save-mode"}
      [] a = "network-diagnostics-advanced" -> {"ping", "traceroute", "mtr", "dig"}
      [] a \in Diagnostics \ {"network-diagnostics-advanced"} -> {"ping", "traceroute"}
      [] a = "security-advisories" -> {"advisories"}
      [] a = "log-analysis"        -> Logs
      [] a = "network-history"     -> {"read-history"}
      [] a = "listeners"           -> {"sockets"}
      [] a = "network-metadata"    -> {"route", "public-ip", "append"}
      [] a = "network-metadata-enrich" ->
            {"route", "public-ip", "load-key", "enrich", "append"}
      [] a \in Collecting \cup {"interactive"} -> {"scan", "posture"}
      [] a \in Plain               -> {}

\* A capture asked for on the command line scans the interfaces itself.
CommandSteps(a) == IF a \in Captures THEN {"scan"} \cup Steps(a) ELSE Steps(a)

\* The place of a step among those of its action.
Place(step) ==
    CASE step \in {"read-key", "traceroute", "route", "posture", "read-audit"} -> 2
      [] step \in {"restore", "mtr", "public-ip", "read-security"}             -> 3
      [] step \in {"save-key", "dig", "load-key", "read-error"}                -> 4
      [] step = "enrich" -> 5
      [] step = "append" -> 6
      [] OTHER           -> 1

\* The step in hand: at most one, as those of an action differ in place.
InHand == {step \in todo : pc = "perform" /\ \A s \in todo : Place(step) <= Place(s)}

\* Mutant: input that ends while the echo is off returns at once.
ReturnsAtOnce(step) ==
    CASE step = "hide"      -> {"read-key", "restore", "save-key"}
      [] step = "read-key"  -> {"restore", "save-key"}
      [] step = "restore"   -> {"save-key"}
      [] step = "load-key"  -> {"enrich"}
      [] step = "public-ip" -> {"append"}
      [] OTHER              -> {}

\* The later steps that a step which failed leaves out.
Skips(step) ==
    CASE step = "hide"      -> {"read-key", "restore", "save-key"}
      [] step = "read-key"  -> {"save-key"}
      [] step = "restore"   -> {"save-key"}
      [] step = "load-key"  -> {"enrich"}
      [] step = "public-ip" -> {"append"}
      [] OTHER              -> {}

Tools == {"ping", "traceroute", "mtr", "dig"}

\* A tool that is there may fail, one that is not is missing, as a log may be; the
\* interfaces may be listed in a form that is not recognised; firewalld may not be
\* there for a posture, or readiness checks of it warn or fail.
Outcomes(step) ==
    {"ok", "failed"} \cup (CASE step \in Tools \cup Logs -> {"missing"}
                             [] step = "scan"           -> {"misread"}
                             [] step = "posture"        -> {"review", "unfit"}
                             [] OTHER                   -> {})

Came(step, outcome) == step \in DOMAIN results /\ results[step] = outcome
Ok(step)            == Came(step, "ok")
Missing             == \E t \in Tools : Came(t, "missing")

\* Mutant: what was looked up counts, saved or not.
LookedUp == Ok("public-ip")

\* NetworkCapture::successful
Captured == Ok("public-ip") /\ Ok("append")

\* LogAnalysis::logs_available: of one log at least.
LogsAvailable == \E l \in Logs : Ok(l)

\* CommandExecutor::execute: the exit code.
Code(a) ==
    CASE a = "help"                -> 0
      [] a = "invalid"             -> 2
      [] a = "configure-ipify-key" -> IF Ok("save-key") THEN 0 ELSE 2
      [] a = "mode"                -> IF Ok("load-mode") THEN 0 ELSE 2
      [] a = "mode-set"            -> IF Ok("save-mode") THEN 0 ELSE 2
      [] a \in Diagnostics         -> IF Missing THEN 2 ELSE 0
      [] a = "security-advisories" -> IF Ok("advisories") THEN 0 ELSE 2
      [] a = "log-analysis"        -> IF LogsAvailable THEN 0 ELSE 2
      [] a = "network-history"     -> IF Ok("read-history") THEN 0 ELSE 2
      [] a = "listeners"           -> IF Ok("sockets") THEN 0 ELSE 2
      [] a \in Captures            -> IF Captured THEN 0 ELSE 2
      [] a = "status"              -> IF Came("posture", "failed") THEN 2 ELSE 0
      [] a = "readiness"           -> IF Ok("posture") THEN 0
                                      ELSE IF Came("posture", "review") THEN 1 ELSE 2
      [] OTHER                     -> 0

\* The console records what it could not do as an error.
SelectionFailed(a) ==
    CASE a = "network-diagnostics" -> Missing
      [] a = "network-metadata"    -> ~Captured
      [] a = "network-history"     -> ~Ok("read-history")
      [] a = "security-advisories" -> ~Ok("advisories")
      [] a = "log-analysis"        -> ~LogsAvailable
      [] OTHER                     -> FALSE

-------------------------------------------------------------------------------
(* Log records. *)

\* record_event: the record is stored, or the operator is told, once.
Record(channel, event) ==
    \/ records' = records \cup {<<channel, request, event>>} /\ UNCHANGED warned
    \/ warned' = TRUE /\ UNCHANGED records

\* At one point of the program a record is written, and it goes on to the next.
RecordAt(point, channel, event, next) ==
    /\ pc = point /\ pc' = next
    /\ Record(channel, event)
    /\ UNCHANGED <<action, request, doing, todo, results, code, vpn, echo, world,
                   effects, shortfall, unmet, since, scanned>>

Start == RecordAt("start", "operations", "application-start", "request")

\* Mutant: the request is recorded when it is done.
RequestUnrecorded ==
    /\ pc = "request" /\ pc' = IF action = "interactive" THEN "open" ELSE "perform"
    /\ UNCHANGED <<action, request, doing, todo, results, code, vpn, records, warned, echo,
                   world, effects, shortfall, unmet, since, scanned>>

RequestRecorded ==
    RecordAt("request", Channel(action), "requested",
             IF action = "interactive" THEN "open" ELSE "perform")

\* Mutant: only the worse exit code is a failure.
ExitQuietly ==
    RecordAt("exit", "operations", "application-exit", IF code = 2 THEN "failed" ELSE "ended")

ExitRecorded ==
    RecordAt("exit", "operations", "application-exit", IF code # 0 THEN "failed" ELSE "ended")
ActionFailed == RecordAt("failed", Channel(action), "action-failed", "error")
ErrorRecorded == RecordAt("error", "error", "action-failed", "ended")

OpenSession  == RecordAt("open", "audit", "interactive-session-start", "refresh")
CloseSession == RecordAt("close", "audit", "interactive-session-end", "leave")
Selected     == RecordAt("selected", Channel(doing), "requested",
                         IF doing \in Collecting THEN "refresh" ELSE "perform")
Refreshed    == RecordAt("refresh", "operations", "posture-refresh", "perform")
Reported     == RecordAt("report", "error", "unavailable", "read")

-------------------------------------------------------------------------------
(* Steps. *)

\* A step does what it is for when it succeeds, and may have done it when it
\* fails or the process is killed in it.
Brings(step) ==
    CASE step = "save-mode" -> {<<request, "mode">>}
      [] step = "save-key"  -> {<<request, "key">>}
      [] step = "append"    -> {<<request, "observation">>}
      [] step \in {"ping", "traceroute", "mtr", "dig", "public-ip", "enrich", "advisories"} ->
            {<<request, "traffic">>}
      [] OTHER -> {}

\* Mutant: a scan that fails leaves what the one before it told.
ScanKept(outcome) == IF outcome = "ok" THEN tunnel ELSE vpn

\* VpnInspector::inspect: a scan that fails, or whose output is not recognised, tells
\* of no tunnel.
Scanned(outcome) == outcome = "ok" /\ tunnel

\* By this step a request falls short of what ffc looks at: a tool is missing; a
\* prompt, a store, a query or the look-up of the address failed; --status finds no
\* firewalld; --readiness has something to warn of or a check that fails.
Fell(step, outcome) ==
    \/ step \in Tools /\ outcome = "missing"
    \/ step \in {"hide", "read-key", "restore", "save-key", "load-mode", "save-mode",
                "advisories", "read-history", "sockets", "public-ip", "append"} /\ outcome # "ok"
    \/ step = "posture" /\ action = "readiness" /\ outcome # "ok"
    \/ step = "posture" /\ action = "status" /\ outcome = "failed"

\* The same of all that a request resulted in: none of the logs could be read.
FellShort(res) ==
    \/ \E step \in DOMAIN res : Fell(step, res[step])
    \/ \A l \in Logs : l \in DOMAIN res /\ res[l] # "ok"

\* A failed part of an action, or a dependency of the console that is not available,
\* in all the ways that there are.  A test of the network that fails is a result.
Failing(step, outcome) ==
    /\ outcome = "failed" /\ step \notin Tools
    /\ step \in {"scan", "route", "posture"} => action = "interactive"

\* The terminal after a step that succeeded.
EchoAfter(step) == CASE step = "hide" -> FALSE [] step = "restore" -> TRUE [] OTHER -> echo

\* The next step of the request.
Perform ==
    /\ \E step \in InHand : \E outcome \in Outcomes(step) :
          /\ todo' = todo \ ({step} \cup IF outcome = "ok" THEN {} ELSE Skips(step))
          /\ results' = [s \in DOMAIN results \cup {step} |->
                            IF s = step THEN outcome ELSE results[s]]
          /\ effects' \in {effects \cup Brings(step)} \cup {e \in {effects} : outcome # "ok"}
          /\ shortfall' = IF FellShort(results') THEN shortfall \cup {request} ELSE shortfall
          /\ unmet' = (unmet \/ Failing(step, outcome))
          /\ echo' = IF outcome = "ok" THEN EchoAfter(step) ELSE echo
          /\ vpn' = IF step = "scan" THEN Scanned(outcome) ELSE vpn
          /\ scanned' = IF step = "scan" THEN outcome = "ok" ELSE scanned
          /\ since' = IF step = "scan" THEN {tunnel} ELSE since
    /\ UNCHANGED <<action, request, doing, pc, code, records, warned, world>>

\* The request is done: its exit code is computed, or its failure recorded and
\* its results dropped.
Done ==
    /\ pc = "perform" /\ todo = {}
    /\ IF action = "interactive"
       THEN /\ pc' = IF SelectionFailed(doing) THEN "report" ELSE "read"
            /\ results' = <<>> /\ UNCHANGED code
       ELSE pc' = "exit" /\ code' = Code(action) /\ UNCHANGED results
    /\ UNCHANGED <<action, request, doing, todo, vpn, records, warned, echo,
                   world, effects, shortfall, unmet, since, scanned>>

-------------------------------------------------------------------------------
(* The process. *)

Init ==
    /\ action \in CommandActions /\ doing = action /\ request = 0
    /\ pc = "start" /\ todo = CommandSteps(action) /\ results = <<>>
    /\ code = 0 /\ vpn = FALSE
    /\ records = {} /\ warned = FALSE /\ echo = TRUE
    /\ tunnel \in BOOLEAN /\ changes = 0
    /\ effects = {} /\ shortfall = {} /\ unmet = FALSE /\ since = {tunnel} /\ scanned = FALSE

\* A key that selects an action of a menu.
Select ==
    /\ pc = "read" /\ request < MaxRequests
    /\ request' = request + 1 /\ doing' \in Selections
    /\ pc' = "selected" /\ todo' = Steps(doing') /\ results' = <<>>
    /\ unmet' = FALSE
    /\ UNCHANGED <<action, code, vpn, records, warned, echo, world, effects,
                   shortfall, since, scanned>>

\* The end of the input or a key that quits; run() then returns 0.
Quit ==
    /\ pc = "read" /\ pc' = "close"
    /\ UNCHANGED <<action, request, doing, todo, results, code, vpn, records, warned,
                   echo, world, effects, shortfall, unmet, since, scanned>>

Leave ==
    /\ pc = "leave" /\ pc' = "exit" /\ code' = 0 /\ request' = 0
    /\ UNCHANGED <<action, doing, todo, results, vpn, records, warned, echo, world,
                   effects, shortfall, unmet, since, scanned>>

\* The process is killed, perhaps in the middle of a step.
Kill ==
    /\ pc \notin {"ended", "killed"} /\ pc' = "killed"
    /\ effects' \in {effects} \cup {effects \cup Brings(step) : step \in InHand}
    /\ UNCHANGED <<action, request, doing, todo, results, code, vpn, records, warned,
                   echo, world, shortfall, unmet, since, scanned>>

\* A tunnel comes or goes.
TunnelChanges ==
    /\ changes < MaxChanges /\ changes' = changes + 1
    /\ tunnel' = ~tunnel /\ since' = since \cup {~tunnel}
    /\ UNCHANGED <<action, request, doing, pc, todo, results, code, vpn, records, warned,
                   echo, effects, shortfall, unmet, scanned>>

Recording ==
    \/ Start \/ RequestRecorded \/ ExitRecorded \/ ActionFailed \/ ErrorRecorded
    \/ OpenSession \/ CloseSession \/ Selected \/ Refreshed \/ Reported

Next == Recording \/ Perform \/ Done \/ Select \/ Quit \/ Leave \/ Kill \/ TunnelChanges

Spec == Init /\ [][Next]_vars

-------------------------------------------------------------------------------
\* Nothing is done that the logs do not say was requested: before a mode, a key
\* or an observation is stored, or a packet sent, the request stands in its log
\* or the operator was told that records are not kept, wherever the process is
\* killed (application.cpp:13-23, interactive_session.cpp:17-30).
EffectRequested ==
    \A e \in effects :
        warned \/ \E ch \in {"audit", "security"} : <<ch, e[1], "requested">> \in records

\* The request in hand is carried out, and what it failed by recorded.
Over == pc = IF action = "interactive" THEN "read" ELSE "ended"

Concluded(r) == Over \/ (r < request /\ action = "interactive")

Told(r) ==
    warned \/ \E event \in {"action-failed", "unavailable"} : <<"error", r, event>> \in records

\* A request that fell short by a missing tool, a prompt, a store, a query, the look-up
\* of the address, all four logs, or by what --status and --readiness report, leaves a
\* record in the error log or a warning, on the command line and in the console, across
\* the steps that an earlier failure left out.  Other failures do not (ErrorLogComplete).
FailureRecorded == \A r \in shortfall : Concluded(r) => Told(r)

\* README.md:89: "`error.log` records failed actions and unavailable interactive
\* dependencies."
ErrorLogComplete == Over /\ unmet => Told(request)

\* What an action is to store.
Stores(a) ==
    CASE a = "configure-ipify-key" -> {"key"}
      [] a = "mode-set"            -> {"mode"}
      [] a \in Captures            -> {"observation"}
      [] OTHER                     -> {}

\* What was to be stored is stored, or the operator learns that it is not: a command
\* that exits with 0 stored its key, mode or observation, and so did a capture in the
\* console that left neither an error record nor a warning, whatever failed before
\* (command_executor.cpp:60-77,97-102, network_evidence.hpp:12,
\* interactive_session.cpp:122-131).
SuccessStores ==
    /\ pc = "ended" /\ code = 0 => \A kind \in Stores(action) : <<0, kind>> \in effects
    /\ pc = "read" => Told(request) \/ \A kind \in Stores(doing) : <<request, kind>> \in effects

\* A prompt that was answered, aborted by the end of the input or refused leaves
\* the terminal showing what is typed, unless restoring it failed, which is then
\* reported (command_executor.cpp:33-46).
EchoRestored ==
    pc = "ended" => echo \/ (Came("restore", "failed") /\ code = 2)

\* An observation is saved with a VPN state that held at some time since the scan it
\* stands for began; when that scan failed or was not recognised, with none, which says
\* nothing of the tunnel.
SavesFlagTruly ==
    (<<request, "observation">> \in effects' \ effects /\ pc' # "killed") =>
        IF vpn THEN TRUE \in since ELSE ~scanned \/ FALSE \in since

\* The VPN state that goes into a saved observation is what the last scan told, of
\* this command or of the console's last refresh, and no older one: "active" was so at
\* some time since it began, and so was "none" if it succeeded.  It may be hours old, and
\* "none" also stands for a scan that failed (network_metadata.cpp:118-127,
\* interactive_session.cpp:124-137).
FlagAsScanned == [][SavesFlagTruly]_vars
===============================================================================
