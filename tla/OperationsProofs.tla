--------------------------- MODULE OperationsProofs ---------------------------
(***************************************************************************)
(* Proofs about module Operations, for any number of selections and of     *)
(* changes of the network.                                                 *)
(*                                                                         *)
(* The argument: the steps of a request are done in order of place, and a  *)
(* step that fails only leaves out later ones (SkipsLater).  So each step  *)
(* of a request is still to be done, done, or left out for one that failed *)
(* (PlanInv); once none is to be done, what it fell short by is what the   *)
(* exit code, or the console's error record, is computed from (CodeTells,  *)
(* SelectionTells), and what it was to store is stored or it fell short    *)
(* (StoreTells).                                                           *)
(***************************************************************************)
EXTENDS Operations, TLAPS

\* Where a request is being worked on, and where the process is about to end.
Working == {"start", "request", "open", "selected", "refresh", "perform"}
Leaving == {"exit", "failed", "error", "ended"}

\* The steps the request in hand consists of, done or not.
Plan == IF action = "interactive" THEN Steps(doing) ELSE CommandSteps(action)

\* An earlier step failed without which s makes no sense.
LeftOut(s) == \E d \in DOMAIN results : results[d] # "ok" /\ s \in Skips(d)

\* The process goes on as its command line says, and a request has the number it has.
FlowInv ==
    /\ action \in CommandActions /\ request \in Nat
    /\ pc \in Working \cup Leaving \cup {"report", "read", "close", "leave", "killed"}
    /\ action # "interactive" =>
          /\ doing = action /\ request = 0 /\ shortfall \subseteq {0}
          /\ pc \in {"start", "request", "perform", "killed"} \cup Leaving
    /\ action = "interactive" =>
          /\ doing \in Selections \cup {"interactive"} /\ echo
          /\ pc \in Leaving => code = 0
    /\ shortfall \subseteq Nat
    /\ pc \notin Leaving \cup {"killed"} => \A r \in shortfall : r <= request
    /\ pc = "exit" => request = 0

\* Every step of a request is to be done, done, or left out; those that are to be done come
\* behind those that are done; and it falls short by what is done.
PlanInv == pc \in Working =>
    /\ todo \subseteq Plan /\ DOMAIN results \subseteq Plan
    /\ \A s \in Plan : s \in todo \/ s \in DOMAIN results \/ LeftOut(s)
    /\ \A s \in todo : ~LeftOut(s)
    /\ \A d \in DOMAIN results :
          /\ d \notin todo /\ ~LeftOut(d) /\ results[d] \in Outcomes(d)
          /\ \A s \in todo : Place(d) < Place(s)
    /\ request \in shortfall <=> FellShort(results)
    /\ echo \/ (Came("hide", "ok") /\ ~Ok("restore"))
    /\ \A d \in DOMAIN results : results[d] = "ok" => Brings(d) \subseteq effects

\* The operator knows of the request r, or could.
Requested(r) == warned \/ \E ch \in {"audit", "security"} : <<ch, r, "requested">> \in records

\* The request r stored what the action a is to store.
Stored(r, a) == \A kind \in Stores(a) : <<r, kind>> \in effects

\* A request is told of before it is carried out, and its failure before the next one.
RecordsInv ==
    /\ pc \in {"open", "refresh", "perform"} => Requested(request)
    /\ \A e \in effects : Requested(e[1])
    /\ action = "interactive" =>
          \A r \in shortfall : Told(r) \/ (r = request /\ pc \in {"perform", "report", "killed"})
    /\ pc = "ended" /\ code # 0 => Told(0)
    /\ pc \in {"failed", "error"} => request = 0
    /\ pc = "read" => Told(request) \/ Stored(request, doing)

\* What the exit code tells of a command, and of the terminal.
ExitInv == pc \in Leaving =>
    /\ action # "interactive" /\ 0 \in shortfall => code # 0
    /\ code = 0 => Stored(0, action)
    /\ echo \/ (Came("restore", "failed") /\ code = 2)

\* What was last told of the tunnel was so at some time since the last scan began.
FlagInv ==
    /\ tunnel \in BOOLEAN
    /\ IF vpn THEN TRUE \in since ELSE ~scanned \/ FALSE \in since

\* The inductive invariant.
IInv == FlowInv /\ PlanInv /\ RecordsInv /\ ExitInv

-----------------------------------------------------------------------------
(* The steps of a request. *)

\* What the requests consist of.
Plans == {
    {}, {"hide", "read-key", "restore", "save-key"}, {"load-mode"}, {"save-mode"},
    {"ping", "traceroute", "mtr", "dig"}, {"ping", "traceroute"}, {"advisories"},
    Logs, {"read-history"}, {"sockets"}, {"route", "public-ip", "append"},
    {"route", "public-ip", "load-key", "enrich", "append"}, {"scan", "posture"},
    {"scan", "route", "public-ip", "append"},
    {"scan", "route", "public-ip", "load-key", "enrich", "append"}}

\* Every action has one of these plans.
LEMMA StepsOfAction ==
  ASSUME NEW a \in CommandActions \cup Selections
  PROVE  Steps(a) \in Plans /\ CommandSteps(a) \in Plans
<1> USE DEF Steps, CommandSteps, Diagnostics, Captures, Postures, Plain
<1>1. CASE a \in Captures
  BY <1>1 DEF Plans
<1>2. CASE a \in Diagnostics
  BY <1>2 DEF Plans
<1>3. CASE a \in Postures \cup {"interactive", "refresh"}
  BY <1>3 DEF Plans, Collecting
<1>4. CASE a \in Plain \cup {"configure-ipify-key", "mode", "mode-set"}
  BY <1>4 DEF Plans
<1>5. CASE a \in {"listeners", "security-advisories", "network-history", "log-analysis"}
  BY <1>5 DEF Plans
<1> QED
  BY <1>1, <1>2, <1>3, <1>4, <1>5 DEF CommandActions, Selections

\* The request in hand has one of these plans.
LEMMA PlanShapes == ASSUME FlowInv PROVE Plan \in Plans
<1>1. action \in CommandActions /\ (action = "interactive" => doing \in CommandActions \cup Selections)
  BY DEF FlowInv, CommandActions
<1> QED
  BY <1>1, StepsOfAction DEF Plan

\* The places.
LEMMA Places ==
  /\ Place("hide") = 1 /\ Place("scan") = 1 /\ Place("ping") = 1
  /\ Place("load-mode") = 1 /\ Place("save-mode") = 1 /\ Place("advisories") = 1
  /\ Place("read-operations") = 1 /\ Place("read-audit") = 2
  /\ Place("read-security") = 3 /\ Place("read-error") = 4
  /\ Place("read-history") = 1 /\ Place("sockets") = 1
  /\ Place("read-key") = 2 /\ Place("traceroute") = 2 /\ Place("route") = 2
  /\ Place("posture") = 2
  /\ Place("restore") = 3 /\ Place("mtr") = 3 /\ Place("public-ip") = 3
  /\ Place("save-key") = 4 /\ Place("dig") = 4 /\ Place("load-key") = 4
  /\ Place("enrich") = 5 /\ Place("append") = 6
BY DEF Place

\* A step of a plan has a place among six.
LEMMA PlacesRange ==
  ASSUME NEW plan \in Plans, NEW s \in plan
  PROVE  Place(s) \in {1, 2, 3, 4, 5, 6}
<1>1. s \in {"hide", "read-key", "restore", "save-key", "load-mode", "save-mode", "ping",
             "traceroute", "mtr", "dig", "advisories", "read-operations", "read-audit",
             "read-security", "read-error", "read-history", "sockets", "route", "public-ip",
             "append", "load-key", "enrich", "scan", "posture"}
  BY DEF Plans, Logs
<1> QED
  BY <1>1, Places

\* The steps of one plan differ in place.
LEMMA PlacesDiffer ==
  ASSUME NEW plan \in Plans
  PROVE  \A s, t \in plan : Place(s) = Place(t) => s = t
<1>1. CASE plan = {"hide", "read-key", "restore", "save-key"}
  BY <1>1, Places
<1>2. CASE plan = {"ping", "traceroute", "mtr", "dig"}
  BY <1>2, Places
<1>3. CASE plan = {"ping", "traceroute"}
  BY <1>3, Places
<1>4. CASE plan = {"route", "public-ip", "append"}
  BY <1>4, Places
<1>5. CASE plan = {"route", "public-ip", "load-key", "enrich", "append"}
  BY <1>5, Places
<1>6. CASE plan = {"scan", "route", "public-ip", "append"}
  BY <1>6, Places
<1>7. CASE plan = {"scan", "route", "public-ip", "load-key", "enrich", "append"}
  BY <1>7, Places
<1>8. CASE plan = {"scan", "posture"}
  BY <1>8, Places
<1>9. CASE plan \in {{}, {"load-mode"}, {"save-mode"}, {"advisories"},
                     {"read-history"}, {"sockets"}}
  BY <1>9
<1>10. CASE plan = Logs
  BY <1>10, Places DEF Logs
<1> QED
  BY <1>1, <1>2, <1>3, <1>4, <1>5, <1>6, <1>7, <1>8, <1>9, <1>10 DEF Plans

\* A step only makes later ones pointless.
LEMMA SkipsLater == \A s, t : t \in Skips(s) => Place(s) < Place(t)
<1> SUFFICES ASSUME NEW s, NEW t \in Skips(s) PROVE Place(s) < Place(t)
  OBVIOUS
<1>1. \/ s = "hide" /\ t \in {"read-key", "restore", "save-key"}
      \/ s \in {"read-key", "restore"} /\ t = "save-key"
      \/ s = "load-key" /\ t = "enrich"
      \/ s = "public-ip" /\ t = "append"
  BY DEF Skips
<1> QED
  BY <1>1, Places

\* The step in hand comes before all that are left.
LEMMA InHandFirst ==
  ASSUME FlowInv, PlanInv, NEW step \in InHand
  PROVE  /\ pc = "perform" /\ step \in todo /\ step \in Plan
         /\ \A s \in todo \ {step} : Place(step) < Place(s)
<1>1. pc = "perform" /\ step \in todo /\ \A s \in todo : Place(step) <= Place(s)
  BY DEF InHand
<1>2. todo \subseteq Plan
  BY <1>1 DEF PlanInv, Working
<1>3. \A s \in todo : Place(s) \in {1, 2, 3, 4, 5, 6}
  BY <1>2, PlanShapes, PlacesRange
<1>4. \A s \in todo \ {step} : Place(step) # Place(s)
  BY <1>1, <1>2, PlanShapes, PlacesDiffer
<1>5. \A s \in todo \ {step} : Place(step) < Place(s)
  <2> SUFFICES ASSUME NEW s \in todo \ {step} PROVE Place(step) < Place(s)
    OBVIOUS
  <2>1. /\ Place(s) \in {1, 2, 3, 4, 5, 6} /\ Place(step) \in {1, 2, 3, 4, 5, 6}
        /\ Place(step) <= Place(s) /\ Place(step) # Place(s)
    BY <1>1, <1>3, <1>4
  <2> QED
    BY <2>1
<1> QED
  BY <1>1, <1>2, <1>5

-----------------------------------------------------------------------------
(* The records. *)

\* Writing a record tells something and takes nothing back.
LEMMA RecordTells ==
  ASSUME NEW channel, NEW event, Record(channel, event)
  PROVE  /\ \A r : Requested(r) => Requested(r)'
         /\ \A r : Told(r) => Told(r)'
         /\ \A r : r = request /\ event = "requested" /\ channel \in {"audit", "security"}
                   => Requested(r)'
         /\ \A r : r = request /\ event \in {"action-failed", "unavailable"} /\ channel = "error"
                   => Told(r)'
BY DEF Record, Requested, Told

\* An action is recorded where its requests are.
LEMMA ChannelOfAction == \A a : Channel(a) \in {"audit", "security"}
BY DEF Channel

\* What a record leaves alone.
LEMMA RecordAtFacts ==
  ASSUME NEW point, NEW channel, NEW event, NEW next, RecordAt(point, channel, event, next)
  PROVE  /\ pc = point /\ pc' = next /\ Record(channel, event)
         /\ UNCHANGED <<action, request, doing, todo, results, code, vpn, echo, effects,
                        shortfall, since, scanned>>
BY DEF RecordAt

-----------------------------------------------------------------------------
(* The steps of the process keep the invariant. *)

\* At first nothing was done and all is to be done.
LEMMA InitInv == Init => IInv /\ FlagInv
<1> SUFFICES ASSUME Init PROVE IInv /\ FlagInv
  OBVIOUS
<1>1. /\ action \in CommandActions /\ doing = action /\ request = 0 /\ pc = "start"
      /\ todo = CommandSteps(action) /\ DOMAIN results = {} /\ echo = TRUE
      /\ effects = {} /\ shortfall = {} /\ vpn = FALSE /\ scanned = FALSE
      /\ tunnel \in BOOLEAN
  BY DEF Init
<1>2. FlowInv
  BY <1>1 DEF FlowInv, Working, Leaving
<1>3. CommandSteps("interactive") = Steps("interactive")
  BY DEF CommandSteps, Captures
<1>4. todo = Plan
  BY <1>1, <1>3 DEF Plan
<1>5. PlanInv
  BY <1>1, <1>4 DEF PlanInv, LeftOut, FellShort, Logs
<1>6. RecordsInv /\ ExitInv
  BY <1>1 DEF RecordsInv, ExitInv, Leaving
<1> QED
  BY <1>1, <1>2, <1>5, <1>6 DEF IInv, FlagInv

\* What a step that writes a record does to the plan: nothing.
LEMMA PlanKept ==
  ASSUME IInv, UNCHANGED <<action, request, doing, todo, results, echo, effects, shortfall>>,
         pc' \in Working => pc \in Working
  PROVE  PlanInv'
BY DEF IInv, PlanInv, Plan, LeftOut, Came, Ok, Fell, FellShort, Brings

\* A record keeps the invariant, at whatever point of the process it is written.
LEMMA RecordingStep == ASSUME IInv, Recording PROVE IInv'
<1> USE DEF Working, Leaving
<1>1. ASSUME NEW point, NEW channel, NEW event, NEW next,
             RecordAt(point, channel, event, next),
             next \in Working => point \in Working,
             next \in Working \cup Leaving \cup {"report", "read", "close", "leave", "killed"},
             point # "killed",
             next \in {"open", "selected", "refresh", "report", "read", "close", "leave"}
                => action = "interactive",
             next \in {"open", "refresh", "perform"} =>
                \/ point \in {"open", "refresh", "perform"}
                \/ event = "requested" /\ channel \in {"audit", "security"},
             next \in Leaving => point \in Leaving /\ (next = "exit" => point = "exit"),
             point \in Leaving => next \in Leaving,
             next \in {"failed", "error"} => point \in {"exit", "failed", "error"},
             point \in {"perform", "report"} =>
                event \in {"action-failed", "unavailable"} /\ channel = "error",
             next = "read" => channel = "error" /\ event = "unavailable",
             next = "ended" /\ code # 0 => channel = "error" /\ event = "action-failed"
                                           /\ point \in {"failed", "error"}
      PROVE  IInv'
  <2>1. /\ pc = point /\ pc' = next
        /\ UNCHANGED <<action, request, doing, todo, results, code, vpn, echo, effects,
                       shortfall, since, scanned>>
    BY <1>1, RecordAtFacts
  <2>2. /\ \A r : Requested(r) => Requested(r)'
        /\ \A r : Told(r) => Told(r)'
        /\ \A r : r = request /\ event = "requested" /\ channel \in {"audit", "security"}
                  => Requested(r)'
        /\ \A r : r = request /\ event \in {"action-failed", "unavailable"} /\ channel = "error"
                  => Told(r)'
    BY <1>1, RecordTells DEF RecordAt
  <2>3. FlowInv'
    <3>1. /\ action # "interactive" => next \in {"start", "request", "perform", "killed"} \cup Leaving
          /\ action = "interactive" /\ next \in Leaving => code = 0
          /\ next = "exit" => request = 0
      BY <1>1, <2>1 DEF IInv, FlowInv
    <3>2. next \notin Leaving \cup {"killed"} => \A r \in shortfall : r <= request
      BY <1>1, <2>1 DEF IInv, FlowInv
    <3> QED
      BY <1>1, <2>1, <3>1, <3>2 DEF IInv, FlowInv
  <2>4. PlanInv'
    BY <1>1, <2>1, PlanKept
  <2>5. RecordsInv'
    <3>1. next \in {"open", "refresh", "perform"} => Requested(request)'
      <4>1. point \in {"open", "refresh", "perform"} => Requested(request)
        BY <2>1 DEF IInv, RecordsInv
      <4> QED
        BY <1>1, <2>1, <2>2, <4>1 DEF Requested
    <3>2. \A e \in effects : Requested(e[1])'
      BY <2>2 DEF IInv, RecordsInv
    <3>3. ASSUME action = "interactive", NEW r \in shortfall
          PROVE  Told(r)' \/ (r = request /\ next \in {"perform", "report", "killed"})
      <4>1. Told(r) \/ (r = request /\ point \in {"perform", "report"})
        BY <1>1, <2>1, <3>3 DEF IInv, RecordsInv
      <4> QED
        BY <1>1, <2>2, <4>1
    <3>4. next = "ended" /\ code # 0 => Told(0)'
      <4>1. point \in {"failed", "error"} => request = 0
        BY <2>1 DEF IInv, RecordsInv
      <4> QED
        BY <1>1, <2>2, <4>1
    <3>5. next \in {"failed", "error"} => request = 0
      BY <1>1, <2>1 DEF IInv, RecordsInv, FlowInv
    <3>6. next = "read" => Told(request)'
      BY <1>1, <2>1, <2>2 DEF Told
    <3> QED
      BY <2>1, <3>1, <3>2, <3>3, <3>4, <3>5, <3>6 DEF RecordsInv, Requested, Told
  <2>6. ExitInv'
    BY <1>1, <2>1 DEF IInv, ExitInv, Came, Stored
  <2> QED
    BY <2>3, <2>4, <2>5, <2>6 DEF IInv
<1>2. CASE Start
  BY <1>1, <1>2 DEF Start
<1>3. CASE RequestRecorded
  <2> DEFINE next == IF action = "interactive" THEN "open" ELSE "perform"
  <2>1. RecordAt("request", Channel(action), "requested", next)
    BY <1>3 DEF RequestRecorded
  <2>2. Channel(action) \in {"audit", "security"}
    BY ChannelOfAction
  <2>3. next \in {"open", "perform"} /\ (next = "open" => action = "interactive")
    OBVIOUS
  <2> HIDE DEF next
  <2> QED
    BY <1>1, <2>1, <2>2, <2>3
<1>4. CASE ExitRecorded
  <2> DEFINE next == IF code # 0 THEN "failed" ELSE "ended"
  <2>1. RecordAt("exit", "operations", "application-exit", next)
    BY <1>4 DEF ExitRecorded
  <2>2. next \in {"failed", "ended"} /\ (next = "ended" => code = 0)
    OBVIOUS
  <2> HIDE DEF next
  <2> QED
    BY <1>1, <2>1, <2>2
<1>5. CASE ActionFailed
  BY <1>1, <1>5 DEF ActionFailed
<1>6. CASE ErrorRecorded
  BY <1>1, <1>6 DEF ErrorRecorded
<1>7. ASSUME action = "interactive",
             OpenSession \/ CloseSession \/ Selected \/ Refreshed \/ Reported
      PROVE  IInv'
  <2>1. CASE OpenSession
    BY <1>1, <1>7, <2>1 DEF OpenSession
  <2>2. CASE CloseSession
    BY <1>1, <1>7, <2>2 DEF CloseSession
  <2>3. CASE Selected
    <3> DEFINE next == IF doing \in Collecting THEN "refresh" ELSE "perform"
    <3>1. RecordAt("selected", Channel(doing), "requested", next)
      BY <2>3 DEF Selected
    <3>2. Channel(doing) \in {"audit", "security"}
      BY ChannelOfAction
    <3>3. next \in {"refresh", "perform"}
      OBVIOUS
    <3> HIDE DEF next
    <3> QED
      BY <1>1, <1>7, <3>1, <3>2, <3>3
  <2>4. CASE Refreshed
    BY <1>1, <1>7, <2>4 DEF Refreshed
  <2>5. CASE Reported
    BY <1>1, <1>7, <2>5 DEF Reported
  <2> QED
    BY <1>7, <2>1, <2>2, <2>3, <2>4, <2>5
<1>8. OpenSession \/ CloseSession \/ Selected \/ Refreshed \/ Reported => action = "interactive"
  <2>1. pc \in {"open", "close", "selected", "refresh", "report"} => action = "interactive"
    BY DEF IInv, FlowInv
  <2> QED
    BY <2>1 DEF OpenSession, CloseSession, Selected, Refreshed, Reported, RecordAt
<1> QED
  BY <1>2, <1>3, <1>4, <1>5, <1>6, <1>7, <1>8 DEF Recording

\* Only the prompt for a key hides what is typed.
LEMMA HideOfKey ==
  ASSUME FlowInv
  PROVE  /\ "hide" \in Plan => action = "configure-ipify-key"
         /\ action = "configure-ipify-key" => Plan = {"hide", "read-key", "restore", "save-key"}
<1>1. ASSUME NEW a \in CommandActions \cup Selections, "hide" \in Steps(a) \/ "hide" \in CommandSteps(a)
      PROVE  a = "configure-ipify-key"
  <2>1. "hide" \in Steps(a)
    BY <1>1 DEF CommandSteps
  <2> QED
    BY <2>1, <1>1
    DEF Steps, CommandActions, Selections, Diagnostics, Captures, Postures, Collecting, Plain, Logs
<1>2. action \in CommandActions /\ (action = "interactive" => doing \in Selections \cup {"interactive"})
  BY DEF FlowInv
<1>3. "hide" \in Plan => action = "configure-ipify-key"
  <2>1. CASE action = "interactive"
    BY <1>1, <1>2, <2>1 DEF Plan, Selections, CommandActions
  <2> QED
    BY <1>1, <1>2, <2>1 DEF Plan
<1>4. action = "configure-ipify-key" => Plan = {"hide", "read-key", "restore", "save-key"}
  BY DEF Plan, CommandSteps, Steps, Diagnostics, Captures, Postures, Collecting, Plain
<1> QED
  BY <1>3, <1>4

\* The next step of a request, with what it resulted in.
LEMMA PerformFacts ==
  ASSUME IInv, Perform
  PROVE  \E step \in InHand : \E outcome \in Outcomes(step) :
            /\ todo' = todo \ ({step} \cup IF outcome = "ok" THEN {} ELSE Skips(step))
            /\ DOMAIN results' = DOMAIN results \cup {step}
            /\ \A s \in DOMAIN results : s # step => results'[s] = results[s]
            /\ results'[step] = outcome
            /\ effects \subseteq effects' /\ effects' \subseteq effects \cup Brings(step)
            /\ outcome = "ok" => Brings(step) \subseteq effects'
            /\ shortfall' = IF FellShort(results') THEN shortfall \cup {request} ELSE shortfall
            /\ echo' = IF outcome = "ok" THEN EchoAfter(step) ELSE echo
            /\ UNCHANGED <<action, request, doing, pc, code, records, warned>>
  BY DEF Perform

\* The next step of a request keeps the invariant.
LEMMA PerformStep == ASSUME IInv, Perform PROVE IInv'
<1>1. PICK step \in InHand : \E outcome \in Outcomes(step) :
            /\ todo' = todo \ ({step} \cup IF outcome = "ok" THEN {} ELSE Skips(step))
            /\ DOMAIN results' = DOMAIN results \cup {step}
            /\ \A s \in DOMAIN results : s # step => results'[s] = results[s]
            /\ results'[step] = outcome
            /\ effects \subseteq effects' /\ effects' \subseteq effects \cup Brings(step)
            /\ outcome = "ok" => Brings(step) \subseteq effects'
            /\ shortfall' = IF FellShort(results') THEN shortfall \cup {request} ELSE shortfall
            /\ echo' = IF outcome = "ok" THEN EchoAfter(step) ELSE echo
            /\ UNCHANGED <<action, request, doing, pc, code, records, warned>>
  BY PerformFacts
<1>2. PICK outcome \in Outcomes(step) :
            /\ todo' = todo \ ({step} \cup IF outcome = "ok" THEN {} ELSE Skips(step))
            /\ DOMAIN results' = DOMAIN results \cup {step}
            /\ \A s \in DOMAIN results : s # step => results'[s] = results[s]
            /\ results'[step] = outcome
            /\ effects \subseteq effects' /\ effects' \subseteq effects \cup Brings(step)
            /\ outcome = "ok" => Brings(step) \subseteq effects'
            /\ shortfall' = IF FellShort(results') THEN shortfall \cup {request} ELSE shortfall
            /\ echo' = IF outcome = "ok" THEN EchoAfter(step) ELSE echo
            /\ UNCHANGED <<action, request, doing, pc, code, records, warned>>
  BY <1>1
<1>3. /\ pc = "perform" /\ step \in todo /\ step \in Plan
      /\ \A s \in todo \ {step} : Place(step) < Place(s)
  BY InHandFirst DEF IInv
<1>4. /\ todo \subseteq Plan /\ DOMAIN results \subseteq Plan
      /\ \A s \in Plan : s \in todo \/ s \in DOMAIN results \/ LeftOut(s)
      /\ \A s \in todo : ~LeftOut(s)
      /\ \A d \in DOMAIN results :
            /\ d \notin todo /\ ~LeftOut(d) /\ results[d] \in Outcomes(d)
            /\ \A s \in todo : Place(d) < Place(s)
      /\ request \in shortfall <=> FellShort(results)
      /\ echo \/ (Came("hide", "ok") /\ ~Ok("restore"))
      /\ \A d \in DOMAIN results : results[d] = "ok" => Brings(d) \subseteq effects
  BY <1>3 DEF IInv, PlanInv, Working
<1>5. \A s \in Plan : Place(s) \in {1, 2, 3, 4, 5, 6}
  BY PlanShapes, PlacesRange DEF IInv
<1>6. /\ step \notin DOMAIN results /\ Plan' = Plan
      /\ \A d \in DOMAIN results : d # step /\ results'[d] = results[d]
  BY <1>2, <1>3, <1>4 DEF Plan
<1>7. FlowInv'
  <2>1. /\ shortfall' \subseteq shortfall \cup {request}
        /\ request \in Nat /\ shortfall \subseteq Nat /\ \A r \in shortfall : r <= request
        /\ action # "interactive" => shortfall \subseteq {0} /\ request = 0
    BY <1>2, <1>3 DEF IInv, FlowInv, Leaving
  <2>2. action = "interactive" => echo'
    <3>1. action = "interactive" => echo /\ step # "hide"
      BY <1>3, HideOfKey DEF IInv, FlowInv
    <3> QED
      BY <1>2, <3>1 DEF EchoAfter
  <2>3. \A r \in shortfall' : r <= request
    BY <2>1
  <2> QED
    BY <1>2, <1>3, <2>1, <2>2, <2>3 DEF IInv, FlowInv, Leaving, Working
<1>8. PlanInv'
  <2>1. todo' \subseteq Plan' /\ (DOMAIN results)' \subseteq Plan'
    BY <1>2, <1>3, <1>4, <1>6
  <2>2. \A s : LeftOut(s)' <=> LeftOut(s) \/ (outcome # "ok" /\ s \in Skips(step))
    BY <1>2, <1>6 DEF LeftOut
  <2>3. \A s \in Plan : s \in todo' \/ s \in DOMAIN results' \/ LeftOut(s)'
    BY <1>2, <1>4, <2>2
  <2>4. \A s \in todo' : ~LeftOut(s)'
    BY <1>2, <1>4, <2>2
  <2>5. ASSUME NEW d \in DOMAIN results
        PROVE  /\ d \notin todo' /\ ~LeftOut(d)' /\ results'[d] \in Outcomes(d)
               /\ \A s \in todo' : Place(d) < Place(s)
    <3>1. d \notin Skips(step)
      <4>1. Place(d) < Place(step) /\ Place(d) \in {1, 2, 3, 4, 5, 6}
            /\ Place(step) \in {1, 2, 3, 4, 5, 6}
        BY <1>3, <1>4, <1>5
      <4>2. ~(Place(step) < Place(d))
        BY <4>1
      <4> QED
        BY <4>2, SkipsLater
    <3> QED
      BY <1>2, <1>4, <1>6, <2>2, <3>1
  <2>6. /\ step \notin todo' /\ ~LeftOut(step)' /\ results'[step] \in Outcomes(step)
        /\ \A s \in todo' : Place(step) < Place(s)
    <3>1. step \notin Skips(step)
      <4>1. Place(step) \in {1, 2, 3, 4, 5, 6}
        BY <1>3, <1>5
      <4>2. ~(Place(step) < Place(step))
        BY <4>1
      <4> QED
        BY <4>2, SkipsLater
    <3> QED
      BY <1>2, <1>3, <1>4, <2>2, <3>1
  <2>7. (request \in shortfall)' <=> FellShort(results)'
    <3>1. FellShort(results') <=> FellShort(results)'
      BY <1>2 DEF FellShort, Fell
    <3>2. FellShort(results) => FellShort(results')
      BY <1>2, <1>6 DEF FellShort
    <3> QED
      BY <1>2, <1>4, <3>1, <3>2
  <2>8. (echo \/ (Came("hide", "ok") /\ ~Ok("restore")))'
    <3>1. CASE outcome = "ok" /\ step = "hide"
      <4>1. "restore" \notin DOMAIN results
        <5>1. "restore" \in DOMAIN results => Place("restore") < Place("hide")
          BY <1>3, <1>4, <3>1
        <5> QED
          BY <5>1, Places
      <4> QED
        BY <1>2, <3>1, <4>1 DEF Came, Ok
    <3>2. CASE outcome = "ok" /\ step = "restore"
      BY <1>2, <3>2 DEF EchoAfter
    <3>3. CASE ~(outcome = "ok" /\ step \in {"hide", "restore"})
      <4>1. echo' = echo
        BY <1>2, <3>3 DEF EchoAfter
      <4>2. Came("hide", "ok") => Came("hide", "ok")'
        BY <1>2, <1>6 DEF Came
      <4>3. ~Ok("restore") => ~Ok("restore")'
        BY <1>2, <1>6, <3>3 DEF Came, Ok
      <4> QED
        BY <1>4, <4>1, <4>2, <4>3
    <3> QED
      BY <3>1, <3>2, <3>3
  <2>9. \A d \in (DOMAIN results)' :
          /\ d \notin todo' /\ ~LeftOut(d)' /\ results'[d] \in Outcomes(d)
          /\ \A s \in todo' : Place(d) < Place(s)
    BY <1>2, <2>5, <2>6
  <2>10. \A d \in (DOMAIN results)' : results'[d] = "ok" => Brings(d)' \subseteq effects'
    <3>1. \A d : Brings(d)' = Brings(d)
      BY <1>2 DEF Brings
    <3> QED
      BY <1>2, <1>4, <1>6, <3>1
  <2> QED
    BY <1>6, <2>1, <2>3, <2>4, <2>7, <2>8, <2>9, <2>10 DEF PlanInv
<1>9. RecordsInv'
  <2>1. \A r : (Requested(r)' <=> Requested(r)) /\ (Told(r)' <=> Told(r))
    BY <1>2 DEF Requested, Told
  <2>2. Requested(request)
    BY <1>3 DEF IInv, RecordsInv
  <2>3. \A e \in Brings(step) : e[1] = request
    BY DEF Brings
  <2>4. \A e \in effects' : Requested(e[1])
    BY <1>2, <2>2, <2>3 DEF IInv, RecordsInv
  <2>5. action = "interactive" => \A r \in shortfall' : Told(r) \/ r = request
    BY <1>2 DEF IInv, RecordsInv
  <2> QED
    BY <1>2, <1>3, <2>1, <2>2, <2>4, <2>5 DEF RecordsInv
<1>10. ExitInv'
  BY <1>2, <1>3 DEF ExitInv, Leaving
<1> QED
  BY <1>7, <1>8, <1>9, <1>10 DEF IInv

-----------------------------------------------------------------------------
(* What a request that is done tells, by what it consists of. *)

\* The request fell short.
Short == FellShort(results)

\* The request has no step left.
AllDone == IInv /\ pc = "perform" /\ todo = {}

\* Of a request without steps left, each was done, or left out for one that failed.
LEMMA DoneFacts ==
  ASSUME AllDone
  PROVE  /\ DOMAIN results \subseteq Plan /\ (request \in shortfall <=> Short)
         /\ \A s \in Plan : s \in DOMAIN results \/ LeftOut(s)
         /\ \A d \in DOMAIN results : ~LeftOut(d) /\ results[d] \in Outcomes(d)
         /\ echo \/ (Came("hide", "ok") /\ ~Ok("restore"))
         /\ \A d : Ok(d) => Brings(d) \subseteq effects
BY DEF AllDone, IInv, PlanInv, Working, Short, Ok, Came

\* A request that does not read the logs falls short by one of its steps.
LEMMA ShortByStep ==
  ASSUME AllDone, "read-audit" \notin Plan
  PROVE  Short <=> \E d \in DOMAIN results : Fell(d, results[d])
BY DoneFacts DEF Short, FellShort, Logs

\* Requests of one step.
LEMMA OneStep ==
  ASSUME AllDone, NEW x, Plan = {x},
         x \in {"load-mode", "save-mode", "advisories", "read-history", "sockets"}
  PROVE  Ok(x) <=> ~Short
<1>1. x \in DOMAIN results /\ DOMAIN results = {x}
  BY DoneFacts DEF LeftOut, Skips
<1>2. Fell(x, results[x]) <=> results[x] # "ok"
  BY DEF Fell, Tools
<1> QED
  BY <1>1, <1>2, ShortByStep DEF Ok, Came

\* The logs.
LEMMA LogSteps == ASSUME AllDone, Plan = Logs PROVE LogsAvailable <=> ~Short
<1>1. \A d \in Logs : ~LeftOut(d)
  BY DEF LeftOut, Skips, Logs
<1>2. DOMAIN results = Logs
  BY <1>1, DoneFacts
<1>3. \A d \in Logs : ~Fell(d, results[d])
  BY DEF Fell, Tools, Logs
<1> QED
  BY <1>2, <1>3 DEF Short, FellShort, LogsAvailable, Ok, Came

\* Network diagnostics.
LEMMA TestSteps ==
  ASSUME AllDone, Plan \subseteq Tools
  PROVE  Missing <=> Short
<1>1. \A d \in Tools : Fell(d, results[d]) <=> results[d] = "missing"
  BY DEF Fell, Tools
<1>2. "read-audit" \notin Plan
  BY DEF Tools
<1> QED
  BY <1>1, <1>2, ShortByStep, DoneFacts DEF Missing, Came

\* A capture of network metadata.
LEMMA CaptureSteps ==
  ASSUME AllDone, Plan \subseteq {"scan", "route", "public-ip", "load-key", "enrich", "append"},
         {"public-ip", "append"} \subseteq Plan
  PROVE  Captured <=> ~Short
<1>1. \A d \in DOMAIN results :
         d \in {"scan", "route", "public-ip", "load-key", "enrich", "append"}
  BY DoneFacts
<1>2. \A d \in DOMAIN results :
         Fell(d, results[d]) <=> d \in {"public-ip", "append"} /\ results[d] # "ok"
  BY <1>1 DEF Fell, Tools
<1>3. "public-ip" \in DOMAIN results
  BY DoneFacts DEF LeftOut, Skips
<1>4. "append" \in DOMAIN results \/ results["public-ip"] # "ok"
  BY DoneFacts DEF LeftOut, Skips
<1> QED
  BY <1>2, <1>3, <1>4, ShortByStep DEF Captured, Ok, Came

\* A view of a posture that is collected.
LEMMA ViewSteps ==
  ASSUME AllDone, Plan = {"scan", "posture"}
  PROVE  /\ action = "readiness" => (Ok("posture") <=> ~Short)
         /\ action = "status" => (Came("posture", "failed") <=> Short)
         /\ action \notin {"readiness", "status"} => ~Short
<1>1. /\ "posture" \in DOMAIN results /\ DOMAIN results \subseteq {"scan", "posture"}
      /\ results["posture"] \in {"ok", "failed", "review", "unfit"}
  BY DoneFacts DEF LeftOut, Skips, Outcomes, Tools, Logs
<1>2. ("scan" \in DOMAIN results => ~Fell("scan", results["scan"]))
      /\ (Fell("posture", results["posture"]) <=>
             \/ results["posture"] # "ok" /\ action = "readiness"
             \/ results["posture"] = "failed" /\ action = "status")
  BY <1>1 DEF Fell, Tools
<1>3. Short <=> Fell("posture", results["posture"])
  BY <1>1, <1>2, ShortByStep
<1> QED
  BY <1>1, <1>2, <1>3 DEF Ok, Came

\* The prompt for a key.
LEMMA KeySteps ==
  ASSUME AllDone, Plan = {"hide", "read-key", "restore", "save-key"}
  PROVE  /\ Ok("save-key") <=> ~Short
         /\ echo \/ (Came("restore", "failed") /\ ~Ok("save-key"))
<1>1. \A d \in DOMAIN results :
         d \in {"hide", "read-key", "restore", "save-key"} /\ results[d] \in {"ok", "failed"}
  BY DoneFacts DEF Outcomes, Tools, Logs
<1>2. \A d \in DOMAIN results : Fell(d, results[d]) <=> results[d] # "ok"
  BY <1>1 DEF Fell, Tools
<1>3. \A d \in {"hide", "read-key", "restore"} : "save-key" \in Skips(d)
  BY DEF Skips
<1>4. Ok("save-key") <=> \A d \in DOMAIN results : results[d] = "ok"
  <2>1. ASSUME Ok("save-key"), NEW d \in DOMAIN results PROVE results[d] = "ok"
    BY <1>1, <1>3, <2>1, DoneFacts DEF Ok, Came, LeftOut
  <2>2. ASSUME \A d \in DOMAIN results : results[d] = "ok" PROVE Ok("save-key")
    BY <2>2, DoneFacts DEF Ok, Came, LeftOut
  <2> QED
    BY <2>1, <2>2
<1>5. echo \/ (Came("restore", "failed") /\ ~Ok("save-key"))
  <2>1. SUFFICES ASSUME ~echo PROVE Came("restore", "failed") /\ ~Ok("save-key")
    OBVIOUS
  <2>2. Came("hide", "ok") /\ ~Ok("restore")
    BY <2>1, DoneFacts
  <2>3. ~LeftOut("restore")
    <3>1. \A d : "restore" \in Skips(d) => d = "hide"
      BY DEF Skips
    <3> QED
      BY <2>2, <3>1 DEF LeftOut, Came
  <2>4. "restore" \in DOMAIN results
    BY <2>3, DoneFacts
  <2> QED
    BY <1>1, <1>4, <2>2, <2>4 DEF Ok, Came
<1> QED
  BY <1>2, <1>4, <1>5, ShortByStep

\* What the console takes for a failed selection is one that fell short.
LEMMA SelectionTells ==
  ASSUME AllDone, action = "interactive"
  PROVE  SelectionFailed(doing) <=> Short
<1>1. doing \in Selections \cup {"interactive"} /\ Plan = Steps(doing)
  BY DEF AllDone, IInv, FlowInv, Plan
<1> USE <1>1 DEF Steps, Selections, Diagnostics, Captures, Postures, Collecting, Plain,
                 SelectionFailed
<1>2. CASE doing = "network-diagnostics"
  <2>1. Plan \subseteq Tools
    BY <1>2 DEF Tools
  <2> QED
    BY <1>2, <2>1, TestSteps
<1>3. CASE doing = "network-metadata"
  <2>1. Plan = {"route", "public-ip", "append"}
    BY <1>3
  <2> QED
    BY <1>3, <2>1, CaptureSteps
<1>4. CASE doing = "network-history"
  <2>1. Plan = {"read-history"}
    BY <1>4
  <2> QED
    BY <1>4, <2>1, OneStep
<1>5. CASE doing = "security-advisories"
  <2>1. Plan = {"advisories"}
    BY <1>5
  <2> QED
    BY <1>5, <2>1, OneStep
<1>6. CASE doing = "log-analysis"
  <2>1. Plan = Logs
    BY <1>6
  <2> QED
    BY <1>6, <2>1, LogSteps
<1>7. CASE doing \in {"refresh", "readiness", "threat-assessment", "interactive"}
  <2>1. Plan = {"scan", "posture"}
    BY <1>7
  <2> QED
    BY <1>7, <2>1, ViewSteps
<1> QED
  BY <1>2, <1>3, <1>4, <1>5, <1>6, <1>7

\* A command that is not refused exits with 0 exactly when no step of it fell short, and one
\* that left the terminal hidden with 2.
LEMMA CodeTells ==
  ASSUME AllDone, action # "interactive"
  PROVE  /\ action # "invalid" => (Code(action) = 0 <=> ~Short)
         /\ action = "invalid" => ~Short
         /\ echo \/ (Came("restore", "failed") /\ Code(action) = 2)
<1>1. action \in CommandActions /\ Plan = CommandSteps(action)
  BY DEF AllDone, IInv, FlowInv, Plan
<1>2. action # "configure-ipify-key" => echo
  BY DoneFacts, HideOfKey DEF Came, AllDone, IInv
<1> USE <1>1 DEF CommandSteps, Steps, Diagnostics, Captures, Postures, Collecting, Plain, Code
<1>3. CASE action = "configure-ipify-key"
  <2>1. Plan = {"hide", "read-key", "restore", "save-key"}
    BY <1>3
  <2> QED
    BY <1>3, <2>1, KeySteps
<1>4. CASE action \in Diagnostics
  <2>1. Plan \subseteq Tools
    BY <1>4 DEF Tools
  <2>2. Code(action) = IF Missing THEN 2 ELSE 0
    BY <1>4
  <2> QED
    BY <1>2, <1>4, <2>1, <2>2, TestSteps
<1>5. CASE action \in Captures
  <2>1. /\ Plan \subseteq {"scan", "route", "public-ip", "load-key", "enrich", "append"}
        /\ {"public-ip", "append"} \subseteq Plan
    BY <1>5
  <2>2. Code(action) = IF Captured THEN 0 ELSE 2
    BY <1>5
  <2> QED
    BY <1>2, <1>5, <2>1, <2>2, CaptureSteps
<1>6. CASE action \in Postures
  <2>1. Plan = {"scan", "posture"}
    BY <1>6
  <2>2. Code(action) = 0 <=> CASE action = "status"    -> ~Came("posture", "failed")
                               [] action = "readiness" -> Ok("posture")
                               [] OTHER                -> TRUE
    BY <1>6
  <2> QED
    BY <1>2, <1>6, <2>1, <2>2, ViewSteps
<1>7. CASE action \in Plain
  <2>1. Plan = {}
    BY <1>7
  <2>2. ~Short
    BY <2>1, DoneFacts, ShortByStep
  <2> QED
    BY <1>2, <1>7, <2>2
<1>8. CASE action \in {"mode", "mode-set", "security-advisories", "network-history", "listeners"}
  <2>1. PICK x \in {"load-mode", "save-mode", "advisories", "read-history", "sockets"} :
               Plan = {x} /\ Code(action) = IF Ok(x) THEN 0 ELSE 2
    BY <1>8
  <2> QED
    BY <1>2, <1>8, <2>1, OneStep
<1>9. CASE action = "log-analysis"
  <2>1. Plan = Logs /\ Code(action) = IF LogsAvailable THEN 0 ELSE 2
    BY <1>9
  <2> QED
    BY <1>2, <1>9, <2>1, LogSteps
<1> QED
  BY <1>3, <1>4, <1>5, <1>6, <1>7, <1>8, <1>9 DEF CommandActions

\* A request that did not fall short stored what it is to store.
LEMMA StoreTells ==
  ASSUME AllDone, ~Short, NEW a,
         a = IF action = "interactive" THEN doing ELSE action
  PROVE  Stored(request, a)
<1>1. /\ action # "interactive" => action \in CommandActions /\ Plan = CommandSteps(action)
      /\ action = "interactive" => doing \in Selections \cup {"interactive"} /\ Plan = Steps(doing)
  BY DEF AllDone, IInv, FlowInv, Plan
<1>2. /\ Brings("save-key") = {<<request, "key">>}
      /\ Brings("save-mode") = {<<request, "mode">>}
      /\ Brings("append") = {<<request, "observation">>}
  BY DEF Brings
<1>3. CASE a = "configure-ipify-key"
  <2>1. Plan = {"hide", "read-key", "restore", "save-key"}
    BY <1>1, <1>3, HideOfKey DEF AllDone, IInv, Selections
  <2> QED
    BY <1>2, <1>3, <2>1, KeySteps, DoneFacts DEF Stored, Stores, Captures
<1>4. CASE a = "mode-set"
  <2>1. Plan = {"save-mode"}
    BY <1>1, <1>4
    DEF Selections, CommandSteps, Steps, Diagnostics, Captures, Postures, Collecting, Plain
  <2> QED
    BY <1>2, <1>4, <2>1, OneStep, DoneFacts DEF Stored, Stores, Captures
<1>5. CASE a \in Captures
  <2>1. /\ Plan \subseteq {"scan", "route", "public-ip", "load-key", "enrich", "append"}
        /\ {"public-ip", "append"} \subseteq Plan
    BY <1>1, <1>5
    DEF Selections, CommandSteps, Steps, Diagnostics, Captures, Postures, Collecting, Plain
  <2> QED
    BY <1>2, <1>5, <2>1, CaptureSteps, DoneFacts DEF Stored, Stores, Captured, Captures
<1> QED
  BY <1>3, <1>4, <1>5 DEF Stored, Stores

-----------------------------------------------------------------------------
(* The other steps keep the invariant. *)

\* A request that is done: what it fell short by is in its exit code, or about to be reported.
LEMMA DoneStep == ASSUME IInv, Done PROVE IInv'
<1>1. /\ AllDone
      /\ UNCHANGED <<action, request, doing, todo, records, warned, echo, effects, shortfall>>
  BY DEF Done, AllDone
<1>2. \A r : (Requested(r)' <=> Requested(r)) /\ (Told(r)' <=> Told(r))
  BY <1>1 DEF Requested, Told
<1>3. request \in shortfall <=> Short
  BY <1>1, DoneFacts
<1>4. pc = "perform" /\ shortfall \subseteq Nat /\ \A r \in shortfall : r <= request
  BY <1>1 DEF AllDone, IInv, FlowInv, Leaving
<1>5. CASE action = "interactive"
  <2>1. pc' = IF Short THEN "report" ELSE "read"
    BY <1>1, <1>5, SelectionTells DEF Done
  <2>2. FlowInv'
    BY <1>1, <1>4, <1>5, <2>1 DEF IInv, FlowInv, Leaving, Working
  <2>3. PlanInv' /\ ExitInv'
    BY <2>1 DEF PlanInv, ExitInv, Working, Leaving
  <2>4. RecordsInv'
    <3>1. \A r \in shortfall : Told(r) \/ (r = request /\ pc' = "report")
      BY <1>3, <1>4, <1>5, <2>1 DEF IInv, RecordsInv
    <3>2. pc' = "read" => Stored(request, doing)'
      BY <1>1, <1>5, <2>1, StoreTells DEF Stored
    <3> QED
      BY <1>1, <1>2, <2>1, <3>1, <3>2 DEF IInv, RecordsInv
  <2> QED
    BY <2>2, <2>3, <2>4 DEF IInv
<1>6. CASE action # "interactive"
  <2>1. pc' = "exit" /\ code' = Code(action) /\ results' = results
    BY <1>6 DEF Done
  <2>2. FlowInv'
    BY <1>1, <1>4, <1>6, <2>1 DEF IInv, FlowInv, Leaving, Working
  <2>3. PlanInv'
    BY <2>1 DEF PlanInv, Working
  <2>4. RecordsInv'
    BY <1>1, <1>2, <1>6, <2>1 DEF IInv, RecordsInv
  <2>5. ExitInv'
    <3>1. request = 0
      BY <1>6 DEF IInv, FlowInv
    <3>2. Came("restore", "failed")' <=> Came("restore", "failed")
      BY <2>1 DEF Came
    <3>3. code' = 0 => Stored(0, action)'
      <4>1. action = "invalid" => Code(action) # 0
        BY DEF Code, Diagnostics, Captures
      <4> QED
        BY <1>1, <1>6, <2>1, <3>1, <4>1, CodeTells, StoreTells DEF Stored
    <3> QED
      BY <1>1, <1>3, <1>6, <2>1, <3>1, <3>2, <3>3, CodeTells DEF ExitInv
  <2> QED
    BY <2>2, <2>3, <2>4, <2>5 DEF IInv
<1> QED
  BY <1>5, <1>6

\* The next selection starts with all of its steps to be done.
LEMMA SelectStep == ASSUME IInv, Select PROVE IInv'
<1>1. /\ pc = "read" /\ pc' = "selected" /\ request' = request + 1 /\ doing' \in Selections
      /\ todo' = Steps(doing') /\ DOMAIN results' = {}
      /\ UNCHANGED <<action, code, records, warned, echo, effects, shortfall>>
  BY DEF Select
<1>2. /\ action = "interactive" /\ request \in Nat /\ echo
      /\ shortfall \subseteq Nat /\ \A r \in shortfall : r <= request
  BY <1>1 DEF IInv, FlowInv, Leaving
<1>3. \A r \in shortfall : r <= request + 1 /\ r # request + 1
  BY <1>2
<1>4. FlowInv'
  BY <1>1, <1>2, <1>3 DEF IInv, FlowInv, Working, Leaving
<1>5. PlanInv'
  BY <1>1, <1>2, <1>3 DEF PlanInv, Plan, LeftOut, FellShort, Logs
<1>6. RecordsInv'
  <2>1. \A r : (Requested(r)' <=> Requested(r)) /\ (Told(r)' <=> Told(r))
    BY <1>1 DEF Requested, Told
  <2> QED
    BY <1>1, <1>2, <2>1 DEF IInv, RecordsInv
<1>7. ExitInv'
  BY <1>1 DEF ExitInv, Leaving
<1> QED
  BY <1>4, <1>5, <1>6, <1>7 DEF IInv

\* The console closes.
LEMMA LeaveStep == ASSUME IInv, Quit \/ Leave PROVE IInv'
<1>1. /\ \/ pc = "read" /\ pc' = "close" /\ UNCHANGED <<request, code>>
         \/ pc = "leave" /\ pc' = "exit" /\ code' = 0 /\ request' = 0
      /\ UNCHANGED <<action, doing, records, warned, echo, effects, shortfall>>
  BY DEF Quit, Leave
<1>2. action = "interactive" /\ echo
  BY <1>1 DEF IInv, FlowInv, Leaving
<1>3. FlowInv'
  BY <1>1, <1>2 DEF IInv, FlowInv, Working, Leaving
<1>4. PlanInv'
  BY <1>1 DEF PlanInv, Working
<1>5. RecordsInv'
  <2>1. \A r : (Requested(r)' <=> Requested(r)) /\ (Told(r)' <=> Told(r))
    BY <1>1 DEF Requested, Told
  <2> QED
    BY <1>1, <1>2, <2>1 DEF IInv, RecordsInv
<1>6. ExitInv'
  BY <1>1, <1>2 DEF ExitInv, Leaving, Stored, Stores, Captures
<1> QED
  BY <1>3, <1>4, <1>5, <1>6 DEF IInv

\* A process that is killed in a step may have done what the step is for.
LEMMA KillStep == ASSUME IInv, Kill PROVE IInv'
<1>1. /\ pc \notin {"ended", "killed"} /\ pc' = "killed"
      /\ \A e \in effects' : e \in effects \/ \E step \in InHand : e \in Brings(step)
      /\ UNCHANGED <<action, request, doing, code, records, warned, echo, shortfall>>
  BY DEF Kill
<1>2. FlowInv'
  BY <1>1 DEF IInv, FlowInv, Working, Leaving
<1>3. PlanInv' /\ ExitInv'
  BY <1>1 DEF PlanInv, ExitInv, Working, Leaving
<1>4. RecordsInv'
  <2>1. \A r : (Requested(r)' <=> Requested(r)) /\ (Told(r)' <=> Told(r))
    BY <1>1 DEF Requested, Told
  <2>2. \A step \in InHand : pc = "perform" /\ \A e \in Brings(step) : e[1] = request
    BY DEF InHand, Brings
  <2>3. \A e \in effects' : Requested(e[1])
    BY <1>1, <2>2 DEF IInv, RecordsInv
  <2>4. action = "interactive" => \A r \in shortfall : Told(r) \/ r = request
    BY DEF IInv, RecordsInv
  <2> QED
    BY <1>1, <2>1, <2>3, <2>4 DEF RecordsInv
<1> QED
  BY <1>2, <1>3, <1>4 DEF IInv

\* What the invariant is about stays when nothing of it is written.
LEMMA IdleStep ==
  ASSUME IInv, UNCHANGED <<action, request, doing, pc, todo, results, code, records, warned,
                           echo, effects, shortfall>>
  PROVE  IInv'
<1>1. FlowInv'
  BY DEF IInv, FlowInv
<1>2. PlanInv'
  BY PlanKept
<1>3. RecordsInv'
  BY DEF IInv, RecordsInv, Requested, Told, Stored
<1>4. ExitInv'
  BY DEF IInv, ExitInv, Came, Stored
<1> QED
  BY <1>1, <1>2, <1>3, <1>4 DEF IInv

\* Every step keeps the invariant.
LEMMA Invariance == Spec => []IInv
<1>1. Init => IInv
  BY InitInv
<1>2. IInv /\ [Next]_vars => IInv'
  <2> SUFFICES ASSUME IInv, [Next]_vars PROVE IInv'
    OBVIOUS
  <2>1. CASE TunnelChanges \/ UNCHANGED vars
    BY <2>1, IdleStep DEF TunnelChanges, vars
  <2> QED
    BY <2>1, RecordingStep, PerformStep, DoneStep, SelectStep, LeaveStep, KillStep DEF Next
<1> QED
  BY <1>1, <1>2, PTL DEF Spec

\* What was last told of the tunnel was so at some time since the last scan began.
LEMMA FlagInvariance == Spec => []FlagInv
<1>1. Init => FlagInv
  BY InitInv
<1>2. FlagInv /\ [Next]_vars => FlagInv'
  <2> SUFFICES ASSUME FlagInv, [Next]_vars PROVE FlagInv'
    OBVIOUS
  <2>1. CASE Recording
    <3>1. UNCHANGED <<tunnel, vpn, since, scanned>>
      BY <2>1 DEF Recording, Start, RequestRecorded, ExitRecorded, ActionFailed, ErrorRecorded,
                  OpenSession, CloseSession, Selected, Refreshed, Reported, RecordAt, world
    <3> QED
      BY <3>1 DEF FlagInv
  <2>2. CASE Perform
    <3>1. PICK step \in InHand : \E outcome \in Outcomes(step) :
             /\ vpn' = IF step = "scan" THEN Scanned(outcome) ELSE vpn
             /\ scanned' = IF step = "scan" THEN outcome = "ok" ELSE scanned
             /\ since' = IF step = "scan" THEN {tunnel} ELSE since
      BY <2>2 DEF Perform
    <3>2. tunnel' = tunnel
      BY <2>2 DEF Perform, world
    <3>3. CASE step = "scan"
      <4>1. /\ vpn' => tunnel
            /\ ~vpn' => ~scanned' \/ ~tunnel
            /\ since' = {tunnel}
        BY <3>1, <3>3 DEF Scanned
      <4> QED
        BY <3>2, <4>1 DEF FlagInv
    <3>4. CASE step # "scan"
      <4>1. UNCHANGED <<tunnel, vpn, since, scanned>>
        BY <3>1, <3>2, <3>4
      <4> QED
        BY <4>1 DEF FlagInv
    <3> QED
      BY <3>3, <3>4
  <2>3. CASE Done \/ Select \/ Quit \/ Leave \/ Kill \/ UNCHANGED vars
    <3>1. UNCHANGED <<tunnel, vpn, since, scanned>>
      BY <2>3 DEF Done, Select, Quit, Leave, Kill, vars, world
    <3> QED
      BY <3>1 DEF FlagInv
  <2>4. CASE TunnelChanges
    BY <2>4 DEF TunnelChanges, FlagInv
  <2> QED
    BY <2>1, <2>2, <2>3, <2>4 DEF Next
<1> QED
  BY <1>1, <1>2, PTL DEF Spec

-----------------------------------------------------------------------------
(* The theorems. *)

\* Nothing is done that the logs do not say was requested, wherever the process is killed:
\* the request is recorded, or the operator warned, before the first step of it is in hand.
THEOREM EffectAlwaysRequested == Spec => []EffectRequested
<1>1. IInv => EffectRequested
  BY DEF IInv, RecordsInv, Requested, EffectRequested
<1> QED
  BY <1>1, Invariance, PTL

\* A request that fell short in one of the ways that FellShort names leaves a record in the
\* error log or a warning, on the command line and in the console, across the steps that an
\* earlier failure left out.  It says nothing of the failures that ffc does not look at.
THEOREM FailureAlwaysRecorded == Spec => []FailureRecorded
<1>1. IInv => FailureRecorded
  <2> SUFFICES ASSUME IInv, NEW r \in shortfall, Concluded(r) PROVE Told(r)
    BY DEF FailureRecorded
  <2>1. CASE action = "interactive"
    <3>1. r \in Nat /\ request \in Nat /\ (r < request \/ pc = "read")
      BY <2>1 DEF IInv, FlowInv, Concluded, Over
    <3>2. r # request \/ pc = "read"
      BY <3>1
    <3> QED
      BY <2>1, <3>2 DEF IInv, RecordsInv
  <2>2. CASE action # "interactive"
    <3>1. pc = "ended" /\ r = 0
      BY <2>2 DEF IInv, FlowInv, Concluded, Over
    <3>2. code # 0
      BY <2>2, <3>1 DEF IInv, ExitInv, Leaving
    <3> QED
      BY <3>1, <3>2 DEF IInv, RecordsInv
  <2> QED
    BY <2>1, <2>2
<1> QED
  BY <1>1, Invariance, PTL

\* A command that exits with 0 stored the key, the mode or the observation it is for, and so
\* did a capture in the console without an error record or a warning, whatever else failed.
THEOREM SuccessAlwaysStores == Spec => []SuccessStores
<1>1. IInv => SuccessStores
  BY DEF IInv, ExitInv, RecordsInv, SuccessStores, Stored, Leaving
<1> QED
  BY <1>1, Invariance, PTL

\* The prompt for a key leaves the terminal showing what is typed, however it is answered,
\* unless restoring it failed, and the exit code then tells.
THEOREM EchoAlwaysRestored == Spec => []EchoRestored
<1>1. IInv => EchoRestored
  BY DEF IInv, ExitInv, EchoRestored, Leaving
<1> QED
  BY <1>1, Invariance, PTL

\* The VPN state that goes into a saved observation is what the last scan told: "active" was
\* so at some time since it began, and so was "none" unless the scan failed or was not
\* recognised, however often a tunnel comes and goes.
THEOREM FlagAlwaysAsScanned == Spec => FlagAsScanned
<1>1. FlagInv => SavesFlagTruly
  BY DEF FlagInv, SavesFlagTruly
<1>2. FlagInv /\ [Next]_vars => [SavesFlagTruly]_vars
  BY <1>1
<1> QED
  BY <1>2, FlagInvariance, PTL DEF Spec, FlagAsScanned
=============================================================================
