---------------------------- MODULE WebDashboard ----------------------------
(***************************************************************************)
(* Browser pages of the web dashboard over one SnapshotService: the        *)
(* overview (web/src/client/dashboard.js), whose automatic collection can  *)
(* be paused, and the section pages (section-page.js), which have no such  *)
(* switch.  Tabs are hidden and shown, operators press keys and buttons,   *)
(* requests are refused (429), fail or are answered late, and other        *)
(* clients share the cache and the collection.                             *)
(*                                                                         *)
(* A page is an event loop of its own: an action is one of its callbacks,  *)
(* or the rest of refresh() after an await.  Time passes in ticks; a timer *)
(* that is due and an answer that is there are taken before the next tick, *)
(* as they are for a visible tab and over the loopback interface.  What a  *)
(* snapshot says, the countdown, copying and exporting are left out: a     *)
(* snapshot is its source and its age.                                     *)
(***************************************************************************)
EXTENDS SnapshotService

CONSTANTS
    Pages,      \* the pages in view, each with one request at a time
    Period      \* AUTO_REFRESH_MS

\* The server's handler limit is longer than a collection, so its 503 is never
\* due (HandlerInTime); a snapshot is cached for some time.
ASSUME PagesAssumption ==
    /\ Pages \subseteq Requests /\ Period \in Nat \ {0}
    /\ HandlerLimit > ExecutionLimit /\ CacheTtl # 0
    /\ None \notin [source : {"fresh", "cache"}, age : Nat]

VARIABLES
    kind,        \* per page: "overview" or "section"; never changes
    visible,     \* per page: ~document.hidden
    enabled,     \* per page: autoRefreshEnabled
    fetch,       \* per page: where its refresh() is, "none" if not refreshing
    timer,       \* per page: the time left on refreshTimer, or None
    shown,       \* per page: the source and the age of what it shows, or None
    banner       \* per page: the error banner is there

server    == vars
page      == <<kind, visible, enabled, fetch, timer, shown, banner>>
pagesVars == <<server, page>>

\* Requests of anybody else: curl, other browsers.
Others == Requests \ Pages

Refreshing(p) == fetch[p] # "none"
AutoOn(p) == visible[p] /\ enabled[p]

\* The longest a watched page shows a snapshot for: Period after an answer that
\* was as old as answers are.
Bound  == Period + CacheTtl + ExecutionLimit
ShownCap == Bound + 1     \* bound: ages are not told apart beyond

PagesInit ==
    /\ Init
    /\ kind \in [Pages -> {"overview", "section"}]
    /\ visible \in [Pages -> BOOLEAN]
    /\ enabled = [p \in Pages |-> TRUE]
    /\ fetch = [p \in Pages |-> "sent"]
    /\ timer = [p \in Pages |-> None]
    /\ shown = [p \in Pages |-> None]
    /\ banner = [p \in Pages |-> FALSE]

-----------------------------------------------------------------------------
(* Callbacks of a page. *)

\* refresh() up to its first await; it does nothing while another one is on.
Began(p) == [fetch EXCEPT ![p] = IF @ = "none" THEN "sent" ELSE @]

\* The refresh button and the key R.
Manual(p) ==
    /\ visible[p] /\ ~Refreshing(p)
    /\ fetch' = Began(p)
    /\ UNCHANGED <<kind, visible, enabled, timer, shown, banner>>

\* refreshTimer is due; while a refresh is on it is lost, and set again by its end.
Fire(p) ==
    /\ timer[p] = 0
    /\ timer' = [timer EXCEPT ![p] = None]
    /\ fetch' = Began(p)
    /\ UNCHANGED <<kind, visible, enabled, shown, banner>>

\* toggleAutoRefresh
Pause(p) ==
    /\ kind[p] = "overview" /\ visible[p] /\ enabled[p]
    /\ enabled' = [enabled EXCEPT ![p] = FALSE]
    /\ timer' = [timer EXCEPT ![p] = None]
    /\ UNCHANGED <<kind, visible, fetch, shown, banner>>

Unpause(p) ==
    /\ kind[p] = "overview" /\ visible[p] /\ ~enabled[p]
    /\ enabled' = [enabled EXCEPT ![p] = TRUE]
    /\ fetch' = Began(p)
    /\ UNCHANGED <<kind, visible, timer, shown, banner>>

\* visibilitychange
Hide(p) ==
    /\ visible[p]
    /\ visible' = [visible EXCEPT ![p] = FALSE]
    /\ timer' = [timer EXCEPT ![p] = None]
    /\ UNCHANGED <<kind, enabled, fetch, shown, banner>>

Reveal(p) ==
    /\ ~visible[p]
    /\ visible' = [visible EXCEPT ![p] = TRUE]
    /\ fetch' = IF enabled[p] THEN Began(p) ELSE fetch
    /\ UNCHANGED <<kind, enabled, timer, shown, banner>>

-----------------------------------------------------------------------------
(* A request and its answer. *)

\* The request gets to the service.
Arrive(p) ==
    /\ fetch[p] = "sent" /\ Request(p)
    /\ fetch' = [fetch EXCEPT ![p] = "waiting"]
    /\ UNCHANGED <<kind, visible, enabled, timer, shown, banner>>

\* The limiter refuses it, or it does not get there.
Refuse(p) ==
    /\ fetch[p] = "sent"
    /\ fetch' = [fetch EXCEPT ![p] = "refused"]
    /\ UNCHANGED <<kind, visible, enabled, timer, shown, banner>>

Answered(p) == fetch[p] = "refused" \/ (fetch[p] = "waiting" /\ answer[p] # None)

\* response.ok
Ok(p) == fetch[p] = "waiting" /\ answer[p].source \in {"fresh", "cache"}

ShownSilent(p) == banner[p]                 \* mutants
TimerVisible(p) == IF visible[p] THEN Period ELSE None
TimerOnOk(p) == IF AutoOn(p) /\ Ok(p) THEN Period ELSE None

Failed(p) == ~Ok(p)

\* scheduleRefresh(), which sees the page as it is by then.
NextTimer(p) == IF AutoOn(p) THEN Period ELSE None

\* The rest of refresh(): render, or the banner over what was shown before; in
\* any case the next timer.
Deliver(p) ==
    /\ Answered(p)
    /\ fetch' = [fetch EXCEPT ![p] = "none"]
    /\ timer' = [timer EXCEPT ![p] = NextTimer(p)]
    /\ banner' = [banner EXCEPT ![p] = Failed(p)]
    /\ shown' = IF Ok(p) THEN [shown EXCEPT ![p] = answer[p]] ELSE shown
    /\ answer' = [answer EXCEPT ![p] = None]    \* it has been read
    /\ UNCHANGED <<kind, visible, enabled, cached, inFlight, running, awaits, outcome, waited>>

Callback(p) ==
    \/ Manual(p) \/ Fire(p) \/ Pause(p) \/ Unpause(p) \/ Hide(p) \/ Reveal(p)
    \/ Refuse(p)

\* Anybody else asks.
Ask(r) == Request(r) /\ UNCHANGED page

Serve(r) == (Settle(r) \/ Resume(r)) /\ UNCHANGED page

Due(p) == timer[p] = 0 \/ fetch[p] = "sent" \/ Answered(p)

PagesTick ==
    /\ Tick /\ \A p \in Pages : ~Due(p)
    /\ timer' = [p \in Pages |-> IF timer[p] = None THEN None ELSE timer[p] - 1]
    /\ shown' = [p \in Pages |->
          IF shown[p] = None THEN None ELSE [shown[p] EXCEPT !.age = Older(@, ShownCap)]]
    /\ UNCHANGED <<kind, visible, enabled, fetch, banner>>

PagesNext ==
    \/ PagesTick
    \/ \E p \in Pages : Callback(p) /\ UNCHANGED server
    \/ \E p \in Pages : Arrive(p) \/ Deliver(p)
    \/ \E r \in Others : Ask(r)
    \/ \E r \in Requests : Serve(r)

PagesSpec == PagesInit /\ [][PagesNext]_pagesVars

\* Time passes whatever the operator does, collections end by their limit, and
\* neither event loop leaves a callback that is due.
FairPagesSpec ==
    /\ PagesSpec /\ SF_pagesVars(PagesTick)
    /\ \A r \in Requests : WF_pagesVars(Serve(r))
    /\ \A p \in Pages :
          /\ WF_pagesVars(Fire(p) /\ UNCHANGED server) /\ WF_pagesVars(Deliver(p))
          /\ WF_pagesVars(Arrive(p) \/ (Refuse(p) /\ UNCHANGED server))

-----------------------------------------------------------------------------
\* Every variable has its type: among them, a page shows nothing but snapshots.
PagesTypeOK ==
    /\ TypeOK
    /\ kind \in [Pages -> {"overview", "section"}]
    /\ visible \in [Pages -> BOOLEAN] /\ enabled \in [Pages -> BOOLEAN]
    /\ fetch \in [Pages -> {"none", "sent", "waiting", "refused"}]
    /\ timer \in [Pages -> 0..Period \cup {None}]
    /\ shown \in [Pages -> [source : {"fresh", "cache"}, age : 0..ShownCap] \cup {None}]
    /\ banner \in [Pages -> BOOLEAN]

\* A page that is visible and not paused has its next collection under way or
\* its timer set, whatever order pausing, hiding and answers came in; one that
\* is hidden or paused has no timer left.
AutoLive ==
    \A p \in Pages : IF AutoOn(p) THEN Refreshing(p) \/ timer[p] # None ELSE timer[p] = None

\* What a page in view shows without a banner is never older than a period, a
\* cache lifetime and the longest collection: a page does not silently keep
\* showing the posture of before.
ShownAgeBounded ==
    \A p \in Pages :
        AutoOn(p) /\ ~Refreshing(p) /\ ~banner[p] => shown[p] # None /\ shown[p].age < Bound

\* A request is served before the server's handler limit is reached, also when
\* it joined a collection that somebody else began.
HandlerInTime ==
    \A r \in Requests : awaits[r] # None => answer[r] = None /\ waited[r] < HandlerLimit

\* A page left visible and not paused collects again and again, and each of its
\* collections comes to an end, however many fail.
WatchGoesOn ==
    \A p \in Pages : []<>~AutoOn(p) \/ ([]<>Refreshing(p) /\ []<>~Refreshing(p))
=============================================================================
