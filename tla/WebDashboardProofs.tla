------------------------- MODULE WebDashboardProofs -------------------------
(***************************************************************************)
(* The snapshot service and the pages over it, for any number of requests  *)
(* and pages, any lifetime, limits and period.  The first part is about    *)
(* SnapshotService alone, whoever asks.  Every step of the pages is a step *)
(* of the service, the reading of an answer, or leaves the service alone,  *)
(* so its invariant holds beneath the pages, and with it what they show is *)
(* bounded in age.                                                         *)
(***************************************************************************)
EXTENDS WebDashboard, TLAPS

-----------------------------------------------------------------------------
(* The service. *)

\* What runs is what #inFlight names, and what #inFlight names runs or is
\* about to resume the request that started it.
FlightOK ==
    /\ \A r \in Running : inFlight = r
    /\ inFlight # None =>
          awaits[inFlight] = inFlight /\ inFlight \in Running \cup Resumable

\* A settled promise is one that no longer runs, and only its callers resume;
\* among them the leader while #inFlight still names it.
TurnOK ==
    \A r \in Resumable :
       /\ awaits[r] # None /\ awaits[r] \notin Running /\ r \notin Running
       /\ awaits[r] = r => inFlight = r

\* What an answer says of its age.
AnswerOK == EvidenceAgeBounded

IInv == TypeOK /\ FlightOK /\ TurnOK /\ AnswerOK

\* Before the first request.
LEMMA InitInv == Init => IInv
  BY ServiceAssumption DEF ServiceAssumption, Init, IInv, TypeOK, FlightOK, TurnOK, AnswerOK,
     EvidenceAgeBounded, Running, Resumable, Pending, Taken

\* Requests, collections, their timers and the waking of waiters, one step each.
LEMMA StepInv == IInv /\ [Next]_vars => IInv'
<1> SUFFICES ASSUME IInv, [Next]_vars PROVE IInv'
  OBVIOUS
<1> USE ServiceAssumption DEF ServiceAssumption, IInv, FlightOK, TurnOK, AnswerOK,
        EvidenceAgeBounded, Running, Resumable, Pending, Taken, AgeCap
<1>1. ASSUME NEW r \in Requests, HitCache(r) PROVE IInv'
  BY <1>1 DEF HitCache, Fresh, TypeOK
<1>2. ASSUME NEW r \in Requests, Join(r) PROVE IInv'
  BY <1>2 DEF Join, Await, NewTurn, TypeOK
<1>3. ASSUME NEW r \in Requests, Lead(r) PROVE IInv'
  <2>1. TypeOK'
    BY <1>3 DEF Lead, Published, Await, TypeOK
  <2>2. FlightOK' /\ TurnOK'
    <3>1. Running = {} /\ Resumable = {} /\ UNCHANGED outcome
      BY <1>3 DEF Lead, NewTurn
    <3>2. Running' = {r} /\ Resumable' = {} /\ inFlight' = r /\ awaits'[r] = r
      BY <1>3, <3>1 DEF Lead, Published, Await, TypeOK
    <3> HIDE DEF Running, Resumable
    <3> QED
      BY <3>2
  <2>3. AnswerOK'
    BY <1>3 DEF Lead, Await, TypeOK
  <2> QED
    BY <2>1, <2>2, <2>3
<1>4. ASSUME NEW r \in Requests, Settle(r) PROVE IInv'
  BY <1>4 DEF Settle, Awaiting, NewTurn, TypeOK
<1>5. ASSUME NEW r \in Requests, ResumeLeader(r) PROVE IInv'
  BY <1>5 DEF ResumeLeader, Stored, Cleared, Return, TypeOK
<1>6. ASSUME NEW r \in Requests, ResumeJoined(r) PROVE IInv'
  BY <1>6 DEF ResumeJoined, Return, TypeOK
<1>7. ASSUME NEW r \in Requests, HandlerTimeout(r) PROVE IInv'
  BY <1>7 DEF HandlerTimeout, TypeOK
<1>8. CASE Tick
  <2>1. /\ cached' \in {None} \cup [age : 0..AgeCap, taken : Taken]
        /\ running' \in [Requests -> Taken \cup {None}]
        /\ waited' \in [Requests -> 0..HandlerLimit]
    <3>1. cached' \in {None} \cup [age : 0..AgeCap, taken : Taken]
      BY <1>8 DEF Tick, Older, TypeOK
    <3>2. running' \in [Requests -> Taken \cup {None}]
      BY <1>8 DEF Tick, TypeOK
    <3>3. waited' \in [Requests -> 0..HandlerLimit]
      BY <1>8 DEF Tick, Older, TypeOK
    <3> QED
      BY <3>1, <3>2, <3>3
  <2>2. UNCHANGED <<inFlight, awaits, outcome, answer>> /\ Resumable = {} /\ Running' = Running
    BY <1>8 DEF Tick, NewTurn, TypeOK
  <2>3. TypeOK'
    BY <2>1, <2>2 DEF TypeOK
  <2>4. FlightOK' /\ TurnOK' /\ AnswerOK'
    BY <2>2
  <2> QED
    BY <2>3, <2>4
<1>9. CASE UNCHANGED vars
  BY <1>9 DEF vars, TypeOK
<1> QED
  BY <1>1, <1>2, <1>3, <1>4, <1>5, <1>6, <1>7, <1>8, <1>9 DEF Next, Request, Resume

\* The inductive invariant of the service.
LEMMA Invariance == Spec => []IInv
  BY InitInv, StepInv, PTL DEF Spec

\* However requests interleave, at most one native collection runs.
THEOREM SingleFlightAlways == Spec => []SingleFlight
<1>1. IInv => SingleFlight
  BY DEF IInv, FlightOK, SingleFlight
<1> QED
  BY <1>1, Invariance, PTL

\* No answer carries evidence older than the cache lifetime and one collection.
THEOREM EvidenceAgeAlwaysBounded == Spec => []EvidenceAgeBounded
  BY Invariance, PTL DEF IInv, AnswerOK

\* A failed collection is never left for later requests to join.
THEOREM InFlightAlwaysRunning == Spec => []InFlightIsRunning
<1>1. IInv => InFlightIsRunning
  BY DEF IInv, FlightOK, InFlightIsRunning, NewTurn
<1> QED
  BY <1>1, Invariance, PTL

-----------------------------------------------------------------------------
\* A collection runs only once the cache has expired, and the cache ages with it:
\* what it held is by a lifetime older than what the collection will bring.
StaleOK ==
    cached # None =>
       /\ \A r \in Running : cached.age >= CacheTtl + running[r]
       /\ \A r \in Resumable : awaits[r] = r /\ outcome[r].state = "ok" =>
             cached.age >= CacheTtl + outcome[r].taken

\* Whatever begins, ends or ages, the cache is older than the collection by a lifetime.
LEMMA StaleStep == IInv /\ StaleOK /\ [Next]_vars => StaleOK'
<1> SUFFICES ASSUME IInv, StaleOK, [Next]_vars, cached' # None PROVE StaleOK'
  BY DEF StaleOK
<1> USE ServiceAssumption DEF ServiceAssumption, IInv, Running, Resumable, Pending, Taken, AgeCap
<1>1. ASSUME NEW r \in Requests, HitCache(r) \/ Join(r) \/ HandlerTimeout(r) PROVE StaleOK'
  BY <1>1 DEF HitCache, Join, Await, HandlerTimeout, NewTurn, StaleOK
<1>2. ASSUME NEW r \in Requests, Lead(r) PROVE StaleOK'
  <2>1. cached' = cached /\ cached.age >= CacheTtl /\ Resumable' = {} /\ Running = {}
    BY <1>2 DEF Lead, Await, Fresh, NewTurn, TypeOK, FlightOK
  <2>2. running' = [running EXCEPT ![r] = 0]
    BY <1>2 DEF Lead
  <2> QED
    BY <2>1, <2>2 DEF StaleOK, TypeOK
<1>3. ASSUME NEW r \in Requests, Settle(r) PROVE StaleOK'
  <2>1. UNCHANGED <<cached, awaits>> /\ running' = [running EXCEPT ![r] = None] /\ r \in Running
        /\ Resumable = {}
    BY <1>3 DEF Settle, NewTurn
  <2>2. \A q \in Requests : awaits[q] = q /\ outcome'[q] # Pending =>
           q = r /\ (outcome'[q].state = "ok" => outcome'[q].taken = running[r])
    BY <1>3, <2>1 DEF Settle, Awaiting, TypeOK
  <2> QED
    BY <2>1, <2>2 DEF StaleOK, TypeOK
<1>4. ASSUME NEW r \in Requests, ResumeLeader(r) PROVE StaleOK'
  <2>1. \A q \in Requests : q \in Resumable /\ awaits[q] = q => q = r
    BY <1>4 DEF ResumeLeader, TurnOK
  <2>2. \A q \in Resumable' : awaits'[q] # q
    BY <1>4, <2>1 DEF ResumeLeader, Return, TypeOK
  <2>3. Running = {}
    BY <1>4 DEF ResumeLeader, TurnOK, FlightOK
  <2> QED
    BY <1>4, <2>2, <2>3 DEF ResumeLeader, StaleOK
<1>5. ASSUME NEW r \in Requests, ResumeJoined(r) PROVE StaleOK'
  BY <1>5 DEF ResumeJoined, Return, StaleOK, TypeOK
<1>6. CASE Tick
  <2>1. /\ cached # None /\ cached' = [cached EXCEPT !.age = Older(@, AgeCap)]
        /\ Resumable' = {} /\ \A r \in Running : running[r] < ExecutionLimit
        /\ running' = [r \in Requests |-> IF r \in Running THEN running[r] + 1 ELSE None]
    BY <1>6 DEF Tick, NewTurn
  <2>2. cached \in [age : 0..AgeCap, taken : Taken]
    BY <2>1 DEF TypeOK
  <2>3. cached'.age = IF cached.age < AgeCap THEN cached.age + 1 ELSE AgeCap
    BY <2>1, <2>2 DEF Older
  <2>4. \A r \in Running' : running'[r] = running[r] + 1 /\ r \in Running /\ running[r] \in Nat
    BY <2>1 DEF TypeOK
  <2>5. \A r \in Running' : cached'.age >= CacheTtl + running'[r]
    BY <2>1, <2>2, <2>3, <2>4 DEF StaleOK, TypeOK
  <2> QED
    BY <2>1, <2>5 DEF StaleOK
<1>7. CASE UNCHANGED vars
  BY <1>7 DEF vars, StaleOK
<1> QED
  BY <1>1, <1>2, <1>3, <1>4, <1>5, <1>6, <1>7 DEF Next, Request, Resume

\* In every state the cache is expired while somebody collects.
LEMMA StaleInvariance == Spec => []StaleOK
<1>1. Init => StaleOK
  BY DEF Init, StaleOK
<1> QED
  BY <1>1, StaleStep, Invariance, PTL DEF Spec

\* A step that renews the cache is the return of a leader with newer evidence.
LEMMA RenewalStep ==
  ASSUME IInv, StaleOK, CacheTtl # 0, [Next]_vars,
         cached # None, cached' # cached, cached'.age <= cached.age
  PROVE  /\ cached'.age + cached'.taken < cached.age + cached.taken
         /\ \E r \in Requests : outcome[r].state = "ok"
<1> USE ServiceAssumption DEF ServiceAssumption, IInv
<1>1. cached \in [age : 0..AgeCap, taken : Taken]
  BY DEF TypeOK
<1>2. CASE Tick
  <2>1. cached' = [cached EXCEPT !.age = Older(@, AgeCap)]
    BY <1>2 DEF Tick
  <2>2. cached.age < AgeCap => cached'.age = cached.age + 1
    BY <1>1, <2>1 DEF Older
  <2>3. cached.age \in Nat /\ (cached.age < AgeCap \/ cached.age = AgeCap)
    BY <1>1 DEF AgeCap
  <2>4. cached.age = AgeCap => cached' = cached
    BY <1>1, <2>1 DEF Older
  <2> QED
    BY <2>2, <2>3, <2>4
<1>3. ASSUME NEW r \in Requests, ResumeLeader(r), outcome[r].state = "ok"
      PROVE  cached'.age + cached'.taken < cached.age + cached.taken
  <2>1. cached' = [age |-> 0, taken |-> outcome[r].taken] /\ outcome[r].taken \in Nat
    BY <1>3 DEF ResumeLeader, Stored, TypeOK, Taken
  <2>2. cached.age >= CacheTtl + outcome[r].taken
    BY <1>3 DEF ResumeLeader, StaleOK
  <2> QED
    BY <1>1, <2>1, <2>2 DEF AgeCap, Taken
<1>4. ASSUME NEW r \in Requests,
             Request(r) \/ Settle(r) \/ ResumeJoined(r) \/ HandlerTimeout(r)
      PROVE  cached' = cached
  BY <1>4 DEF Request, HitCache, Join, Lead, Settle, ResumeJoined, HandlerTimeout
<1>5. ASSUME NEW r \in Requests, ResumeLeader(r), outcome[r].state # "ok"
      PROVE  cached' = cached
  BY <1>5 DEF ResumeLeader, Stored
<1>6. UNCHANGED vars => cached' = cached
  BY DEF vars
<1>7. CASE ~Tick
  <2>1. \E r \in Requests : Request(r) \/ Settle(r) \/ Resume(r) \/ HandlerTimeout(r)
    BY <1>6, <1>7 DEF Next
  <2>2. PICK r \in Requests : ResumeLeader(r)
    BY <1>4, <2>1 DEF Resume
  <2>3. outcome[r].state = "ok"
    BY <1>5, <2>2
  <2> QED
    BY <1>3, <2>2, <2>3
<1> QED
  BY <1>2, <1>7

\* With a cache that lasts at all (SNAPSHOT_CACHE_TTL_MS is positive), no client
\* ever sees the posture go back in time, and no failure renews what is cached.
THEOREM CacheNeverRegressesAlways ==
  ASSUME CacheTtl # 0 PROVE Spec => CacheNeverRegresses
<1>1. IInv /\ StaleOK /\ [Next]_vars =>
        [cached # None /\ cached' # cached /\ cached'.age <= cached.age =>
            /\ cached'.age + cached'.taken < cached.age + cached.taken
            /\ \E r \in Requests : outcome[r].state = "ok"]_vars
  BY RenewalStep
<1> QED
  BY <1>1, Invariance, StaleInvariance, PTL DEF Spec, CacheNeverRegresses

-----------------------------------------------------------------------------
(* The pages. *)

\* Whoever waits has no answer yet, awaits a collection that runs or is to be resumed
\* from it, and came no earlier than the collection began.
InTime ==
    \A r \in Requests : awaits[r] # None =>
       /\ answer[r] = None /\ waited[r] <= ExecutionLimit
       /\ awaits[r] \in Running \/ r \in Resumable
       /\ awaits[r] \in Running => waited[r] <= running[awaits[r]]

\* A page in view without a banner shows a snapshot that is still younger than the
\* bound when its timer is due.
ShownOK ==
    \A p \in Pages : AutoOn(p) /\ ~Refreshing(p) /\ ~banner[p] =>
       shown[p] # None /\ shown[p].age + timer[p] < Bound

PagesInv == PagesTypeOK /\ IInv /\ InTime /\ AutoLive /\ ShownOK

\* Requests and collections keep that nobody waits for longer than his collection.
LEMMA InTimeStep ==
  ASSUME IInv, InTime,
         Tick \/ \E r \in Requests : Request(r) \/ Settle(r) \/ Resume(r)
  PROVE  InTime'
<1> USE ServiceAssumption, PagesAssumption
    DEF ServiceAssumption, PagesAssumption, IInv, Running, Resumable, Pending, Taken
<1>1. ASSUME NEW r \in Requests, HitCache(r) PROVE InTime'
  BY <1>1 DEF HitCache, InTime, TypeOK
<1>2. ASSUME NEW r \in Requests, Join(r) PROVE InTime'
  <2>1. inFlight \in Running /\ running[inFlight] \in Nat
    BY <1>2 DEF Join, NewTurn, FlightOK, TypeOK
  <2>2. /\ awaits' = [awaits EXCEPT ![r] = inFlight] /\ waited' = [waited EXCEPT ![r] = 0]
        /\ answer' = [answer EXCEPT ![r] = None] /\ UNCHANGED <<running, outcome>>
    BY <1>2 DEF Join, Await
  <2> QED
    BY <2>1, <2>2 DEF InTime, TypeOK
<1>3. ASSUME NEW r \in Requests, Lead(r) PROVE InTime'
  <2>1. Running = {} /\ Resumable = {}
    BY <1>3 DEF Lead, NewTurn, FlightOK
  <2>2. /\ awaits' = [awaits EXCEPT ![r] = r] /\ waited' = [waited EXCEPT ![r] = 0]
        /\ answer' = [answer EXCEPT ![r] = None] /\ outcome' = outcome
        /\ running' = [running EXCEPT ![r] = 0]
    BY <1>3 DEF Lead, Await
  <2> QED
    BY <2>1, <2>2 DEF InTime, TypeOK
<1>4. ASSUME NEW r \in Requests, Settle(r) PROVE InTime'
  <2>1. \A q \in Requests : awaits[q] # None => awaits[q] = r
    BY <1>4 DEF Settle, NewTurn, InTime, FlightOK
  <2>2. \A q \in Requests : awaits[q] = r => outcome'[q] # Pending
    BY <1>4 DEF Settle, Awaiting, TypeOK
  <2>3. UNCHANGED <<awaits, waited, answer>> /\ running'[r] = None
    BY <1>4 DEF Settle, TypeOK
  <2> QED
    BY <2>1, <2>2, <2>3 DEF InTime
<1>5. ASSUME NEW r \in Requests, ResumeLeader(r) \/ ResumeJoined(r) PROVE InTime'
  <2>1. /\ awaits' = [awaits EXCEPT ![r] = None] /\ outcome' = [outcome EXCEPT ![r] = Pending]
        /\ UNCHANGED <<running, waited>> /\ \A q \in Requests \ {r} : answer'[q] = answer[q]
    BY <1>5 DEF ResumeLeader, ResumeJoined, Return, TypeOK
  <2> QED
    BY <2>1 DEF InTime, TypeOK
<1>6. CASE Tick
  <2>1. /\ UNCHANGED <<awaits, outcome, answer>> /\ Resumable = {}
        /\ \A q \in Running : running[q] < ExecutionLimit /\ running'[q] = running[q] + 1
    BY <1>6 DEF Tick, NewTurn
  <2>2. ASSUME NEW r \in Requests, awaits[r] # None
        PROVE  /\ answer[r] = None /\ awaits[r] \in Running /\ running[awaits[r]] \in Nat
               /\ waited'[r] <= running[awaits[r]] + 1
    <3>1. answer[r] = None /\ awaits[r] \in Running /\ waited[r] <= running[awaits[r]]
      BY <2>1, <2>2 DEF InTime
    <3>2. waited'[r] = Older(waited[r], HandlerLimit) /\ waited[r] \in Nat
      BY <1>6, <2>2, <3>1 DEF Tick, TypeOK
    <3>3. running[awaits[r]] \in Nat
      BY <3>1 DEF TypeOK
    <3> QED
      BY <3>1, <3>2, <3>3 DEF Older
  <2>3. ASSUME NEW r \in Requests, awaits'[r] # None
        PROVE  /\ answer'[r] = None /\ waited'[r] <= ExecutionLimit
               /\ awaits'[r] \in Running' /\ waited'[r] <= running'[awaits'[r]]
    <3>1. awaits'[r] = awaits[r] /\ answer'[r] = answer[r]
      BY <2>1
    <3>2. running'[awaits[r]] = running[awaits[r]] + 1 /\ running[awaits[r]] < ExecutionLimit
      BY <2>1, <2>2, <2>3, <3>1
    <3>3. waited'[r] \in Nat
      BY <1>6 DEF Tick, Older, TypeOK
    <3> QED
      BY <2>2, <2>3, <3>1, <3>2, <3>3
  <2> QED
    BY <2>3 DEF InTime
<1> QED
  BY <1>1, <1>2, <1>3, <1>4, <1>5, <1>6 DEF Request, Resume

\* Every page collects as soon as it is opened.
LEMMA PagesInitial == PagesInit => PagesInv
<1> SUFFICES ASSUME PagesInit PROVE PagesInv
  OBVIOUS
<1>1. IInv
  BY InitInv DEF PagesInit
<1>2. InTime
  BY DEF PagesInit, Init, InTime
<1>3. PagesTypeOK
  BY <1>1 DEF PagesInit, PagesTypeOK, IInv
<1>4. AutoLive /\ ShownOK
  BY DEF PagesInit, AutoLive, ShownOK, Refreshing, AutoOn
<1> QED
  BY <1>1, <1>2, <1>3, <1>4 DEF PagesInv

\* A step of the pages is one of the service, with no handler over its limit, or takes
\* an answer, or leaves the service alone.
LEMMA ServedStep == IInv /\ InTime /\ [PagesNext]_pagesVars => IInv' /\ InTime'
<1> SUFFICES ASSUME IInv, InTime, [PagesNext]_pagesVars PROVE IInv' /\ InTime'
  OBVIOUS
<1>1. CASE Tick \/ \E r \in Requests : Request(r) \/ Settle(r) \/ Resume(r)
  <2>1. [Next]_vars
    BY <1>1 DEF Next
  <2> QED
    BY <1>1, <2>1, StepInv, InTimeStep
<1>2. ASSUME NEW p \in Pages, Deliver(p) PROVE IInv' /\ InTime'
  <2>1. UNCHANGED <<cached, inFlight, running, awaits, outcome, waited>>
        /\ answer' = [answer EXCEPT ![p] = None]
    BY <1>2 DEF Deliver
  <2>2. TypeOK' /\ FlightOK' /\ TurnOK'
    BY <2>1 DEF IInv, TypeOK, FlightOK, TurnOK, Running, Resumable
  <2>3. AnswerOK' /\ InTime'
    BY <2>1 DEF IInv, TypeOK, AnswerOK, EvidenceAgeBounded, InTime, Running, Resumable
  <2> QED
    BY <2>2, <2>3 DEF IInv
<1>3. CASE UNCHANGED vars
  <2>1. IInv'
    BY <1>3, StepInv
  <2>2. InTime'
    BY <1>3 DEF vars, InTime, Running, Resumable
  <2> QED
    BY <2>1, <2>2
<1>4. PagesNext => \/ UNCHANGED vars \/ \E p \in Pages : Deliver(p)
                  \/ Tick \/ \E r \in Requests : Request(r) \/ Settle(r) \/ Resume(r)
  BY PagesAssumption DEF PagesAssumption, PagesNext, PagesTick, Arrive, Ask, Serve, Others, server
<1> QED
  BY <1>1, <1>2, <1>3, <1>4 DEF pagesVars, server

\* Pausing, hiding, pressing and answers in any order keep a page alive and its snapshot
\* young.
LEMMA PageStep == PagesInv /\ [PagesNext]_pagesVars => PagesTypeOK' /\ AutoLive' /\ ShownOK'
<1> SUFFICES ASSUME PagesInv, [PagesNext]_pagesVars
             PROVE  PagesTypeOK' /\ AutoLive' /\ ShownOK'
  OBVIOUS
<1> USE ServiceAssumption, PagesAssumption DEF ServiceAssumption, PagesAssumption
<1>1. TypeOK' /\ PagesTypeOK
  BY ServedStep DEF PagesInv, IInv
<1>2. ASSUME NEW p \in Pages, Callback(p) PROVE PagesTypeOK' /\ AutoLive' /\ ShownOK'
  <2> USE <1>1 DEF PagesInv, Callback, Manual, Fire, Pause, Unpause, Hide, Reveal, Refuse, Began
  <2>1. PagesTypeOK'
    BY <1>1, <1>2 DEF PagesTypeOK
  <2>2. AutoLive'
    BY <1>1, <1>2 DEF PagesTypeOK, AutoLive, AutoOn, Refreshing
  <2>3. ShownOK'
    BY <1>1, <1>2 DEF PagesTypeOK, AutoLive, ShownOK, AutoOn, Refreshing
  <2> QED
    BY <2>1, <2>2, <2>3
<1>3. ASSUME NEW p \in Pages, Arrive(p) PROVE PagesTypeOK' /\ AutoLive' /\ ShownOK'
  BY <1>1, <1>3 DEF Arrive, PagesInv, PagesTypeOK, AutoLive, ShownOK, AutoOn, Refreshing
<1>4. ASSUME NEW p \in Pages, Deliver(p) PROVE PagesTypeOK' /\ AutoLive' /\ ShownOK'
  <2>1. Ok(p) => /\ answer[p] \in [source : {"fresh", "cache"}, age : 0..ShownCap]
                 /\ answer[p].age < CacheTtl + ExecutionLimit
    <3>1. ASSUME Ok(p)
          PROVE  /\ answer[p] \in [source : {"fresh", "cache", "error", "timeout"},
                                   age : 0..(CacheTtl + ExecutionLimit)]
                 /\ answer[p].source \in {"fresh", "cache"}
      BY <1>4, <3>1 DEF Deliver, Answered, Ok, PagesInv, IInv, TypeOK
    <3>2. ASSUME Ok(p) PROVE answer[p].age < CacheTtl + ExecutionLimit
      BY <1>4, <3>1, <3>2 DEF Deliver, Answered, Ok, PagesInv, IInv, AnswerOK, EvidenceAgeBounded
    <3> QED
      BY <3>1, <3>2 DEF ShownCap, Bound
  <2>2. /\ fetch' = [fetch EXCEPT ![p] = "none"]
        /\ timer' = [timer EXCEPT ![p] = IF AutoOn(p) THEN Period ELSE None]
        /\ banner' = [banner EXCEPT ![p] = ~Ok(p)]
        /\ shown' = IF Ok(p) THEN [shown EXCEPT ![p] = answer[p]] ELSE shown
        /\ UNCHANGED <<kind, visible, enabled>>
    BY <1>4 DEF Deliver, NextTimer, Failed
  <2>3. PagesTypeOK'
    BY <1>1, <2>1, <2>2 DEF PagesTypeOK
  <2>4. AutoLive'
    BY <1>1, <2>2 DEF PagesTypeOK, PagesInv, AutoLive, AutoOn, Refreshing
  <2>5. ShownOK'
    <3>1. ASSUME NEW q \in Pages \ {p}, AutoOn(q)', ~Refreshing(q)', ~banner'[q]
          PROVE  shown'[q] # None /\ shown'[q].age + timer'[q] < Bound
      BY <1>1, <2>2, <3>1 DEF PagesTypeOK, PagesInv, ShownOK, AutoOn, Refreshing
    <3>2. ASSUME AutoOn(p)', ~banner'[p]
          PROVE  shown'[p] # None /\ shown'[p].age + timer'[p] < Bound
      <4>1. Ok(p) /\ AutoOn(p)
        BY <1>1, <2>2, <3>2 DEF PagesTypeOK, AutoOn
      <4>2. shown'[p] = answer[p] /\ timer'[p] = Period /\ shown'[p] # None
        BY <1>1, <1>4, <2>2, <4>1 DEF PagesTypeOK, Deliver, Answered, Ok
      <4>3. answer[p].age \in Nat /\ answer[p].age < CacheTtl + ExecutionLimit
        BY <2>1, <4>1
      <4> QED
        BY <4>2, <4>3 DEF Bound
    <3> QED
      BY <3>1, <3>2 DEF ShownOK
  <2> QED
    BY <2>3, <2>4, <2>5
<1>5. CASE PagesTick
  <2>1. /\ \A p \in Pages : timer[p] # 0
        /\ timer' = [p \in Pages |-> IF timer[p] = None THEN None ELSE timer[p] - 1]
        /\ shown' = [p \in Pages |->
              IF shown[p] = None THEN None ELSE [shown[p] EXCEPT !.age = Older(@, ShownCap)]]
        /\ UNCHANGED <<kind, visible, enabled, fetch, banner>>
    BY <1>5 DEF PagesTick, Due
  <2>2. ASSUME NEW p \in Pages
        PROVE  /\ timer'[p] \in 0..Period \cup {None} /\ (timer'[p] = None <=> timer[p] = None)
               /\ timer[p] # None => timer[p] \in Nat /\ timer'[p] = timer[p] - 1
    <3>1. timer[p] \in 0..Period \cup {None} /\ timer[p] # 0
      BY <1>1, <2>1 DEF PagesTypeOK
    <3>2. timer'[p] = IF timer[p] = None THEN None ELSE timer[p] - 1
      BY <2>1
    <3>3. CASE timer[p] = None
      BY <3>2, <3>3
    <3>4. CASE timer[p] \in 1..Period
      <4>1. timer'[p] = timer[p] - 1 /\ timer[p] - 1 \in 0..Period /\ timer[p] \in Nat
        BY <3>2, <3>4
      <4>2. timer'[p] # None
        BY <4>1
      <4> QED
        BY <3>4, <4>1, <4>2
    <3> QED
      BY <3>1, <3>3, <3>4
  <2>3. ASSUME NEW p \in Pages, shown[p] # None
        PROVE  /\ shown'[p] \in [source : {"fresh", "cache"}, age : 0..ShownCap]
               /\ shown[p].age \in Nat /\ shown'[p].age <= shown[p].age + 1
    <3>1. shown[p] \in [source : {"fresh", "cache"}, age : 0..ShownCap]
      BY <1>1, <2>3 DEF PagesTypeOK
    <3>2. shown'[p] = [shown[p] EXCEPT !.age = Older(shown[p].age, ShownCap)]
      BY <2>1, <2>3
    <3>3. Older(shown[p].age, ShownCap) \in 0..ShownCap
          /\ Older(shown[p].age, ShownCap) <= shown[p].age + 1
      BY <3>1 DEF Older, ShownCap, Bound
    <3> QED
      BY <3>1, <3>2, <3>3
  <2>4. ASSUME NEW p \in Pages, shown[p] = None PROVE shown'[p] = None
    BY <2>1, <2>4
  <2>5. PagesTypeOK'
    <3>1. shown' \in [Pages -> [source : {"fresh", "cache"}, age : 0..ShownCap] \cup {None}]
      BY <2>1, <2>3, <2>4
    <3>2. timer' \in [Pages -> 0..Period \cup {None}]
      BY <2>1, <2>2
    <3> QED
      BY <1>1, <2>1, <3>1, <3>2 DEF PagesTypeOK
  <2>6. AutoLive'
    BY <2>1, <2>2 DEF PagesInv, AutoLive, AutoOn, Refreshing
  <2>7. ShownOK'
    <3>1. ASSUME NEW p \in Pages, AutoOn(p)', ~Refreshing(p)', ~banner'[p]
          PROVE  shown'[p] # None /\ shown'[p].age + timer'[p] < Bound
      <4>1. AutoOn(p) /\ ~Refreshing(p) /\ ~banner[p]
        BY <2>1, <3>1 DEF AutoOn, Refreshing
      <4>2. timer[p] # None /\ shown[p] # None /\ shown[p].age + timer[p] < Bound
        BY <4>1 DEF PagesInv, AutoLive, ShownOK
      <4>3. shown'[p].age \in Nat /\ Bound \in Nat /\ shown'[p] # None
        <5>1. shown'[p] \in [source : {"fresh", "cache"}, age : 0..ShownCap]
          BY <2>3, <4>2
        <5>2. Bound \in Nat /\ ShownCap \in Nat
          BY DEF Bound, ShownCap
        <5>3. shown'[p] \in [source : {"fresh", "cache"}, age : Nat]
          BY <5>1, <5>2
        <5> QED
          BY <5>2, <5>3
      <4> QED
        BY <2>2, <2>3, <4>2, <4>3
    <3> QED
      BY <3>1 DEF ShownOK
  <2> QED
    BY <2>5, <2>6, <2>7
<1>6. CASE UNCHANGED page
  BY <1>1, <1>6 DEF page, PagesInv, PagesTypeOK, AutoLive, ShownOK, AutoOn, Refreshing
<1> QED
  BY <1>2, <1>3, <1>4, <1>5, <1>6 DEF PagesNext, Ask, Serve, pagesVars

\* The inductive invariant of the pages and the service beneath them.
LEMMA PagesInvariance == PagesSpec => []PagesInv
<1>1. PagesInv /\ [PagesNext]_pagesVars => PagesInv'
  BY ServedStep, PageStep DEF PagesInv
<1> QED
  BY <1>1, PagesInitial, PTL DEF PagesSpec

\* However pausing, hiding and answers interleave, no page in view stops collecting, and
\* none that is hidden or paused goes on.
THEOREM AutoAlwaysLive == PagesSpec => []AutoLive
  BY PagesInvariance, PTL DEF PagesInv

\* While its timer is set a page in view is within the bound.
LEMMA ShownWithinBound ==
  ASSUME PagesInv, NEW p \in Pages, AutoOn(p), ~Refreshing(p), ~banner[p]
  PROVE  shown[p] # None /\ shown[p].age < Bound
<1> USE ServiceAssumption, PagesAssumption DEF ServiceAssumption, PagesAssumption
<1>1. timer[p] # None /\ shown[p] # None /\ shown[p].age + timer[p] < Bound
  BY DEF PagesInv, AutoLive, ShownOK
<1>2. timer[p] \in Nat /\ shown[p].age \in Nat
  BY <1>1 DEF PagesInv, PagesTypeOK, ShownCap, Bound
<1> QED
  BY <1>1, <1>2 DEF Bound

\* No page in view shows a snapshot for longer than a period, a cache lifetime and the
\* longest collection, unless it says that the last collection failed.
THEOREM ShownAgeAlwaysBounded == PagesSpec => []ShownAgeBounded
<1>1. PagesInv => ShownAgeBounded
  BY ShownWithinBound DEF ShownAgeBounded
<1> QED
  BY <1>1, PagesInvariance, PTL

\* With a handler limit above the limit of a collection, nobody who waits for a collection
\* gets the server's 503 instead, also when he joined it.
THEOREM HandlerAlwaysInTime == PagesSpec => []HandlerInTime
<1>1. PagesInv => HandlerInTime
  BY ServiceAssumption, PagesAssumption
  DEF ServiceAssumption, PagesAssumption, PagesInv, IInv, TypeOK, InTime, HandlerInTime
<1> QED
  BY <1>1, PagesInvariance, PTL
=============================================================================
