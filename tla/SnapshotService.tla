--------------------------- MODULE SnapshotService ---------------------------
(***************************************************************************)
(* SnapshotService of web/src/server/snapshot-service.ts: one cache and    *)
(* one in-flight collection shared by all requests of a snapshot route,    *)
(* with the native collection (ffc-runner.ts, schema-validator.ts) and the *)
(* handler time limit of app.ts around it.                                 *)
(*                                                                         *)
(* The server is one event loop.  getSnapshot runs to its first await in   *)
(* the request's own turn; a settled collection resumes its callers in the *)
(* order they awaited it, before any other event.  The clock is monotonic  *)
(* (performance.now), so only ages matter: of the cached snapshot, of a    *)
(* collection, of a request.  A collection is named by the request that    *)
(* started it, and a snapshot is as old as its collection's start.         *)
(***************************************************************************)
EXTENDS Integers

CONSTANTS
    Requests,        \* request slots; a slot is used again once it is done
    None,            \* nothing: no request, no snapshot, no answer
    CacheTtl,        \* SNAPSHOT_CACHE_TTL_MS
    ExecutionLimit,  \* longest collection: EXECUTION_TIMEOUT_MS and the kill
    HandlerLimit     \* handlerTimeout of the HTTP server

ASSUME ServiceAssumption ==
    /\ None \notin Requests /\ None \notin Nat
    /\ CacheTtl \in Nat /\ ExecutionLimit \in Nat /\ HandlerLimit \in Nat

VARIABLES
    cached,      \* #cached: its age since it was stored, and at that moment
    inFlight,    \* #inFlight: the collection new requests join
    running,     \* per request: how long the collection it started runs
    awaits,      \* per request: the collection whose promise it awaits
    outcome,     \* per request: what that promise settled to
    waited,      \* per request: how long its client has waited
    answer       \* per request: what its client got, None while pending

vars == <<cached, inFlight, running, awaits, outcome, waited, answer>>

AgeCap  == CacheTtl + ExecutionLimit + 1   \* bound: ages are not told apart beyond
Taken   == 0..ExecutionLimit
Pending == [state |-> "pending", taken |-> 0]

TypeOK ==
    /\ cached \in {None} \cup [age : 0..AgeCap, taken : Taken]
    /\ inFlight \in Requests \cup {None}
    /\ running \in [Requests -> Taken \cup {None}]
    /\ awaits \in [Requests -> Requests \cup {None}]
    /\ outcome \in [Requests -> [state : {"pending", "ok", "failed"}, taken : Taken]]
    /\ waited \in [Requests -> 0..HandlerLimit]
    /\ answer \in [Requests -> {None} \cup
          [source : {"fresh", "cache", "error", "timeout"}, age : 0..(CacheTtl + ExecutionLimit)]]

Init ==
    /\ cached = None /\ inFlight = None
    /\ running = [r \in Requests |-> None]
    /\ awaits = [r \in Requests |-> None]
    /\ outcome = [r \in Requests |-> Pending]
    /\ waited = [r \in Requests |-> 0]
    /\ answer = [r \in Requests |-> None]

Running   == {r \in Requests : running[r] # None}
Resumable == {r \in Requests : outcome[r] # Pending}

\* A new event is only taken once the microtasks are done.
NewTurn == Resumable = {}

\* Mutant: the last known good snapshot stays good enough.
FreshForEver == cached # None

\* #cacheState() = "fresh"
Fresh == cached # None /\ cached.age < CacheTtl

\* getSnapshot, first branch: the cache is fresh.
HitCache(r) ==
    /\ NewTurn /\ awaits[r] = None /\ Fresh
    /\ answer' = [answer EXCEPT ![r] =
          [source |-> "cache", age |-> cached.age + cached.taken]]
    /\ UNCHANGED <<cached, inFlight, running, awaits, outcome, waited>>

Await(r, collection) ==
    /\ awaits' = [awaits EXCEPT ![r] = collection]
    /\ waited' = [waited EXCEPT ![r] = 0]
    /\ answer' = [answer EXCEPT ![r] = None]

\* Second branch: a collection is in flight, and is awaited.
Join(r) ==
    /\ NewTurn /\ awaits[r] = None /\ ~Fresh /\ inFlight # None
    /\ Await(r, inFlight)
    /\ UNCHANGED <<cached, inFlight, running, outcome>>

\* Mutant: the collection is not published before the first await.
PublishedNever(r) == None

Published(r) == r

\* Third branch: a collection is started.
Lead(r) ==
    /\ NewTurn /\ awaits[r] = None /\ ~Fresh /\ inFlight = None
    /\ running' = [running EXCEPT ![r] = 0]
    /\ inFlight' = Published(r)
    /\ Await(r, r)
    /\ UNCHANGED <<cached, outcome>>

\* Mutant: those who joined are not on the promise.
AwaitingLeader(r) == {r}

Awaiting(r) == {q \in Requests : awaits[q] = r}

\* The native process ended: a validated snapshot, or any of the failures of
\* runSnapshot and parseAndValidate, its time limit among them.
Settle(r) ==
    /\ NewTurn /\ r \in Running
    /\ running' = [running EXCEPT ![r] = None]
    /\ \E ok \in BOOLEAN :
          outcome' = [q \in Requests |->
             IF q \notin Awaiting(r) THEN outcome[q]
             ELSE IF ok THEN [state |-> "ok", taken |-> running[r]]
             ELSE [state |-> "failed", taken |-> 0]]
    /\ UNCHANGED <<cached, inFlight, awaits, waited, answer>>

\* A caller returns or throws; the answer is dropped when its client already
\* got the server's 503.
Return(r) ==
    /\ awaits' = [awaits EXCEPT ![r] = None]
    /\ outcome' = [outcome EXCEPT ![r] = Pending]
    /\ answer' = IF answer[r] # None THEN answer
                 ELSE [answer EXCEPT ![r] =
                    [source |-> IF outcome[r].state = "ok" THEN "fresh" ELSE "error",
                     age |-> outcome[r].taken]]

\* Mutant: a failure still refreshes the age of what is cached.
StoredAlways(r) ==
    IF outcome[r].state = "ok" THEN [age |-> 0, taken |-> outcome[r].taken]
    ELSE IF cached = None THEN None ELSE [cached EXCEPT !.age = 0]

Cleared(r) == IF inFlight = r THEN None ELSE inFlight
Stored(r)  == IF outcome[r].state = "ok" THEN [age |-> 0, taken |-> outcome[r].taken]
              ELSE cached

\* The caller that started the collection resumes first: it stores a snapshot
\* and, in any case, clears #inFlight.
ResumeLeader(r) ==
    /\ r \in Resumable /\ awaits[r] = r
    /\ cached' = Stored(r) /\ inFlight' = Cleared(r)
    /\ Return(r)
    /\ UNCHANGED <<running, waited>>

\* The callers that joined share its outcome.
ResumeJoined(r) ==
    /\ r \in Resumable /\ awaits[r] \notin Resumable
    /\ Return(r)
    /\ UNCHANGED <<cached, inFlight, running, waited>>

\* The server answers 503 for a handler over its limit; the handler goes on.
HandlerTimeout(r) ==
    /\ NewTurn /\ awaits[r] # None /\ answer[r] = None /\ waited[r] = HandlerLimit
    /\ answer' = [answer EXCEPT ![r] = [source |-> "timeout", age |-> 0]]
    /\ UNCHANGED <<cached, inFlight, running, awaits, outcome, waited>>

Older(age, cap) == IF age < cap THEN age + 1 ELSE cap

\* Time passes between turns; no collection outlives its limit.
Tick ==
    /\ NewTurn /\ \A r \in Running : running[r] < ExecutionLimit
    /\ cached' = IF cached = None THEN None
                 ELSE [cached EXCEPT !.age = Older(@, AgeCap)]
    /\ running' = [r \in Requests |-> IF r \in Running THEN running[r] + 1 ELSE None]
    /\ waited' = [r \in Requests |->
          IF awaits[r] # None /\ answer[r] = None THEN Older(waited[r], HandlerLimit) ELSE 0]
    /\ UNCHANGED <<inFlight, awaits, outcome, answer>>

Request(r) == HitCache(r) \/ Join(r) \/ Lead(r)
Resume(r)  == ResumeLeader(r) \/ ResumeJoined(r)

Next == Tick \/ \E r \in Requests :
           Request(r) \/ Settle(r) \/ Resume(r) \/ HandlerTimeout(r)

Spec == Init /\ [][Next]_vars

\* The event loop runs its microtasks, and the limit of the native process
\* sees to it that every collection ends.
FairSpec == Spec /\ \A r \in Requests : WF_vars(Resume(r)) /\ WF_vars(Settle(r))

-----------------------------------------------------------------------------
\* Simultaneous requests never run two native collections.
SingleFlight == \A r, q \in Running : r = q

\* The evidence in an answer is never older than a cache lifetime and the
\* longest collection together; evidence called fresh, never older than the
\* longest collection.
EvidenceAgeBounded ==
    \A r \in Requests : answer[r] # None =>
       /\ answer[r].source = "cache" => answer[r].age < CacheTtl + ExecutionLimit
       /\ answer[r].source = "fresh" => answer[r].age <= ExecutionLimit

\* While nobody's continuation is due, what new requests would join is a
\* collection that still runs: a failed one is not handed out again.
InFlightIsRunning == NewTurn /\ inFlight # None => inFlight \in Running

\* The cache is only renewed by evidence collected later than what it held, so
\* no client sees the posture go back in time, and a failure renews nothing.
CacheNeverRegresses ==
    [][cached # None /\ cached' # cached /\ cached'.age <= cached.age =>
          /\ cached'.age + cached'.taken < cached.age + cached.taken
          /\ \E r \in Requests : outcome[r].state = "ok"]_vars

\* Everyone who waits is answered.
EveryoneAnswered ==
    \A r \in Requests : (awaits[r] # None) ~> (awaits[r] = None /\ answer[r] # None)
=============================================================================
