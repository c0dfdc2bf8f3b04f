------------------------------ MODULE WebServer ------------------------------
(***************************************************************************)
(* The HTTP server of web/src/server/app.ts and index.ts: what its hook    *)
(* turns away, the bucket of RateLimiter in front of both snapshot routes, *)
(* a snapshot service behind each of them, and the way from start to exit. *)
(*                                                                         *)
(* SnapshotService has the services in detail and NativeRun the native     *)
(* collection; here a service is whether its cache is fresh, whether its   *)
(* native process runs, and the clients that wait for it.  Fastify and     *)
(* Node are external: a closing server accepts no new connection, not even *)
(* when it was closed while listen() was pending, cuts the idle ones,      *)
(* answers 503 to what still arrives, and is closed once the last request  *)
(* is answered; a process ends when its loop has nothing left to wait for, *)
(* a child among it.                                                       *)
(***************************************************************************)
EXTENDS RateLimiter

CONSTANTS Clients    \* connections

VARIABLES
    phase,       \* "loading", "starting", "listening", "closing", "closed",
                 \* "exited", "killed"
    signals,     \* the signals whose handler is still registered
    request,     \* per client: "idle", or the version whose snapshot it waits for
    cut,         \* clients that lost their connection while they waited
    fresh,       \* versions with a fresh cache
    running,     \* versions whose native process runs
    collections  \* history: native processes started since the limiter's mark

serviceVars == <<fresh, running, collections>>
processVars == <<phase, signals>>
limiterVars == vars
serverVars  == <<limiterVars, processVars, serviceVars, request, cut>>

Versions == {"v1", "v2"}

ServerInit ==
    /\ Init
    /\ phase = "loading" /\ signals = {}
    /\ request = [c \in Clients |-> "idle"] /\ cut = {}
    /\ fresh = {} /\ running = {} /\ collections = 0

Waiting(v) == {c \in Clients : request[c] = v}
Serving    == phase \in {"listening", "closing"}

-------------------------------------------------------------------------------
(* index.ts *)

\* main() has built the application: it registers its handlers and calls listen().
Register ==
    /\ phase = "loading" /\ phase' = "starting" /\ signals' = {"SIGINT", "SIGTERM"}
    /\ UNCHANGED <<limiterVars, serviceVars, request, cut>>

Listen ==
    /\ phase = "starting" /\ phase' = "listening"
    /\ UNCHANGED <<limiterVars, serviceVars, signals, request, cut>>

\* The port is taken: the application is closed, main() fails.
ListenFails ==
    /\ phase = "starting" /\ phase' = "closed"
    /\ UNCHANGED <<limiterVars, serviceVars, signals, request, cut>>

\* Mutant: closing does not wait for those who were admitted.
ClosesAtOnce == /\ phase' = "closed" /\ request' = [c \in Clients |-> "idle"]
                /\ cut' = cut \cup {c \in Clients : request[c] # "idle"}

Closes == phase' = "closing" /\ UNCHANGED <<request, cut>>

\* The first signal of its kind: shutdown() closes the application, even while
\* listen() is pending, unless it does so already.
Signal(s) ==
    /\ s \in signals /\ signals' = signals \ {s}
    /\ IF phase \in {"starting", "listening"} THEN Closes ELSE UNCHANGED <<phase, request, cut>>
    /\ UNCHANGED <<limiterVars, serviceVars>>

\* One that finds no handler, before main() has registered any or the second of its
\* kind, ends the process: its clients are cut off, a native process goes on alone.
SignalAgain(s) ==
    /\ phase \notin {"exited", "killed"} /\ s \in {"SIGINT", "SIGTERM"} \ signals
    /\ phase' = "killed"
    /\ request' = [c \in Clients |-> "idle"]
    /\ cut' = cut \cup {c \in Clients : request[c] # "idle"}
    /\ UNCHANGED <<limiterVars, serviceVars, signals>>

Closed ==
    /\ phase = "closing" /\ \A c \in Clients : request[c] = "idle"
    /\ phase' = "closed"
    /\ UNCHANGED <<limiterVars, serviceVars, signals, request, cut>>

NothingLeft == running = {}

Exit ==
    /\ phase = "closed" /\ NothingLeft
    /\ phase' = "exited"
    /\ UNCHANGED <<limiterVars, serviceVars, signals, request, cut>>

-------------------------------------------------------------------------------
(* app.ts *)

\* Mutant: the second version's route was added behind the hook's condition.
LimitedV1(v) == v = "v1"

Limited(v) == v \in Versions

\* A snapshot request passes the hook and reaches getSnapshot: a fresh cache
\* answers it, a running collection is joined, or a new one started.
Admitted(c, v) ==
    IF v \in fresh THEN UNCHANGED <<serviceVars, request>>
    ELSE /\ request' = [request EXCEPT ![c] = v]
         /\ running' = running \cup {v}
         /\ collections' = IF v \in running THEN collections ELSE collections + 1
         /\ UNCHANGED fresh

\* A request for a snapshot whose host and origin are approved and which has no
\* query or body; without a token it gets a 429.  All other requests, and those
\* that find the server closing, are answered in the same turn and change nothing.
AskSnapshot(c, v) ==
    /\ phase = "listening" /\ request[c] = "idle"
    /\ IF Limited(v)
       THEN /\ Take
            /\ IF decision'.allowed THEN Admitted(c, v) ELSE UNCHANGED <<serviceVars, request>>
       ELSE Admitted(c, v) /\ UNCHANGED limiterVars
    /\ UNCHANGED <<processVars, cut>>

\* Mutant: a failed collection is reported only to one who waits alone.
LonerAnswered(v, ok) ==
    IF ok THEN Waiting(v) ELSE {c \in Waiting(v) : \A d \in Waiting(v) : d = c}

AllAnswered(v, ok) == Waiting(v)

\* The native process ended: everyone who waits for it is answered.
CollectionEnds(v) ==
    /\ v \in running /\ running' = running \ {v}
    /\ \E ok \in BOOLEAN :
          /\ fresh' = IF ok THEN fresh \cup {v} ELSE fresh
          /\ request' = [c \in Clients |->
                IF c \in AllAnswered(v, ok) THEN "idle" ELSE request[c]]
    /\ UNCHANGED <<limiterVars, processVars, collections, cut>>

CacheExpires(v) ==
    /\ v \in fresh /\ fresh' = fresh \ {v}
    /\ UNCHANGED <<limiterVars, processVars, running, collections, request, cut>>

\* A client that waits gives up; the collection goes on.
GivesUp(c) ==
    /\ request[c] # "idle" /\ request' = [request EXCEPT ![c] = "idle"]
    /\ UNCHANGED <<limiterVars, processVars, serviceVars, cut>>

-------------------------------------------------------------------------------
Clock    == ReadClock /\ UNCHANGED <<processVars, serviceVars, request, cut>>
Observed == Mark /\ collections' = 0 /\ UNCHANGED <<processVars, fresh, running, request, cut>>

ServerNext ==
    \/ Register \/ Listen \/ ListenFails \/ Closed \/ Exit \/ Clock \/ Observed
    \/ \E s \in {"SIGINT", "SIGTERM"} : Signal(s) \/ SignalAgain(s)
    \/ \E v \in Versions : CollectionEnds(v) \/ CacheExpires(v)
    \/ \E c \in Clients : GivesUp(c) \/ \E v \in Versions : AskSnapshot(c, v)

ServerSpec == ServerInit /\ [][ServerNext]_serverVars

\* Native collections end (NativeRun!ImplementsCollection), and the event loop goes on.
FairServerSpec ==
    /\ ServerSpec /\ WF_serverVars(Closed) /\ WF_serverVars(Exit)
    /\ \A v \in Versions : WF_serverVars(CollectionEnds(v))

-------------------------------------------------------------------------------
\* However clients ask, over both versions, caches and failures, native processes
\* are started no faster than one bucket grants requests (app.ts:97-99, 186-198).
ProcessesBounded ==
    collections * Window <= Full + Capacity * (updatedAt - markedAt)

\* Nobody who waits is left without the process it waits for, and unless the
\* operator insists, everyone who was admitted is answered before the server is
\* closed, and no native process outlives it (index.ts:12-22, app.ts:108-109).
NobodyForsaken ==
    /\ \A v \in Versions : Waiting(v) # {} => v \in running
    /\ phase # "killed" => cut = {}
    /\ phase = "exited" => running = {}

\* A shutdown that has begun ends.
ShutdownEnds == phase = "closing" ~> phase \in {"exited", "killed"}
===============================================================================
