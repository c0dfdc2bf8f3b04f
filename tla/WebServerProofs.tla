--------------------------- MODULE WebServerProofs ---------------------------
(***************************************************************************)
(* The Node process from its outer to its inner end.  The bucket and the   *)
(* server in front of the snapshot services, for any number of clients,    *)
(* any capacity, window and clock: what a bucket grants is bounded and     *)
(* what it announces is enough (RateLimiter); native processes are started *)
(* no faster than it grants requests, and nobody who was admitted is       *)
(* forsaken (WebServer).  Every step of the server is a step of            *)
(* RateLimiter or leaves it alone, so the limiter's invariant is the       *)
(* server's.  At last a native collection, for documents of any length and *)
(* any limits: what it brings and reports, and that it implements the      *)
(* collection that SnapshotService awaits (NativeRun).                     *)
(***************************************************************************)
EXTENDS WebServer, NativeRun, TLAPS

-----------------------------------------------------------------------------
(* The token bucket. *)

\* What was granted and what is left never exceed what was there and what
\* was refilled.
Budget == since * Window + tokens <= Full + Capacity * (updatedAt - markedAt)

\* The wait announced with a refusal refills what the token lacks.
WaitOK == ~decision.allowed =>
    Window - tokens <= decision.retryAfter * (Capacity * Second)

\* Rounding up covers what is divided.
LEMMA CeilingCovers ==
  ASSUME NEW a \in Int, NEW b \in Nat \ {0}
  PROVE  Ceiling(a, b) \in Int /\ a <= Ceiling(a, b) * b
<1> DEFINE q == (a + b - 1) \div b
<1>1. q \in Int /\ a + b - 1 = b * q + ((a + b - 1) % b) /\ (a + b - 1) % b \in 0..(b - 1)
  OBVIOUS
<1>2. b * q = q * b
  BY <1>1
<1> QED
  BY <1>1, <1>2 DEF Ceiling

\* More time or more tokens, times a rate, is more.
LEMMA Monotone ==
  ASSUME NEW a \in Nat, NEW b \in Nat, NEW c \in Nat, a <= b
  PROVE  a * c <= b * c
  OBVIOUS

\* A full bucket has room for a token.
LEMMA FullBucket == Full \in Nat /\ Window <= Full /\ Capacity * Second \in Nat \ {0}
<1>1. 1 * Window <= Capacity * Window
  BY RateAssumption, Monotone DEF RateAssumption
<1> QED
  BY <1>1, RateAssumption DEF RateAssumption, Full

\* One take, with the time that passed and what it refilled named.
LEMMA TakeStep ==
  ASSUME TypeOK, Take
  PROVE  \E e \in Nat, refill \in Nat :
            /\ refill = e * Capacity /\ updatedAt' = updatedAt + e
            /\ Refilled = AtMost(Full, tokens + refill) /\ Refilled \in 0..Full
            /\ updatedAt' \in 0..MaxTime
<1> DEFINE e == AtLeast(0, clock - updatedAt)
<1>1. e \in Nat /\ updatedAt' = updatedAt + e /\ updatedAt' \in 0..MaxTime
  BY RateAssumption DEF RateAssumption, TypeOK, Take, Reference, AtLeast
<1>2. e * Capacity \in Nat
  BY <1>1, RateAssumption DEF RateAssumption
<1>3. Refilled = AtMost(Full, tokens + e * Capacity)
  BY DEF Refilled
<1>4. Refilled \in 0..Full
  BY <1>2, <1>3, FullBucket DEF AtMost, TypeOK
<1> QED
  BY <1>1, <1>2, <1>3, <1>4

\* The limiter's inductive invariant.
LimiterInv == TypeOK /\ Budget /\ WaitOK

\* The bucket is full at first.
LEMMA LimiterInductive == Init => LimiterInv
<1> SUFFICES ASSUME Init PROVE LimiterInv
  OBVIOUS
<1> USE RateAssumption, FullBucket DEF RateAssumption
<1>1. TypeOK
  BY DEF Init, TypeOK
<1>2. Budget
  <2>1. since * Window = 0 /\ Capacity * (updatedAt - markedAt) = 0
    BY DEF Init
  <2> QED
    BY <2>1 DEF Init, Budget
<1>3. WaitOK
  BY DEF Init, WaitOK
<1> QED
  BY <1>1, <1>2, <1>3 DEF LimiterInv

\* A take, a reading of the clock and a new mark keep the limiter's invariant.
LEMMA LimiterKept == LimiterInv /\ [Next]_vars => LimiterInv'
<1> SUFFICES ASSUME LimiterInv, [Next]_vars PROVE LimiterInv'
  OBVIOUS
<1> USE RateAssumption, FullBucket DEF RateAssumption
<1>1. CASE Take
  <2>1. PICK e \in Nat, refill \in Nat :
           /\ refill = e * Capacity /\ updatedAt' = updatedAt + e
           /\ Refilled = AtMost(Full, tokens + refill) /\ Refilled \in 0..Full
           /\ updatedAt' \in 0..MaxTime
    BY <1>1, TakeStep DEF LimiterInv
  <2>2. TypeOK
    BY DEF LimiterInv
  <2>3. /\ tokens' = IF Refilled >= Window THEN Refilled - Window ELSE Refilled
        /\ tokens' \in 0..Full
    BY <1>1, <2>1 DEF Take
  <2> DEFINE missing == IF Refilled >= Window THEN 0 ELSE Window - tokens'
             wait    == WaitSeconds(missing)
  <2>4. /\ decision'.allowed = (Refilled >= Window) /\ decision'.retryAfter = wait
        /\ decision' \in [allowed : BOOLEAN, remaining : Int, retryAfter : {wait}]
        /\ decision'.remaining = tokens' \div Window
    BY <1>1, <2>3 DEF Take
  <2>5. tokens' \div Window \in 0..Capacity
    <3>1. tokens' <= Capacity * Window
      BY <2>3 DEF Full
    <3> QED
      BY <2>3, <3>1
  <2>6. missing \in Int /\ wait \in Nat /\ missing <= wait * (Capacity * Second)
    <3>1. missing \in Int
      BY <2>3
    <3>2. /\ Ceiling(missing, Capacity * Second) \in Int
          /\ missing <= Ceiling(missing, Capacity * Second) * (Capacity * Second)
      BY <3>1, CeilingCovers
    <3> QED
      BY <3>1, <3>2 DEF WaitSeconds, AtLeast
  <2>7. /\ UNCHANGED <<clock, markedAt>> /\ askedAt' = clock /\ askedAt' \in 0..updatedAt'
        /\ since' = IF Refilled >= Window THEN since + 1 ELSE since
    BY <1>1, <2>2 DEF Take, Reference, AtLeast, TypeOK
  <2>8. TypeOK'
    BY <2>1, <2>2, <2>3, <2>4, <2>5, <2>6, <2>7 DEF TypeOK
  <2>9. Budget'
    <3>1. Capacity * (updatedAt' - markedAt) = Capacity * (updatedAt - markedAt) + refill
      BY <2>1, <2>2 DEF TypeOK
    <3>2. (since + 1) * Window = since * Window + Window
      BY <2>2 DEF TypeOK
    <3>3. Refilled <= tokens + refill
      BY <2>1, <2>2 DEF AtMost, TypeOK
    <3>4. since * Window + tokens <= Full + Capacity * (updatedAt - markedAt)
      BY DEF LimiterInv, Budget
    <3> DEFINE g == since * Window
               b == Capacity * (updatedAt - markedAt)
    <3>5. g \in Int /\ b \in Int /\ tokens \in Int /\ since \in Nat
      BY <2>2 DEF TypeOK
    <3>6. CASE Refilled >= Window
      <4>1. since' * Window = g + Window /\ tokens' = Refilled - Window
        BY <2>3, <2>7, <3>2, <3>6
      <4> HIDE DEF g, b
      <4>2. g + Window + (Refilled - Window) <= Full + (b + refill)
        BY <2>1, <3>3, <3>4, <3>5 DEF g, b
      <4> QED
        BY <2>7, <3>1, <4>1, <4>2 DEF Budget, b
    <3>7. CASE ~(Refilled >= Window)
      <4>1. since' * Window = g /\ tokens' = Refilled
        BY <2>3, <2>7, <3>7
      <4> HIDE DEF g, b
      <4>2. g + Refilled <= Full + (b + refill)
        BY <2>1, <3>3, <3>4, <3>5 DEF g, b
      <4> QED
        BY <2>7, <3>1, <4>1, <4>2 DEF Budget, b
    <3> QED
      BY <3>6, <3>7
  <2>10. WaitOK'
    BY <2>3, <2>4, <2>6 DEF WaitOK
  <2> QED
    BY <2>8, <2>9, <2>10 DEF LimiterInv
<1>2. CASE ReadClock
  BY <1>2 DEF ReadClock, LimiterInv, TypeOK, Budget, WaitOK
<1>3. CASE Mark
  <2>1. since' * Window = 0 /\ Capacity * (updatedAt' - markedAt') = 0
    BY <1>3 DEF Mark, LimiterInv, TypeOK
  <2> QED
    BY <1>3, <2>1 DEF Mark, LimiterInv, TypeOK, Budget, WaitOK
<1>4. CASE UNCHANGED vars
  BY <1>4 DEF vars, LimiterInv, TypeOK, Budget, WaitOK
<1> QED
  BY <1>1, <1>2, <1>3, <1>4 DEF Next

\* The limiter alone keeps its invariant.
LEMMA LimiterInvariance == Spec => []LimiterInv
  BY LimiterInductive, LimiterKept, PTL DEF Spec

\* The bucket's level, clock and decision stay in range.
THEOREM RateTypeCorrect == Spec => []TypeOK
  BY LimiterInvariance, PTL DEF LimiterInv

\* Any run of takes grants at most one full bucket plus the refill of the time
\* it spans: the burst and the rate the web API documents.
THEOREM GrantsAlwaysBounded == Spec => []GrantsBounded
<1>1. LimiterInv => GrantsBounded
  BY RateAssumption, FullBucket DEF RateAssumption, LimiterInv, TypeOK, Budget, GrantsBounded
<1> QED
  BY <1>1, LimiterInvariance, PTL

\* Whoever is refused by a clock that is not behind an earlier take, as the clock of
\* the service never is, and waits Retry-After finds a token that nobody else took,
\* for any capacity, window and unit.
THEOREM RetryAfterAlwaysSuffices == Spec => []RetryAfterSuffices
<1>1. LimiterInv => RetryAfterSuffices
  <2> SUFFICES ASSUME LimiterInv, ~decision.allowed, askedAt = updatedAt,
                      clock >= askedAt + decision.retryAfter * Second
               PROVE  Refilled >= Window
    BY DEF RetryAfterSuffices
  <2> USE RateAssumption, FullBucket DEF RateAssumption
  <2> DEFINE r == decision.retryAfter
  <2>1. r \in Nat /\ clock \in Nat /\ updatedAt \in Nat /\ tokens \in Nat
    BY DEF LimiterInv, TypeOK
  <2>2. r * Second \in Nat /\ (r * Second) * Capacity = r * (Capacity * Second)
    BY <2>1
  <2>3. AtLeast(0, clock - updatedAt) \in Nat /\ r * Second <= AtLeast(0, clock - updatedAt)
    BY <2>1, <2>2 DEF AtLeast
  <2>4. (r * Second) * Capacity <= AtLeast(0, clock - updatedAt) * Capacity
    BY <2>2, <2>3, Monotone
  <2>5. Window - tokens <= r * (Capacity * Second)
    BY DEF LimiterInv, WaitOK
  <2>6. AtLeast(0, clock - updatedAt) * Capacity \in Int
    BY <2>3
  <2> QED
    BY <2>1, <2>2, <2>4, <2>5, <2>6 DEF Refilled, AtMost
<1> QED
  BY <1>1, LimiterInvariance, PTL

-----------------------------------------------------------------------------
(* The server. *)

\* What the server keeps.
ServerTypeOK ==
    /\ phase \in {"loading", "starting", "listening", "closing", "closed", "exited", "killed"}
    /\ request \in [Clients -> {"idle"} \cup Versions]
    /\ fresh \subseteq Versions /\ running \subseteq Versions
    /\ collections \in Nat

\* Every process was started for a granted request.
StartedOnGrant == collections <= since

\* The server's inductive invariant.
ServerInv == LimiterInv /\ ServerTypeOK /\ StartedOnGrant /\ NobodyForsaken

\* At first nobody waits and nothing runs.
LEMMA ServerInductive == ServerInit => ServerInv
<1> SUFFICES ASSUME ServerInit PROVE ServerInv
  OBVIOUS
<1>1. LimiterInv
  BY LimiterInductive DEF ServerInit
<1>2. ServerTypeOK
  BY DEF ServerInit, ServerTypeOK, Versions
<1>3. StartedOnGrant
  BY DEF ServerInit, Init, StartedOnGrant
<1>4. NobodyForsaken
  BY DEF ServerInit, NobodyForsaken, Waiting, Versions
<1> QED
  BY <1>1, <1>2, <1>3, <1>4 DEF ServerInv

\* The limiter sees its own steps and nothing else.
LEMMA LimiterStep == [ServerNext]_serverVars => [Next]_vars
<1> SUFFICES ASSUME [ServerNext]_serverVars PROVE [Next]_vars
  OBVIOUS
<1>1. CASE \E c \in Clients, v \in Versions : AskSnapshot(c, v)
  BY <1>1 DEF AskSnapshot, limiterVars, Next
<1>2. CASE \E c \in Clients : GivesUp(c)
  BY <1>2 DEF GivesUp, limiterVars
<1>3. CASE \E v \in Versions : CollectionEnds(v) \/ CacheExpires(v)
  BY <1>3 DEF CollectionEnds, CacheExpires, limiterVars
<1>4. CASE \E s \in {"SIGINT", "SIGTERM"} : Signal(s) \/ SignalAgain(s)
  BY <1>4 DEF Signal, SignalAgain, limiterVars
<1>5. CASE Register \/ Listen \/ ListenFails \/ Closed \/ Exit
  BY <1>5 DEF Register, Listen, ListenFails, Closed, Exit, limiterVars
<1>6. CASE Clock \/ Observed
  BY <1>6 DEF Clock, Observed, Next
<1>7. CASE UNCHANGED serverVars
  BY <1>7 DEF serverVars, limiterVars
<1> QED
  BY <1>1, <1>2, <1>3, <1>4, <1>5, <1>6, <1>7 DEF ServerNext

\* A snapshot request: a process is only started when the bucket granted it.
LEMMA AskStep ==
  ASSUME ServerInv, NEW c \in Clients, NEW v \in Versions, AskSnapshot(c, v)
  PROVE  ServerTypeOK' /\ StartedOnGrant' /\ NobodyForsaken'
<1>1. /\ Take /\ phase = "listening" /\ request[c] = "idle"
      /\ UNCHANGED <<phase, signals, cut>>
  BY DEF AskSnapshot, Limited, processVars
<1>2. decision'.allowed => since' = since + 1
  BY <1>1 DEF Take
<1>3. since \in Nat /\ since' \in Nat /\ since <= since'
  BY <1>1 DEF Take, ServerInv, LimiterInv, TypeOK
<1>4. CASE UNCHANGED <<serviceVars, request>>
  <2>1. ServerTypeOK'
    BY <1>1, <1>4 DEF ServerInv, ServerTypeOK, serviceVars
  <2>2. StartedOnGrant'
    BY <1>3, <1>4 DEF ServerInv, ServerTypeOK, StartedOnGrant, serviceVars
  <2>3. NobodyForsaken'
    BY <1>1, <1>4 DEF ServerInv, NobodyForsaken, Waiting, serviceVars
  <2> QED
    BY <2>1, <2>2, <2>3
<1>5. CASE /\ decision'.allowed /\ request' = [request EXCEPT ![c] = v]
           /\ running' = running \cup {v} /\ UNCHANGED fresh
           /\ collections' = IF v \in running THEN collections ELSE collections + 1
  <2>1. ServerTypeOK'
    BY <1>1, <1>5 DEF ServerInv, ServerTypeOK
  <2>2. StartedOnGrant'
    BY <1>2, <1>3, <1>5 DEF ServerInv, ServerTypeOK, StartedOnGrant
  <2>3. NobodyForsaken'
    BY <1>1, <1>5 DEF ServerInv, ServerTypeOK, NobodyForsaken, Waiting, Versions
  <2> QED
    BY <2>1, <2>2, <2>3
<1> QED
  BY <1>4, <1>5 DEF AskSnapshot, Limited, Admitted

\* All other steps of the services and the clients.
LEMMA ServiceStep ==
  ASSUME ServerInv,
         \/ \E v \in Versions : CollectionEnds(v) \/ CacheExpires(v)
         \/ \E c \in Clients : GivesUp(c)
  PROVE  ServerTypeOK' /\ StartedOnGrant' /\ NobodyForsaken'
<1>1. ASSUME NEW v \in Versions, CollectionEnds(v)
      PROVE  ServerTypeOK' /\ StartedOnGrant' /\ NobodyForsaken'
  <2>1. /\ running' = running \ {v} /\ fresh' \in {fresh, fresh \cup {v}}
        /\ request' = [c \in Clients |-> IF request[c] = v THEN "idle" ELSE request[c]]
        /\ UNCHANGED <<vars, phase, collections, cut>>
    BY <1>1 DEF CollectionEnds, AllAnswered, Waiting, limiterVars, processVars
  <2>2. ServerTypeOK' /\ StartedOnGrant'
    BY <2>1 DEF ServerInv, ServerTypeOK, StartedOnGrant, vars
  <2>3. NobodyForsaken'
    BY <2>1 DEF ServerInv, ServerTypeOK, NobodyForsaken, Waiting, Versions
  <2> QED
    BY <2>2, <2>3
<1>2. ASSUME NEW v \in Versions, CacheExpires(v)
      PROVE  ServerTypeOK' /\ StartedOnGrant' /\ NobodyForsaken'
  BY <1>2 DEF CacheExpires, ServerInv, ServerTypeOK, StartedOnGrant, NobodyForsaken, Waiting,
              limiterVars, vars, processVars
<1>3. ASSUME NEW c \in Clients, GivesUp(c)
      PROVE  ServerTypeOK' /\ StartedOnGrant' /\ NobodyForsaken'
  <2>1. /\ request' = [request EXCEPT ![c] = "idle"]
        /\ UNCHANGED <<vars, phase, fresh, running, collections, cut>>
    BY <1>3 DEF GivesUp, limiterVars, processVars, serviceVars
  <2>2. ServerTypeOK' /\ StartedOnGrant'
    BY <2>1 DEF ServerInv, ServerTypeOK, StartedOnGrant, vars
  <2>3. NobodyForsaken'
    BY <2>1 DEF ServerInv, ServerTypeOK, NobodyForsaken, Waiting, Versions
  <2> QED
    BY <2>2, <2>3
<1> QED
  BY <1>1, <1>2, <1>3

\* The steps of the process, and the clock.
LEMMA ProcessStep ==
  ASSUME ServerInv,
         \/ Register \/ Listen \/ ListenFails \/ Closed \/ Exit \/ Clock \/ Observed
         \/ \E s \in {"SIGINT", "SIGTERM"} : Signal(s) \/ SignalAgain(s)
  PROVE  ServerTypeOK' /\ StartedOnGrant' /\ NobodyForsaken'
<1> USE DEF ServerInv, ServerTypeOK, StartedOnGrant, NobodyForsaken, Waiting
<1>1. CASE Register \/ Listen \/ ListenFails
  BY <1>1 DEF Register, Listen, ListenFails, limiterVars, vars, serviceVars
<1>2. CASE Closed \/ Exit
  BY <1>2 DEF Closed, Exit, NothingLeft, limiterVars, vars, serviceVars
<1>3. CASE Clock
  BY <1>3 DEF Clock, ReadClock, processVars, serviceVars
<1>4. CASE Observed
  BY <1>4 DEF Observed, Mark, processVars
<1>5. CASE \E s \in {"SIGINT", "SIGTERM"} : Signal(s)
  BY <1>5 DEF Signal, Closes, limiterVars, vars, serviceVars
<1>6. CASE \E s \in {"SIGINT", "SIGTERM"} : SignalAgain(s)
  BY <1>6 DEF SignalAgain, limiterVars, vars, serviceVars, Versions
<1> QED
  BY <1>1, <1>2, <1>3, <1>4, <1>5, <1>6

\* Every step of the server keeps its invariant.
LEMMA ServerStep == ServerInv /\ [ServerNext]_serverVars => ServerInv'
<1> SUFFICES ASSUME ServerInv, [ServerNext]_serverVars PROVE ServerInv'
  OBVIOUS
<1>1. LimiterInv'
  BY LimiterStep, LimiterKept DEF ServerInv
<1>2. ServerTypeOK' /\ StartedOnGrant' /\ NobodyForsaken'
  <2>1. CASE ServerNext
    BY <2>1, AskStep, ServiceStep, ProcessStep DEF ServerNext
  <2>2. CASE UNCHANGED serverVars
    BY <2>2 DEF serverVars, limiterVars, vars, processVars, serviceVars,
                ServerInv, ServerTypeOK, StartedOnGrant, NobodyForsaken, Waiting
  <2> QED
    BY <2>1, <2>2
<1> QED
  BY <1>1, <1>2 DEF ServerInv

\* The server keeps its invariant.
LEMMA ServerInvariance == ServerSpec => []ServerInv
  BY ServerInductive, ServerStep, PTL DEF ServerSpec

\* However many clients ask, and whichever version they ask for, no more native
\* processes are started than one bucket grants requests (app.ts:97-99, 186-198).
THEOREM ProcessesAlwaysBounded == ServerSpec => []ProcessesBounded
<1>1. ServerInv => ProcessesBounded
  <2> SUFFICES ASSUME ServerInv PROVE ProcessesBounded
    OBVIOUS
  <2>1. since * Window <= Full + Capacity * (updatedAt - markedAt)
    BY RateAssumption, FullBucket DEF RateAssumption, ServerInv, LimiterInv, TypeOK, Budget
  <2>2. collections * Window <= since * Window
    BY RateAssumption, Monotone
       DEF RateAssumption, ServerInv, ServerTypeOK, StartedOnGrant, LimiterInv, TypeOK
  <2>3. /\ collections * Window \in Int /\ since * Window \in Int
        /\ Full + Capacity * (updatedAt - markedAt) \in Int
    BY RateAssumption, FullBucket DEF RateAssumption, ServerInv, ServerTypeOK, LimiterInv, TypeOK
  <2> QED
    BY <2>1, <2>2, <2>3 DEF ProcessesBounded
<1> QED
  BY <1>1, ServerInvariance, PTL

\* Whoever waits has a process that works for it, is not cut off by a shutdown, and
\* a server that has exited leaves no process (index.ts:12-22).
THEOREM NobodyEverForsaken == ServerSpec => []NobodyForsaken
  BY ServerInvariance, PTL DEF ServerInv

-------------------------------------------------------------------------------
(* One native collection: RunInv says what each stage of a run leaves for   *)
(* the next.  Once a run is over nobody acts in it any more (RestOK), a     *)
(* kill leaves no child and no pipe and has its reason (KillOK), a pipe     *)
(* that ended by itself was read (PipesOK), and a run without a timer is    *)
(* about to be settled (TimerOK).                                           *)

\* What was read was written; a document is not exceeded but by noise.
DataOK ==
    /\ \A s \in Streams : read[s] <= wrote[s]
    /\ makes # "noise" => wrote["stdout"] <= Document

\* Between two runs there is nobody to act.
RestOK == result # "pending" => child # "running" /\ open = {} /\ ~timer

\* A child that could not be started leaves the reason.
StartOK ==
    /\ child = "none" => open = {} /\ (result # "idle" => status \in SpawnErrors)
    /\ child = "running" => ~killed

\* A kill has its reason, and afterwards there is neither child nor pipe.
KillOK ==
    /\ killed => child = "exited" /\ open = {}
    /\ killed <=> expired \/ overflow
    /\ overflow => \E s \in Streams : wrote[s] > MaxBuffer

\* Without a kill, a pipe that was closed was read to its end.
PipesOK ==
    ~killed /\ child # "none" => \A s \in Streams \ open : child = "exited" /\ read[s] = wrote[s]

TimerOK == result = "pending" /\ ~timer => OnClose

RunInv == RunTypeOK /\ DataOK /\ RestOK /\ StartOK /\ KillOK /\ PipesOK /\ TimerOK

USE DEF Streams, Endings, SpawnErrors, childVars

-------------------------------------------------------------------------------
\* The buffer of a run is as large as the larger of the two limits.
LEMMA Sizes ==
    /\ MaxBuffer \in Nat /\ MaxWritten \in Nat /\ RunLimit \in Nat
    /\ MaxBuffer >= MaxStdout /\ MaxBuffer >= MaxStderr
    /\ MaxBuffer = MaxStdout \/ MaxBuffer = MaxStderr
BY RunAssumption DEF MaxBuffer, MaxWritten, RunLimit

\* Before the first run.
LEMMA RunInitial == RunInit => RunInv
<1> SUFFICES ASSUME RunInit PROVE RunInv
  OBVIOUS
<1>1. Nothing \in [Streams -> 0..MaxWritten] /\ 0 \in 0..(RunLimit + 1)
  BY Sizes DEF Nothing
<1>2. RunTypeOK
  BY <1>1 DEF RunInit, RunTypeOK
<1>3. DataOK
  BY RunAssumption DEF RunInit, DataOK, Nothing
<1>4. RestOK /\ StartOK /\ KillOK /\ PipesOK /\ TimerOK
  BY DEF RunInit, RestOK, StartOK, KillOK, PipesOK, TimerOK
<1>5. QED BY <1>2, <1>3, <1>4 DEF RunInv

\* A run that starts.
LEMMA StartStep ==
    ASSUME RunInv, Spawn \/ SpawnFails
    PROVE  RunInv'
<1>1. RunTypeOK'
  <2>1. Nothing \in [Streams -> 0..MaxWritten] /\ 0 \in 0..(RunLimit + 1)
    BY Sizes DEF Nothing
  <2>2. CASE Spawn
    BY <2>1, <2>2 DEF RunTypeOK, Spawn
  <2>3. CASE SpawnFails
    BY <2>1, <2>3 DEF RunInv, RunTypeOK, SpawnFails
  <2>4. QED BY <2>2, <2>3
<1>2. DataOK' /\ RestOK' /\ StartOK'
  BY RunAssumption DEF Spawn, SpawnFails, Nothing, DataOK, RestOK, StartOK
<1>3. KillOK' /\ PipesOK' /\ TimerOK'
  BY DEF Spawn, SpawnFails, KillOK, PipesOK, TimerOK
<1>4. QED BY <1>1, <1>2, <1>3 DEF RunInv

\* What the child does.
LEMMA ChildStep ==
    ASSUME RunInv, ChildEnds \/ \E s \in Streams : ChildWrites(s)
    PROVE  RunInv'
<1>1. RunTypeOK'
  <2>1. CASE ChildEnds
    BY <2>1 DEF RunInv, RunTypeOK, ChildEnds
  <2>2. ASSUME NEW s \in Streams, ChildWrites(s) PROVE RunTypeOK'
    <3>1. wrote' \in [Streams -> 0..MaxWritten]
      BY <2>2, Sizes DEF RunInv, RunTypeOK, ChildWrites
    <3>2. QED BY <2>2, <3>1 DEF RunInv, RunTypeOK, ChildWrites
  <2>3. QED BY <2>1, <2>2
<1>2. DataOK' /\ RestOK' /\ StartOK'
  BY RunAssumption, Sizes
  DEF RunInv, RunTypeOK, DataOK, RestOK, StartOK, ChildEnds, ChildWrites
<1>3. KillOK' /\ PipesOK' /\ TimerOK'
  BY Sizes
  DEF RunInv, RunTypeOK, RestOK, StartOK, KillOK, PipesOK, TimerOK, OnClose, ChildEnds, ChildWrites
<1>4. QED BY <1>1, <1>2, <1>3 DEF RunInv

\* The timer.
LEMMA TimerStep ==
    ASSUME RunInv, TimerFires
    PROVE  RunInv'
<1>1. RunTypeOK'
  BY DEF RunInv, RunTypeOK, TimerFires, Kill, PipesLeft
<1>2. DataOK' /\ RestOK' /\ StartOK'
  BY DEF RunInv, DataOK, RestOK, StartOK, TimerFires, Kill, PipesLeft
<1>3. KillOK' /\ PipesOK' /\ TimerOK'
  BY DEF RunInv, KillOK, PipesOK, TimerOK, OnClose, TimerFires, Kill, PipesLeft
<1>4. QED BY <1>1, <1>2, <1>3 DEF RunInv

\* A chunk that arrives, kept or one too many.
LEMMA ReadStep ==
    ASSUME RunInv, NEW s \in Streams, Read(s)
    PROVE  RunInv'
<1>1. CASE TooMuch(s)
  <2>1. /\ killed' /\ open' = {} /\ child' = "exited" /\ overflow'
        /\ status' \in {status, "SIGKILL"}
        /\ UNCHANGED <<result, makes, names, wrote, read, timer, elapsed, expired>>
    BY <1>1 DEF Read, Kill, PipesLeft
  <2>2. wrote[s] > MaxBuffer
    BY <1>1, Sizes DEF Read, TooMuch, RunInv, RunTypeOK
  <2>3. RunTypeOK' /\ DataOK' /\ RestOK' /\ StartOK'
    BY <2>1 DEF RunInv, RunTypeOK, DataOK, RestOK, StartOK
  <2>4. KillOK' /\ PipesOK' /\ TimerOK'
    BY <2>1, <2>2 DEF RunInv, KillOK, PipesOK, TimerOK, OnClose
  <2>5. QED BY <2>3, <2>4 DEF RunInv
<1>2. CASE ~TooMuch(s)
  <2>1. /\ read' = [read EXCEPT ![s] = @ + 1] /\ s \in open /\ read[s] < wrote[s]
        /\ UNCHANGED <<result, child, status, makes, names, wrote, open, timer, killed,
                       overflow, elapsed, expired>>
    BY <1>2 DEF Read
  <2>2. RunTypeOK' /\ DataOK'
    BY <2>1, Sizes DEF RunInv, RunTypeOK, DataOK
  <2>3. RestOK' /\ StartOK' /\ KillOK' /\ TimerOK'
    BY <2>1 DEF RunInv, RestOK, StartOK, KillOK, TimerOK, OnClose
  <2>4. PipesOK'
    BY <2>1 DEF RunInv, RunTypeOK, PipesOK
  <2>5. QED BY <2>2, <2>3, <2>4 DEF RunInv
<1>3. QED BY <1>1, <1>2

\* The end of a stream, of the run, and the passing of time.
LEMMA EndStep ==
    ASSUME RunInv, Settled \/ Tick \/ \E s \in Streams : StreamEnds(s)
    PROVE  RunInv'
<1>1. CASE Settled
  <2>1. result' \in {"ok"} \cup RunErrors
    BY <1>1 DEF Settled, Success, Failure, Validated, RunErrors
  <2>2. RunTypeOK' /\ DataOK'
    BY <1>1, <2>1 DEF Settled, RunInv, RunTypeOK, DataOK
  <2>3. RestOK' /\ StartOK' /\ TimerOK'
    BY <1>1, <2>1 DEF Settled, RunErrors, RunInv, RestOK, StartOK, TimerOK, OnClose
  <2>4. KillOK' /\ PipesOK'
    BY <1>1 DEF Settled, RunInv, KillOK, PipesOK
  <2>5. QED
    BY <2>2, <2>3, <2>4 DEF RunInv
<1>2. CASE Tick
  BY <1>2, Sizes DEF Tick, RunInv, RunTypeOK, DataOK, RestOK, StartOK, KillOK, PipesOK, TimerOK,
                     OnClose
<1>3. ASSUME NEW s \in Streams, StreamEnds(s) PROVE RunInv'
  <2>1. RunTypeOK' /\ DataOK' /\ RestOK'
    BY <1>3 DEF StreamEnds, RunInv, RunTypeOK, DataOK, RestOK
  <2>2. StartOK' /\ KillOK' /\ PipesOK' /\ TimerOK'
    BY <1>3 DEF StreamEnds, RunInv, StartOK, KillOK, PipesOK, TimerOK, OnClose
  <2>3. QED BY <2>1, <2>2 DEF RunInv
<1>4. QED BY <1>1, <1>2, <1>3

\* Every step of a run, of its child and of its timer.
LEMMA RunStep == RunInv /\ [RunNext]_runVars => RunInv'
<1> SUFFICES ASSUME RunInv, [RunNext]_runVars PROVE RunInv'
  OBVIOUS
<1>1. CASE UNCHANGED runVars
  BY <1>1 DEF runVars, RunInv, RunTypeOK, DataOK, RestOK, StartOK, KillOK, PipesOK, TimerOK, OnClose
<1>2. CASE RunNext
  BY <1>2, StartStep, ChildStep, TimerStep, ReadStep, EndStep DEF RunNext
<1>3. QED BY <1>1, <1>2

\* The inductive invariant of the run.
LEMMA RunInvariance == RunSpec => []RunInv
BY RunInitial, RunStep, PTL DEF RunSpec

-------------------------------------------------------------------------------
\* Whatever ffc writes, the variables stay what they are declared to be.
THEOREM RunTypes == RunSpec => []RunTypeOK
<1>1. RunInv => RunTypeOK
  BY DEF RunInv
<1>2. QED BY <1>1, RunInvariance, PTL

\* Between two runs only the start of a run happens.
LEMMA OnlyStarts ==
    ASSUME RunInv, RunNext, result # "pending"
    PROVE  Spawn \/ SpawnFails
BY DEF RunInv, RestOK, RunNext, ChildEnds, ChildWrites, TimerFires, Read, StreamEnds, Settled, Tick

\* A verdict is kept until the next run starts.
LEMMA VerdictKept ==
    ASSUME RunInv, [RunNext]_runVars, result' # "pending"
    PROVE  Settled \/ UNCHANGED runVars
BY OnlyStarts
DEF RunNext, runVars, Spawn, SpawnFails, ChildEnds, ChildWrites, TimerFires, Read, StreamEnds, Tick

\* The codes of a failed process.
LEMMA FailureNamed ==
    /\ Failure \in {"ffc_output_limit", "ffc_timeout", "ffc_unavailable",
                    "ffc_permission_denied", "ffc_failed"}
    /\ Failure = "ffc_output_limit" => overflow \/ MessageNamesLimit
    /\ Failure = "ffc_timeout" => ~overflow /\ (killed \/ status = "SIGKILL")
    /\ Failure = "ffc_failed" =>
          ~overflow /\ ~killed /\ status \notin {"SIGKILL", "ENOENT", "EACCES"}
<1> DEFINE limited == overflow \/ MessageNamesLimit
<1>1. CASE limited
  BY <1>1 DEF Failure
<1>2. CASE ~limited /\ (killed \/ status = "SIGKILL")
  BY <1>2 DEF Failure
<1>3. CASE ~limited /\ ~killed /\ status # "SIGKILL"
  BY <1>3 DEF Failure
<1>4. QED BY <1>1, <1>2, <1>3

\* A collection that succeeds brings all of a snapshot that its process wrote, of
\* any length, even when the timer raced the end of its output.
THEOREM SnapshotAlwaysWhole == RunSpec => []SnapshotIsWhole
<1>1. RunInit => SnapshotIsWhole
  BY DEF RunInit, SnapshotIsWhole
<1>2. RunInv /\ SnapshotIsWhole /\ [RunNext]_runVars => SnapshotIsWhole'
  <2> SUFFICES ASSUME RunInv, SnapshotIsWhole, [RunNext]_runVars, result' = "ok"
               PROVE  SnapshotIsWhole'
    BY DEF SnapshotIsWhole
  <2>1. CASE UNCHANGED runVars
    BY <2>1 DEF runVars, SnapshotIsWhole
  <2>2. CASE Settled
    <3>1. Succeeds /\ read["stdout"] = Document /\ makes = "snapshot"
      <4>1. result' = IF Succeeds THEN Success ELSE Failure
        BY <2>2 DEF Settled
      <4>2. Succeeds /\ Success = "ok"
        BY <4>1, FailureNamed
      <4>3. QED BY <4>2 DEF Success, Validated, RunInv, RunTypeOK
    <3>2. wrote["stdout"] = Document
      BY <3>1, RunAssumption DEF RunInv, RunTypeOK, DataOK
    <3>3. QED BY <2>2, <3>1, <3>2 DEF Settled, Succeeds, SnapshotIsWhole
  <2>3. QED BY <2>1, <2>2, VerdictKept
<1>3. QED BY <1>1, <1>2, RunInvariance, PTL DEF RunSpec

\* An error names what happened in its run, for any limits, a word in the standard
\* error of a failed process among it.
THEOREM CauseAlwaysTrue == RunSpec => []CauseIsTrue
<1>1. RunInit => CauseIsTrue
  BY DEF RunInit, CauseIsTrue
<1>2. RunInv /\ CauseIsTrue /\ [RunNext]_runVars => CauseIsTrue'
  <2> SUFFICES ASSUME RunInv, CauseIsTrue, [RunNext]_runVars, result' # "pending"
               PROVE  CauseIsTrue'
    BY DEF CauseIsTrue
  <2>1. CASE UNCHANGED runVars
    BY <2>1 DEF runVars, CauseIsTrue, LimitExceeded
  <2>2. CASE Settled
    <3> USE <2>2
    <3>1. child # "running" /\ open = {}
      BY DEF Settled, OnClose
    <3>2. UNCHANGED <<child, status, makes, names, wrote, read, open, killed, overflow, expired>>
      BY DEF Settled
    <3>3. CASE Succeeds
      <4>1. status = "zero" /\ result' = Success
        BY <3>3 DEF Settled, Succeeds
      <4>2. child = "exited" /\ ~overflow
        BY <3>1, <3>3 DEF RunInv, RunTypeOK, StartOK, Succeeds, Settled
      <4>3. ~expired => read["stdout"] = wrote["stdout"]
        BY <3>1, <4>2 DEF RunInv, KillOK, PipesOK
      <4>4. result' = "ffc_output_limit" =>
               wrote["stdout"] > MaxStdout \/ wrote["stderr"] > MaxStderr
        BY <4>1, RunAssumption DEF Success, Validated, RunInv, RunTypeOK, DataOK
      <4>5. result' = "ffc_empty_output" => read["stdout"] = 0
        BY <4>1 DEF Success, Validated
      <4>6. result' = "ffc_malformed_output" => makes = "noise" \/ read["stdout"] # Document
        BY <4>1 DEF Success, Validated
      <4>7. result' = "ffc_schema_invalid" => makes = "foreign"
        BY <4>1 DEF Success, Validated
      <4>8. result' \notin {"ffc_timeout", "ffc_failed"}
        BY <4>1 DEF Success, Validated
      <4>9. QED
        BY <3>2, <4>1, <4>3, <4>4, <4>5, <4>6, <4>7, <4>8, RunAssumption
        DEF CauseIsTrue, LimitExceeded
    <3>4. CASE ~Succeeds
      <4>1. result' = Failure
        BY <3>4 DEF Settled
      <4>2. overflow => wrote["stdout"] > MaxStdout \/ wrote["stderr"] > MaxStderr
        BY Sizes, RunAssumption DEF RunInv, RunTypeOK, KillOK
      <4>3. MessageNamesLimit => names /\ wrote["stderr"] > 0
        BY Sizes DEF MessageNamesLimit, RunInv, RunTypeOK, DataOK
      <4>4. ~overflow => status # "zero"
        BY <3>4 DEF Succeeds
      <4>5. QED
        BY <3>2, <3>4, <4>1, <4>2, <4>3, <4>4, FailureNamed
        DEF Succeeds, CauseIsTrue, LimitExceeded, RunInv, RunTypeOK, KillOK
    <3>5. QED BY <3>3, <3>4
  <2>3. QED BY <2>1, <2>2, VerdictKept
<1>3. QED BY <1>1, <1>2, RunInvariance, PTL DEF RunSpec

-------------------------------------------------------------------------------
\* While a run is under way a step ends its process or leaves it, and the rest of
\* what the service sees stays as it is.
LEMMA SeenStep ==
    ASSUME RunInv, result = "pending", result' = result, elapsed' = elapsed,
           child' = child \/ child' = "exited"
    PROVE  [C!Next]_(C!collectionVars)
<1>1. PhaseOf = "collecting" /\ PhaseOf' = "collecting" /\ Brought = "none" /\ Brought' = "none"
  BY DEF PhaseOf, Brought
<1>2. CASE child' = child
  BY <1>1, <1>2 DEF C!collectionVars
<1>3. CASE child = "running" /\ child' = "exited"
  BY <1>1, <1>3 DEF C!Next, C!ProcessEnds
<1>4. CASE child # "running" /\ child' = "exited"
  BY <1>1, <1>4 DEF C!collectionVars
<1>5. QED BY <1>2, <1>3, <1>4

\* A run is over in time, leaves no process, and brings a whole snapshot or fails:
\* each of its steps is one of the collection that SnapshotService relies on.
THEOREM RunImplementsCollection == RunSpec => C!Spec
<1>1. RunInit => C!Init
  BY DEF RunInit, C!Init, PhaseOf, Brought
<1>2. RunInv /\ SnapshotIsWhole' /\ [RunNext]_runVars => [C!Next]_(C!collectionVars)
  <2> SUFFICES ASSUME RunInv, SnapshotIsWhole', [RunNext]_runVars
               PROVE  [C!Next]_(C!collectionVars)
    OBVIOUS
  <2>1. CASE UNCHANGED runVars
    BY <2>1 DEF runVars, PhaseOf, Brought, C!collectionVars
  <2>2. CASE Spawn \/ SpawnFails
    <3>1. PhaseOf # "collecting" /\ PhaseOf' = "collecting" /\ elapsed' = 0 /\ Brought' = "none"
      BY <2>2 DEF Spawn, SpawnFails, PhaseOf, Brought
    <3>2. QED BY <3>1 DEF C!Next, C!Start
  <2>3. CASE ChildEnds \/ TimerFires \/ \E s \in Streams : ChildWrites(s) \/ Read(s) \/ StreamEnds(s)
    <3>1. result = "pending"
      BY <2>3 DEF RunInv, RestOK, ChildEnds, TimerFires, ChildWrites, Read, StreamEnds
    <3>2. result' = result /\ elapsed' = elapsed /\ (child' = child \/ child' = "exited")
      BY <2>3 DEF ChildEnds, TimerFires, ChildWrites, Read, StreamEnds, Kill
    <3>3. QED BY <3>1, <3>2, SeenStep
  <2>4. CASE Settled
    <3>1. /\ PhaseOf = "collecting" /\ Brought = "none" /\ child # "running"
          /\ UNCHANGED <<child, elapsed>>
      BY <2>4 DEF Settled, OnClose, PhaseOf, Brought
    <3>2. CASE result' = "ok"
      <4>1. PhaseOf' = "ok" /\ Brought' = "whole"
        BY <3>2 DEF PhaseOf, Brought, SnapshotIsWhole
      <4>2. QED BY <3>1, <4>1 DEF C!Next, C!Bring
    <3>3. CASE result' # "ok"
      <4>1. result' \in RunErrors
        BY <2>4, <3>3 DEF Settled, Success, Failure, Validated, RunErrors
      <4>2. PhaseOf' = "failed" /\ Brought' = "none"
        BY <3>3, <4>1 DEF PhaseOf, Brought, RunErrors
      <4>3. QED BY <3>1, <4>2 DEF C!Next, C!Fail
    <3>4. QED BY <3>2, <3>3
  <2>5. CASE Tick
    <3>1. elapsed < RunLimit
      BY <2>5 DEF Tick, RunInv, TimerOK
    <3>2. /\ PhaseOf = "collecting" /\ PhaseOf' = "collecting"
          /\ Brought' = Brought /\ child' = child /\ elapsed' = elapsed + 1
      BY <2>5 DEF Tick, PhaseOf, Brought, childVars
    <3>3. QED BY <3>1, <3>2 DEF C!Next, C!Wait
  <2>6. QED BY <2>1, <2>2, <2>3, <2>4, <2>5 DEF RunNext
<1>3. QED
  BY <1>1, <1>2, RunInvariance, SnapshotAlwaysWhole, PTL DEF RunSpec, C!Spec
===============================================================================
