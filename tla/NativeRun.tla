------------------------------- MODULE NativeRun -------------------------------
(***************************************************************************)
(* One native collection after the other as ffc-runner.ts runs them: ffc   *)
(* as a child of Node's execFile, with a time limit, a buffer limit and    *)
(* SIGKILL, then the checks of runSnapshot and parseAndValidate.           *)
(*                                                                         *)
(* The child, the pipes, the timer and the exit notification are separate  *)
(* actors.  In particular the timer may fire after the child has exited    *)
(* with success and before what it wrote was read: Node then destroys the  *)
(* pipes, finds nobody to kill, and reports success with part of the       *)
(* output.  Data are chunks; a document is a number of them, and no proper *)
(* part of a JSON object is JSON.                                          *)
(***************************************************************************)
EXTENDS Integers

CONSTANTS
    Document,       \* chunks of one whole snapshot
    MaxStdout,      \* MAX_STDOUT_BYTES
    MaxStderr,      \* MAX_STDERR_BYTES
    ExecTimeout,    \* EXECUTION_TIMEOUT_MS
    Lateness        \* how late the event loop may serve a timer

ASSUME RunAssumption ==
    /\ Document \in Nat \ {0} /\ MaxStdout \in Nat /\ MaxStderr \in Nat
    /\ ExecTimeout \in Nat /\ Lateness \in Nat

VARIABLES
    result,     \* "idle", "pending", "ok", or the code of the ApiError
    child,      \* "none", "running", "exited"
    status,     \* how it ended: "zero", "nonzero", "SIGKILL", another "signal";
                \* or why it could not be started
    makes,      \* what its standard output is: "snapshot", "foreign", "noise"
    names,      \* whether its standard error contains the word maxBuffer
    wrote,      \* chunks the child wrote to each stream
    read,       \* chunks execFile holds of each stream
    open,       \* streams not ended and not destroyed
    timer,      \* execFile's timer is set
    killed,     \* execFile's flag of that name
    overflow,   \* execFile holds a maxBuffer error
    elapsed,    \* time since the child was started
    expired     \* history: the timer of this run fired

runVars == <<result, child, status, makes, names, wrote, read, open, timer, killed,
             overflow, elapsed, expired>>
childVars == <<child, status, makes, names, wrote>>

Streams     == {"stdout", "stderr"}
Endings     == {"zero", "nonzero", "SIGKILL", "signal"}
SpawnErrors == {"ENOENT", "EACCES", "EAGAIN"}
MaxBuffer   == IF MaxStdout > MaxStderr THEN MaxStdout ELSE MaxStderr
MaxWritten  == IF MaxBuffer > Document THEN MaxBuffer + 1 ELSE Document + 1   \* bound
RunLimit    == ExecTimeout + Lateness
RunErrors   == {"ffc_output_limit", "ffc_empty_output", "ffc_timeout",
                "ffc_unavailable", "ffc_permission_denied", "ffc_failed",
                "ffc_malformed_output", "ffc_schema_invalid"}

RunTypeOK ==
    /\ result \in {"idle", "pending", "ok"} \cup RunErrors
    /\ child \in {"none", "running", "exited"}
    /\ status \in Endings \cup SpawnErrors
    /\ makes \in {"snapshot", "foreign", "noise"} /\ names \in BOOLEAN
    /\ wrote \in [Streams -> 0..MaxWritten] /\ read \in [Streams -> 0..MaxWritten]
    /\ open \subseteq Streams
    /\ timer \in BOOLEAN /\ killed \in BOOLEAN /\ overflow \in BOOLEAN /\ expired \in BOOLEAN
    /\ elapsed \in 0..(RunLimit + 1)

Nothing == [s \in Streams |-> 0]

RunInit ==
    /\ result = "idle" /\ child = "none" /\ status = "zero" /\ makes = "noise" /\ names = FALSE
    /\ wrote = Nothing /\ read = Nothing /\ open = {}
    /\ timer = FALSE /\ killed = FALSE /\ overflow = FALSE /\ expired = FALSE
    /\ elapsed = 0

-------------------------------------------------------------------------------
\* runSnapshot calls execFile, which spawns the child and sets its timer.
Spawn ==
    /\ result # "pending"
    /\ result' = "pending" /\ child' = "running" /\ status' = "zero"
    /\ makes' \in {"snapshot", "foreign", "noise"} /\ names' \in BOOLEAN
    /\ wrote' = Nothing /\ read' = Nothing /\ open' = Streams
    /\ timer' = TRUE /\ killed' = FALSE /\ overflow' = FALSE /\ expired' = FALSE
    /\ elapsed' = 0

\* The child cannot be started: execFile learns it from an error event.
SpawnFails ==
    /\ result # "pending"
    /\ result' = "pending" /\ child' = "none" /\ status' \in SpawnErrors
    /\ wrote' = Nothing /\ read' = Nothing /\ open' = {}
    /\ timer' = TRUE /\ killed' = FALSE /\ overflow' = FALSE /\ expired' = FALSE
    /\ elapsed' = 0
    /\ UNCHANGED <<makes, names>>

-------------------------------------------------------------------------------
\* The child, at any moment: it writes, one document at most unless it writes
\* noise, and ends in whatever way.
ChildWrites(s) ==
    /\ child = "running" /\ wrote[s] < MaxWritten
    /\ s = "stdout" /\ makes # "noise" => wrote[s] < Document
    /\ wrote' = [wrote EXCEPT ![s] = @ + 1]
    /\ UNCHANGED <<result, child, status, makes, names, read, open, timer, killed,
                   overflow, elapsed, expired>>

ChildEnds ==
    /\ child = "running"
    /\ child' = "exited" /\ status' \in Endings
    /\ UNCHANGED <<result, makes, names, wrote, read, open, timer, killed, overflow,
                   elapsed, expired>>

-------------------------------------------------------------------------------
\* Mutant: only the child is killed; its pipes are read to their end.
PipesKept == open

PipesLeft == {}

\* execFile's kill(): it destroys both pipes and sends the kill signal, which
\* finds nobody when the child has exited.
Kill ==
    /\ killed' = TRUE /\ open' = PipesLeft
    /\ child' = "exited"
    /\ status' = IF child = "running" THEN "SIGKILL" ELSE status

TimerFires ==
    /\ timer /\ elapsed >= ExecTimeout
    /\ timer' = FALSE /\ expired' = TRUE
    /\ Kill
    /\ UNCHANGED <<result, makes, names, wrote, read, overflow, elapsed>>

TooMuch(s) == read[s] = MaxBuffer

\* A chunk arrives.  What exceeds the buffer limit is not kept.
Read(s) ==
    /\ s \in open /\ read[s] < wrote[s]
    /\ IF TooMuch(s)
       THEN overflow' = TRUE /\ Kill /\ UNCHANGED read
       ELSE /\ read' = [read EXCEPT ![s] = @ + 1]
            /\ UNCHANGED <<open, killed, child, status, overflow>>
    /\ UNCHANGED <<result, makes, names, wrote, timer, elapsed, expired>>

\* A stream ends once its only writer is gone and all of it was read.
StreamEnds(s) ==
    /\ s \in open /\ child = "exited" /\ read[s] = wrote[s]
    /\ open' = open \ {s}
    /\ UNCHANGED <<result, childVars, read, timer, killed, overflow, elapsed, expired>>

-------------------------------------------------------------------------------
\* execFile's verdict once the child has exited and its pipes are closed.
Succeeds == ~overflow /\ status = "zero"

\* The error of a failed process carries what was read of its standard error, and
\* its message is searched for maxBuffer.
MessageNamesLimit == names /\ read["stderr"] > 0

\* The catch branch of runSnapshot, in its order.
Failure ==
    IF overflow \/ MessageNamesLimit THEN "ffc_output_limit"
    ELSE IF killed \/ status = "SIGKILL" THEN "ffc_timeout"
    ELSE CASE status = "ENOENT" -> "ffc_unavailable"
           [] status = "EACCES" -> "ffc_permission_denied"
           [] OTHER             -> "ffc_failed"

\* Mutant: success of the process is success of the collection.
ExitCodeDecides == IF makes = "snapshot" THEN "ok" ELSE "ffc_malformed_output"

\* parseAndValidate
Validated ==
    IF makes = "noise" \/ read["stdout"] # Document THEN "ffc_malformed_output"
    ELSE IF makes = "foreign" THEN "ffc_schema_invalid"
    ELSE "ok"

\* The rest of runSnapshot's try block, and the validator.
Success ==
    IF read["stdout"] > MaxStdout \/ read["stderr"] > MaxStderr THEN "ffc_output_limit"
    ELSE IF read["stdout"] = 0 THEN "ffc_empty_output"
    ELSE Validated

\* Mutant: the callback comes with the exit, not with the end of the pipes.
OnExit == child # "running"

OnClose == child # "running" /\ open = {}

Settled ==
    /\ result = "pending" /\ OnClose
    /\ timer' = FALSE
    /\ result' = IF Succeeds THEN Success ELSE Failure
    /\ UNCHANGED <<childVars, read, open, killed, overflow, elapsed, expired>>

\* Time passes.  What is due is served in time: a timer at most Lateness after
\* it is due, the end of a child whose pipes are closed in the same moment.
Tick ==
    /\ result = "pending" /\ ~OnClose
    /\ timer => elapsed < RunLimit
    /\ elapsed <= RunLimit                  \* bound
    /\ elapsed' = elapsed + 1
    /\ UNCHANGED <<result, childVars, read, open, timer, killed, overflow, expired>>

RunNext ==
    \/ Spawn \/ SpawnFails \/ ChildEnds \/ TimerFires \/ Settled \/ Tick
    \/ \E s \in Streams : ChildWrites(s) \/ Read(s) \/ StreamEnds(s)

RunSpec == RunInit /\ [][RunNext]_runVars

\* Time passes and the event loop runs its callbacks.  Nothing is assumed of
\* the child.
FairRunSpec == RunSpec /\ WF_runVars(Tick) /\ WF_runVars(TimerFires) /\ WF_runVars(Settled)

-------------------------------------------------------------------------------
\* A collection that succeeds brings all that a process wrote which ended well
\* by itself, and it was a snapshot of the expected schema, even when the timer
\* destroyed the pipes first (ffc-runner.ts:137-161, schema-validator.ts:56-66).
SnapshotIsWhole ==
    result = "ok" =>
        /\ makes = "snapshot" /\ status = "zero"
        /\ wrote["stdout"] = Document /\ read["stdout"] = Document

LimitExceeded == wrote["stdout"] > MaxStdout \/ wrote["stderr"] > MaxStderr

\* The code of an error names something that happened in this run: a limit that
\* was exceeded, or a failed process whose standard error speaks of maxBuffer; a time
\* limit that passed or a kill, a child that failed, or output that is not a snapshot
\* unless the timer cut it (ffc-runner.ts:148-186).
CauseIsTrue ==
    /\ result = "ffc_output_limit" =>
          LimitExceeded \/ (names /\ wrote["stderr"] > 0 /\ status # "zero")
    /\ result = "ffc_timeout" => expired \/ status = "SIGKILL"
    /\ result = "ffc_failed" => status \in {"nonzero", "signal", "EAGAIN"} /\ ~expired
    /\ result \in {"ffc_empty_output", "ffc_malformed_output"} =>
          status = "zero" /\ (expired \/ makes # "snapshot" \/ wrote["stdout"] # Document)
    /\ result = "ffc_schema_invalid" => status = "zero" /\ makes = "foreign"

\* errors.ts:17: ffc_output_limit says "The native posture snapshot exceeded its output
\* limit."
OutputLimitMeant == result = "ffc_output_limit" => LimitExceeded

\* The collection as SnapshotService sees it.
PhaseOf ==
    CASE result = "idle"    -> "idle"
      [] result = "pending" -> "collecting"
      [] result = "ok"      -> "ok"
      [] OTHER              -> "failed"
Brought ==
    IF result # "ok" THEN "none"
    ELSE IF read["stdout"] = wrote["stdout"] THEN "whole" ELSE "part"

C == INSTANCE Collection WITH
    Limit <- RunLimit, phase <- PhaseOf, age <- elapsed,
    process <- (child = "running"), snapshot <- Brought

\* A native run implements the collection that SnapshotService awaits: whatever
\* ffc does, it is over in time, leaves no process, brings a whole snapshot or
\* fails, and it does end (ffc-runner.ts:137-186).
ImplementsCollection == C!Promise
===============================================================================
