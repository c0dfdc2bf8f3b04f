---------------------------- MODULE CommandRunner ----------------------------
(***************************************************************************)
(* ProcessCommandRunner::run_with_input and communicate_with_process of    *)
(* src/core/command_runner.cpp: one run of one external command.           *)
(*                                                                         *)
(* Two parties interleave.  The runner forks the command, polls the three  *)
(* pipes it shares with it, kills its process group at the deadline, at    *)
(* the capture limit or on a failed call, and finally reaps the leader.    *)
(* The command is anything: a leader and descendants that write, read,     *)
(* close inherited pipe ends, fork, leave the process group and exit in    *)
(* any order.  Data are byte counts.  SIGKILL takes effect at once.        *)
(***************************************************************************)
EXTENDS Naturals, FiniteSets

CONSTANTS
    Leader,          \* the forked child, leader of the dedicated group
    Descendants,     \* processes the command may fork
    OutputLimit,     \* maximum_captured_output, per stream
    BufferSize,      \* size of the read buffer
    PipeCapacity,    \* bytes the kernel buffers per pipe
    MaxInput,        \* bound: longest standard input offered
    MaxWritten       \* bound: bytes the command writes per stream

ASSUME ProcsAssumption  == Leader \notin Descendants
ASSUME LimitsAssumption ==
    /\ OutputLimit \in Nat /\ MaxInput \in Nat /\ MaxWritten \in Nat
    /\ BufferSize \in Nat \ {0} /\ PipeCapacity \in Nat \ {0}

VARIABLES
    pc, result,                    \* where the runner is; its exit code
    open, openDescriptors,         \* unclosed descriptors; the loop's count
    revents,                       \* reported by poll() and not yet handled
    inputSize, inputSent, captured,
    flags, terminated,             \* booleans of CommunicationResult; killed
    proc, group, holders, status,  \* the command and its pipe ends
    pipe, written,                 \* bytes in each pipe; bytes ever written
    expired, graceExpired          \* the two deadlines against the clock

fds     == <<open, openDescriptors>>
streams == <<inputSize, inputSent, captured>>
verdict == <<flags, terminated>>
command == <<proc, group, holders, status>>
pipes   == <<pipe, written>>
clock   == <<expired, graceExpired>>
runner  == <<pc, result, fds, revents, streams, verdict>>
vars    == <<runner, command, pipes, clock>>

Procs   == {Leader} \cup Descendants
Outputs == {"out", "err"}
Ends    == {"out", "err", "in"}
Flags   == {"timed_out", "truncated", "output_failed",
            "input_rejected", "input_failed"}
InGroup == {p \in group : proc[p] = "alive"}
Quiet   == [d \in Ends |-> "none"]
Least(a, b) == IF a <= b THEN a ELSE b

TypeOK ==
    /\ pc \in {"start", "setup", "top", "poll", "handle", "wait", "done"}
    /\ result \in {"none", "failed", "zero", "nonzero"}
    /\ open \subseteq Ends /\ openDescriptors \in 0..3
    /\ revents \in [Ends -> {"none", "ready", "error"}]
    /\ inputSize \in 0..MaxInput /\ inputSent \in 0..inputSize
    /\ captured \in [Outputs -> 0..OutputLimit]
    /\ flags \subseteq Flags /\ terminated \in BOOLEAN
    /\ proc \in [Procs -> {"unborn", "alive", "dead"}] /\ group \subseteq Procs
    /\ holders \in [Ends -> SUBSET Procs]
    /\ status \in {"running", "zero", "nonzero", "signal"}
    /\ pipe \in [Ends -> 0..PipeCapacity] /\ written \in [Outputs -> 0..MaxWritten]
    /\ expired \in BOOLEAN /\ graceExpired \in BOOLEAN

Init ==
    /\ pc = "start" /\ result = "none"
    /\ open = {} /\ openDescriptors = 0 /\ revents = Quiet
    /\ inputSize \in 0..MaxInput /\ inputSent = 0
    /\ captured = [d \in Outputs |-> 0]
    /\ flags = {} /\ terminated = FALSE
    /\ proc = [p \in Procs |-> "unborn"] /\ group = {}
    /\ holders = [d \in Ends |-> {}] /\ status = "running"
    /\ pipe = [d \in Ends |-> 0] /\ written = [d \in Outputs |-> 0]
    /\ expired = FALSE /\ graceExpired = FALSE

Raise(f) == flags' = flags \cup {f}

Close(d) == open' = open \ {d} /\ openDescriptors' = openDescriptors - 1

\* Mutants: only the child is signalled; everybody but the child is.
KilledLeaderOnly == InGroup \cap {Leader}
KilledOthersOnly == InGroup \ {Leader}

\* kill(-child, SIGKILL) reaches everything that is still in the group.
Killed == InGroup

\* The terminate lambda, which acts once.
Terminate ==
    /\ terminated' = TRUE
    /\ IF terminated THEN UNCHANGED command
       ELSE /\ proc' = [p \in Procs |-> IF p \in Killed THEN "dead" ELSE proc[p]]
            /\ holders' = [d \in Ends |-> holders[d] \ Killed]
            /\ status' = IF Leader \in Killed THEN "signal" ELSE status
            /\ UNCHANGED group

-----------------------------------------------------------------------------
\* Launch.

\* An empty command, or a pipe() or fork() that fails.
Refuse ==
    /\ pc = "start" /\ pc' = "done" /\ result' = "failed"
    /\ UNCHANGED <<fds, revents, streams, verdict, command, pipes, clock>>

\* fork(), setpgid(), the parent's copies of the child's ends closed.
Fork ==
    /\ pc = "start" /\ pc' = "setup" /\ open' = Ends
    /\ proc' = [proc EXCEPT ![Leader] = "alive"] /\ group' = {Leader}
    /\ holders' = [d \in Ends |-> {Leader}]
    /\ UNCHANGED <<result, openDescriptors, revents, streams, verdict, status, pipes, clock>>

\* Without input the write end is closed at once.
SetUpInput ==
    /\ pc = "setup" /\ pc' = "top"
    /\ IF inputSize = 0 THEN open' = open \ {"in"} /\ openDescriptors' = 2
       ELSE open' = open /\ openDescriptors' = 3
    /\ UNCHANGED <<result, revents, streams, verdict, command, pipes, clock>>

\* The write end cannot be made non-blocking.
SetUpInputFails ==
    /\ pc = "setup" /\ pc' = "top" /\ inputSize > 0
    /\ open' = open \ {"in"} /\ openDescriptors' = 2
    /\ Raise("input_failed") /\ Terminate
    /\ UNCHANGED <<result, revents, streams, pipes, clock>>

-----------------------------------------------------------------------------
\* The head of the communication loop.

\* Mutants: the loop also ends once the leader has exited; the drain has no
\* deadline of its own.
PumpedUntilExit == openDescriptors = 0 \/ status # "running"
DrainNeverOver  == FALSE

Pumped    == openDescriptors = 0
DrainOver == terminated /\ graceExpired

LeaveLoop ==
    /\ pc = "top" /\ Pumped /\ pc' = "wait" /\ open' = {}
    /\ UNCHANGED <<result, openDescriptors, revents, streams, verdict, command, pipes, clock>>

TimeOut ==
    /\ pc = "top" /\ ~Pumped /\ ~terminated /\ expired /\ pc' = "poll"
    /\ Raise("timed_out") /\ Terminate
    /\ UNCHANGED <<result, fds, revents, streams, pipes, clock>>

\* A descendant outside the group still holds a pipe when the grace is over.
DrainTimeOut ==
    /\ pc = "top" /\ ~Pumped /\ DrainOver /\ pc' = "wait"
    /\ Raise("output_failed") /\ open' = {}
    /\ UNCHANGED <<result, openDescriptors, revents, streams, terminated, command, pipes, clock>>

KeepWaiting ==
    /\ pc = "top" /\ ~Pumped /\ ~DrainOver /\ (terminated \/ ~expired)
    /\ pc' = "poll"
    /\ UNCHANGED <<result, fds, revents, streams, verdict, command, pipes, clock>>

\* Mutant: every open descriptor is tried, reported or not.
PolledAlways(d) == IF d \in open THEN "ready" ELSE "none"

\* poll() reports an output as ready when it holds data or has no writer, the
\* input as in error when it has no reader and as ready when it has room.
Polled(d) ==
    CASE d \notin open -> "none"
      [] d \in open \cap Outputs /\ (pipe[d] > 0 \/ holders[d] = {}) -> "ready"
      [] d \in open \ Outputs /\ holders[d] = {} -> "error"
      [] d \in open \ Outputs /\ holders[d] # {} /\ pipe[d] < PipeCapacity -> "ready"
      [] OTHER -> "none"

\* poll() returns, with something ready or at the end of its bounded wait, or
\* is interrupted.
Poll ==
    /\ pc = "poll"
    /\ revents' = [d \in Ends |-> Polled(d)] \/ revents' = Quiet
    /\ pc' = IF revents' = Quiet THEN "top" ELSE "handle"
    /\ UNCHANGED <<result, fds, streams, verdict, command, pipes, clock>>

PollFails ==
    /\ pc = "poll" /\ pc' = "wait" /\ open' = {}
    /\ Raise("output_failed") /\ Terminate
    /\ UNCHANGED <<result, openDescriptors, revents, streams, pipes, clock>>

-----------------------------------------------------------------------------
\* One pass over the descriptors, in array order.

Earlier(d) == CASE d = "out" -> {} [] d = "err" -> {"out"} [] d = "in" -> Outputs

\* d is handled; the pass ends when nothing is left to handle.
Handling(d) ==
    /\ pc = "handle" /\ revents[d] # "none"
    /\ \A e \in Earlier(d) : revents[e] = "none"
    /\ revents' = [revents EXCEPT ![d] = "none"]
    /\ pc' = IF revents' = Quiet THEN "top" ELSE "handle"
    /\ UNCHANGED <<result, inputSize, written, clock>>

\* POLLNVAL, or a read() that fails.
DescriptorFails(d) ==
    /\ Handling(d) /\ Close(d)
    /\ Raise(IF d = "in" THEN "input_failed" ELSE "output_failed") /\ Terminate
    /\ UNCHANGED <<inputSent, captured, pipe>>

\* EINTR from read() or write(), EAGAIN from write(): left for the next poll.
TryLater(d) ==
    /\ Handling(d)
    /\ UNCHANGED <<fds, inputSent, captured, verdict, command, pipe>>

\* POLLERR or POLLHUP on the input, or EPIPE from write(): no reader is left.
InputRejected ==
    /\ Handling("in") /\ Close("in")
    /\ \/ /\ revents["in"] = "error"
          /\ flags' = (flags \ {"input_rejected"}) \cup
                      {f \in {"input_rejected"} : inputSent < inputSize}
       \/ revents["in"] = "ready" /\ holders["in"] = {} /\ Raise("input_rejected")
    /\ UNCHANGED <<inputSent, captured, terminated, command, pipe>>

\* A partial or complete write; the descriptor is closed after the last byte.
InputWritten ==
    /\ Handling("in") /\ revents["in"] = "ready" /\ holders["in"] # {}
    /\ \E k \in 1..Least(inputSize - inputSent, PipeCapacity - pipe["in"]) :
          inputSent' = inputSent + k /\ pipe' = [pipe EXCEPT !["in"] = @ + k]
    /\ IF inputSent' = inputSize THEN Close("in") ELSE UNCHANGED fds
    /\ UNCHANGED <<captured, verdict, command>>

\* write() fails with another error: the command is not stopped for it.
InputWriteFails ==
    /\ Handling("in") /\ revents["in"] = "ready"
    /\ Close("in") /\ Raise("input_failed")
    /\ UNCHANGED <<inputSent, captured, terminated, command, pipe>>

\* Mutant: a stream of exactly the limit counts as too long.
OverflowsEarly(count, remaining) == count >= remaining

Overflows(count, remaining) == count > remaining
Kept(count, remaining) == Least(count, remaining)

\* read() returns bytes.  What exceeds the limit is dropped, and the command
\* stopped for it unless it already was.
OutputRead(d) ==
    /\ Handling(d)
    /\ \E count \in 1..Least(pipe[d], BufferSize) :
          LET remaining == OutputLimit - captured[d] IN
          /\ pipe' = [pipe EXCEPT ![d] = @ - count]
          /\ captured' = [captured EXCEPT ![d] = @ + Kept(count, remaining)]
          /\ IF Overflows(count, remaining) /\ ~terminated
             THEN Raise("truncated") /\ Terminate
             ELSE UNCHANGED <<verdict, command>>
    /\ UNCHANGED <<fds, inputSent>>

\* read() returns 0: the pipe is empty and every writer is gone.
OutputEnds(d) ==
    /\ Handling(d) /\ pipe[d] = 0 /\ holders[d] = {} /\ Close(d)
    /\ UNCHANGED <<inputSent, captured, verdict, command, pipe>>

-----------------------------------------------------------------------------
\* Mutant: input the command did not take is no reason to fail.
ExitCodeLenient == IF flags \ {"input_rejected"} # {} \/ status = "signal"
                   THEN "failed" ELSE status

\* Any flag, or a death by signal, is exit code -1.
ExitCode == IF flags # {} \/ status = "signal" THEN "failed" ELSE status

\* waitpid() blocks until the leader has ended.
Reap ==
    /\ pc = "wait" /\ status # "running" /\ pc' = "done" /\ result' = ExitCode
    /\ UNCHANGED <<fds, revents, streams, verdict, command, pipes, clock>>

\* The leader was reaped by somebody else.
ReapFails ==
    /\ pc = "wait" /\ status # "running" /\ pc' = "done"
    /\ Raise("output_failed") /\ result' = "failed"
    /\ UNCHANGED <<fds, revents, streams, terminated, command, pipes, clock>>

Runner ==
    \/ Refuse \/ Fork \/ SetUpInput \/ SetUpInputFails
    \/ LeaveLoop \/ TimeOut \/ DrainTimeOut \/ KeepWaiting \/ Poll \/ PollFails
    \/ InputRejected \/ InputWritten \/ InputWriteFails
    \/ \E d \in Ends : DescriptorFails(d) \/ TryLater(d)
    \/ \E d \in Outputs : OutputRead(d) \/ OutputEnds(d)
    \/ Reap \/ ReapFails

-----------------------------------------------------------------------------
\* The command, about which nothing is assumed.

Write(p, d) ==
    /\ proc[p] = "alive" /\ p \in holders[d] /\ d \in open
    /\ pipe[d] < PipeCapacity /\ written[d] < MaxWritten
    /\ pipe' = [pipe EXCEPT ![d] = @ + 1]
    /\ written' = [written EXCEPT ![d] = @ + 1]
    /\ UNCHANGED <<runner, command, clock>>

ReadInput(p) ==
    /\ proc[p] = "alive" /\ p \in holders["in"] /\ pipe["in"] > 0
    /\ pipe' = [pipe EXCEPT !["in"] = @ - 1]
    /\ UNCHANGED <<runner, command, written, clock>>

CloseEnd(p, d) ==
    /\ proc[p] = "alive" /\ p \in holders[d]
    /\ holders' = [holders EXCEPT ![d] = @ \ {p}]
    /\ UNCHANGED <<runner, proc, group, status, pipes, clock>>

\* A forked process inherits the pipe ends and the group.
Spawn(p, c) ==
    /\ proc[p] = "alive" /\ proc[c] = "unborn"
    /\ proc' = [proc EXCEPT ![c] = "alive"]
    /\ group' = group \cup {q \in {c} : p \in group}
    /\ holders' = [d \in Ends |-> holders[d] \cup {q \in {c} : p \in holders[d]}]
    /\ UNCHANGED <<runner, status, pipes, clock>>

\* setsid(), or whatever else puts a descendant out of the signal's reach.
LeaveGroup(p) ==
    /\ proc[p] = "alive" /\ p \in group \ {Leader} /\ group' = group \ {p}
    /\ UNCHANGED <<runner, proc, holders, status, pipes, clock>>

Exit(p) ==
    /\ proc[p] = "alive" /\ proc' = [proc EXCEPT ![p] = "dead"]
    /\ holders' = [d \in Ends |-> holders[d] \ {p}]
    /\ IF p = Leader THEN status' \in {"zero", "nonzero", "signal"} ELSE UNCHANGED status
    /\ UNCHANGED <<runner, group, pipes, clock>>

Command ==
    \E p \in Procs :
       \/ \E d \in Outputs : Write(p, d)
       \/ ReadInput(p) \/ LeaveGroup(p) \/ Exit(p)
       \/ \E d \in Ends : CloseEnd(p, d)
       \/ \E c \in Descendants : Spawn(p, c)

DeadlinePasses ==
    /\ pc \notin {"start", "done"} /\ ~expired /\ expired' = TRUE
    /\ UNCHANGED <<runner, command, pipes, graceExpired>>

GraceExpires ==
    /\ terminated /\ pc # "done" /\ ~graceExpired /\ graceExpired' = TRUE
    /\ UNCHANGED <<runner, command, pipes, expired>>

\* The caller has its result.
Returned == pc = "done" /\ UNCHANGED vars

Next == Runner \/ Command \/ DeadlinePasses \/ GraceExpires \/ Returned

Spec == Init /\ [][Next]_vars

\* The runner's thread keeps running and time passes; nothing is assumed of
\* the command.
FairSpec ==
    Spec /\ WF_vars(Runner) /\ WF_vars(DeadlinePasses) /\ WF_vars(GraceExpires)

-----------------------------------------------------------------------------
\* A run that reports exit code 0 lost nothing: both streams captured byte for
\* byte, all input accepted, nobody killed, and nobody left who could still
\* write to a captured stream.
SuccessIsComplete ==
    result = "zero" =>
       /\ captured = written /\ \A d \in Outputs : holders[d] = {}
       /\ inputSent = inputSize /\ ~terminated /\ status = "zero"

\* The converse for each cut: the deadline, the limit and the reader of the
\* input are only blamed when it was them.  A stream of exactly the limit is
\* not cut.
FailureHasCause ==
    /\ "timed_out" \in flags => expired
    /\ "truncated" \in flags => \E d \in Outputs : written[d] > OutputLimit
    /\ "input_rejected" \in flags => inputSent < inputSize /\ holders["in"] = {}

\* Once the group was killed only processes that left it are alive, whatever
\* was forked while the runner was deciding.
NoGroupSurvivor == terminated => InGroup = {}

\* The output descriptors are blocking: a read is only attempted when it
\* returns at once, or a silent command would suspend the deadline.
ReadNeverBlocks ==
    \A d \in open \cap Outputs :
       revents[d] = "ready" => pipe[d] > 0 \/ holders[d] = {}

\* The pump ends even when a descendant keeps a pipe open for ever.
PumpEnds == (pc = "setup") ~> (pc \in {"wait", "done"})

\* A run that was cut returns to its caller.
CutRunReturns == terminated ~> (pc = "done")

\* ARCHITECTURE.md:37: each command has a bounded execution deadline.
RunReturns == (pc = "setup") ~> (pc = "done")
=============================================================================
