------------------------- MODULE CommandRunnerProofs -------------------------
(***************************************************************************)
(* Theorems about CommandRunner for every set of descendants, every limit, *)
(* buffer, pipe capacity and input length.                                 *)
(***************************************************************************)
EXTENDS CommandRunner, TLAPS

Count(s) == (IF "out" \in s THEN 1 ELSE 0) + (IF "err" \in s THEN 1 ELSE 0)
            + (IF "in" \in s THEN 1 ELSE 0)

InLoop == pc \in {"top", "poll", "handle"}

\* The loop's counter is the number of descriptors it has not closed.
CountOK == InLoop => openDescriptors = Count(open)

\* What each stage of the run leaves for the next one.
StageOK ==
    /\ pc = "start" => /\ open = {} /\ inputSent = 0 /\ flags = {} /\ ~terminated
                       /\ status = "running" /\ group = {}
                       /\ \A p \in Procs : proc[p] = "unborn"
                       /\ \A d \in Ends : holders[d] = {} /\ pipe[d] = 0
                       /\ \A d \in Outputs : captured[d] = 0 /\ written[d] = 0
    /\ pc = "setup" => open = Ends /\ inputSent = 0 /\ flags = {} /\ ~terminated
    /\ InLoop /\ "in" \in open => inputSent < inputSize
    /\ pc \in {"wait", "done"} => open = {}
    /\ pc # "done" => result = "none"

\* Only open descriptors are handled, and only in a pass.
ReventsOK == \A d \in Ends : revents[d] # "none" => pc = "handle" /\ d \in open

Shape == TypeOK /\ CountOK /\ StageOK /\ ReventsOK

\* Before the command has a process, its descriptors and times have their types.
LEMMA ShapeInit == Init => Shape
<1> SUFFICES ASSUME Init PROVE Shape
  OBVIOUS
<1>1. TypeOK
  <2> USE LimitsAssumption DEF LimitsAssumption
  <2>1. /\ pipe \in [Ends -> 0..PipeCapacity] /\ written \in [Outputs -> 0..MaxWritten]
        /\ captured \in [Outputs -> 0..OutputLimit]
        /\ inputSize \in 0..MaxInput /\ inputSent \in 0..inputSize
    BY DEF Init
  <2>2. /\ proc \in [Procs -> {"unborn", "alive", "dead"}] /\ group \subseteq Procs
        /\ revents \in [Ends -> {"none", "ready", "error"}]
        /\ holders \in [Ends -> SUBSET Procs]
    BY DEF Init, Quiet
  <2>3. open \subseteq Ends /\ openDescriptors \in 0..3 /\ flags \subseteq Flags
    BY DEF Init
  <2>4. terminated \in BOOLEAN /\ expired \in BOOLEAN /\ graceExpired \in BOOLEAN
    BY DEF Init
  <2>5. QED
    BY <2>1, <2>2, <2>3, <2>4 DEF Init, TypeOK
<1>2. CountOK /\ StageOK /\ ReventsOK
  BY DEF Init, CountOK, StageOK, ReventsOK, InLoop, Quiet
<1> QED
  BY <1>1, <1>2 DEF Shape

\* A kill leaves the command's state well-typed.
LEMMA TerminateType ==
  ASSUME TypeOK, Terminate
  PROVE  /\ terminated' \in BOOLEAN
         /\ proc' \in [Procs -> {"unborn", "alive", "dead"}] /\ group' \subseteq Procs
         /\ holders' \in [Ends -> SUBSET Procs]
         /\ status' \in {"running", "zero", "nonzero", "signal"}
  BY DEF TypeOK, Terminate, command, Killed, InGroup

\* What a handler may rely on, and what it leaves of the poll's report.
LEMMA HandlingFacts ==
  ASSUME Shape, NEW d \in Ends, Handling(d)
  PROVE  /\ InLoop /\ d \in open /\ pc' \in {"top", "handle"}
         /\ openDescriptors = Count(open) /\ Count(open \ {d}) = Count(open) - 1
         /\ Count(open) \in 1..3
         /\ revents' \in [Ends -> {"none", "ready", "error"}]
         /\ \A e \in Ends : revents'[e] # "none" =>
               e # d /\ e \in open /\ pc' = "handle"
  BY DEF Shape, TypeOK, CountOK, ReventsOK, InLoop, Handling, Quiet, Count, Ends

\* No step of the parent, of a process of the command or of the clock breaks the types.
LEMMA ShapeStep == Shape /\ [Next]_vars => Shape'
<1> SUFFICES ASSUME Shape, [Next]_vars PROVE Shape'
  OBVIOUS
<1> USE LimitsAssumption DEF LimitsAssumption, Shape, fds, streams, verdict, command, pipes, clock, runner, vars
<1> USE DEF TypeOK, Outputs, Ends, Flags
<1>1. CASE Refuse
  BY <1>1 DEF Refuse, CountOK, StageOK, ReventsOK, InLoop
<1>2. CASE Fork
  BY <1>2 DEF Fork, CountOK, StageOK, ReventsOK, InLoop, Procs
<1>3. CASE SetUpInput
  BY <1>3 DEF SetUpInput, CountOK, StageOK, ReventsOK, InLoop, Count
<1>4. CASE SetUpInputFails
  BY <1>4, TerminateType DEF SetUpInputFails, Raise, CountOK, StageOK, ReventsOK, InLoop, Count
<1>5. CASE LeaveLoop
  BY <1>5 DEF LeaveLoop, CountOK, StageOK, ReventsOK, InLoop, Count, Pumped
<1>6. CASE TimeOut
  BY <1>6, TerminateType DEF TimeOut, Raise, CountOK, StageOK, ReventsOK, InLoop, Count
<1>7. CASE DrainTimeOut
  BY <1>7 DEF DrainTimeOut, Raise, CountOK, StageOK, ReventsOK, InLoop, Count
<1>8. CASE KeepWaiting
  BY <1>8 DEF KeepWaiting, CountOK, StageOK, ReventsOK, InLoop, Count
<1>9. CASE Poll
  BY <1>9 DEF Poll, Polled, Quiet, CountOK, StageOK, ReventsOK, InLoop, Count
<1>10. CASE PollFails
  BY <1>10, TerminateType DEF PollFails, Raise, CountOK, StageOK, ReventsOK, InLoop, Count
<1>11. CASE InputRejected
  <2>1. Handling("in") /\ flags' \subseteq Flags
    BY <1>11 DEF InputRejected, Raise
  <2>2. QED
    BY <1>11, <2>1, HandlingFacts DEF InputRejected, Handling, Close, CountOK, StageOK, ReventsOK, InLoop
<1>12. CASE InputWritten
  <2>1. /\ Handling("in") /\ pc' \in {"top", "handle"} /\ Count(open) \in 1..3
        /\ openDescriptors = Count(open) /\ Count(open \ {"in"}) = Count(open) - 1
        /\ revents' \in [Ends -> {"none", "ready", "error"}]
    BY <1>12, HandlingFacts DEF InputWritten
  <2>2. /\ inputSent' \in 0..inputSize /\ pipe' \in [Ends -> 0..PipeCapacity]
        /\ inputSize' = inputSize
    BY <1>12 DEF InputWritten, Handling, Least
  <2>3. \/ inputSent' = inputSize /\ Close("in")
        \/ inputSent' < inputSize /\ open' = open /\ openDescriptors' = openDescriptors
    <3>1. IF inputSent' = inputSize THEN Close("in") ELSE UNCHANGED fds
      BY <1>12 DEF InputWritten
    <3>2. inputSent' = inputSize \/ inputSent' < inputSize
      BY <2>2
    <3> QED
      BY <3>1, <3>2
  <2>4. TypeOK'
    <3>1. open' \subseteq Ends /\ openDescriptors' \in 0..3
      <4>1. openDescriptors \in 1..3 /\ open \subseteq Ends
        BY <2>1
      <4>2. CASE Close("in")
        BY <4>1, <4>2 DEF Close
      <4>3. CASE open' = open /\ openDescriptors' = openDescriptors
        BY <4>1, <4>3
      <4> QED
        BY <4>2, <4>3, <2>3
    <3>2. UNCHANGED <<result, inputSize, captured, verdict, command, written, clock>>
      BY <1>12, <2>1 DEF InputWritten, Handling
    <3>3. QED
      BY <2>1, <2>2, <3>1, <3>2
  <2>5. CountOK'
    BY <2>1, <2>3 DEF Close, CountOK
  <2>6. StageOK' /\ ReventsOK'
    BY <1>12, <2>1, <2>2, <2>3, HandlingFacts
       DEF InputWritten, Handling, Close, StageOK, ReventsOK, InLoop
  <2>7. QED
    BY <2>4, <2>5, <2>6
<1>13. CASE InputWriteFails
  BY <1>13 DEF InputWriteFails, Handling, Close, Raise, Quiet, CountOK, StageOK, ReventsOK, InLoop, Count
<1>14. ASSUME NEW d \in Ends, DescriptorFails(d) PROVE Shape'
  BY <1>14, TerminateType DEF DescriptorFails, Handling, Close, Raise, Quiet, CountOK, StageOK, ReventsOK, InLoop, Count
<1>15. ASSUME NEW d \in Ends, TryLater(d) PROVE Shape'
  BY <1>15 DEF TryLater, Handling, Quiet, CountOK, StageOK, ReventsOK, InLoop, Count
<1>16. ASSUME NEW d \in Outputs, OutputRead(d) PROVE Shape'
  <2>1. Handling(d) /\ inputSize' = inputSize /\ inputSent' = inputSent
    BY <1>16 DEF OutputRead, Handling
  <2>2. captured' \in [Outputs -> 0..OutputLimit] /\ pipe' \in [Ends -> 0..PipeCapacity]
    BY <1>16 DEF OutputRead, Kept, Least
  <2>3. /\ terminated' \in BOOLEAN /\ flags' \subseteq Flags
        /\ proc' \in [Procs -> {"unborn", "alive", "dead"}] /\ group' \subseteq Procs
        /\ holders' \in [Ends -> SUBSET Procs]
        /\ status' \in {"running", "zero", "nonzero", "signal"}
    BY <1>16, TerminateType DEF OutputRead, Raise
  <2>4. QED
    BY <1>16, <2>1, <2>2, <2>3, HandlingFacts DEF OutputRead, Handling, CountOK, StageOK, ReventsOK, InLoop
<1>17. ASSUME NEW d \in Outputs, OutputEnds(d) PROVE Shape'
  BY <1>17 DEF OutputEnds, Handling, Close, Quiet, CountOK, StageOK, ReventsOK, InLoop, Count
<1>18. CASE Reap
  BY <1>18 DEF Reap, ExitCode, CountOK, StageOK, ReventsOK, InLoop
<1>19. CASE ReapFails
  BY <1>19 DEF ReapFails, Raise, CountOK, StageOK, ReventsOK, InLoop
<1>20. CASE Command
  <2> PICK p \in Procs :
         \/ \E d \in Outputs : Write(p, d)
         \/ ReadInput(p) \/ LeaveGroup(p) \/ Exit(p)
         \/ \E d \in Ends : CloseEnd(p, d)
         \/ \E c \in Descendants : Spawn(p, c)
    BY <1>20 DEF Command
  <2> USE DEF CountOK, StageOK, ReventsOK, InLoop
  <2>1. ASSUME NEW d \in Outputs, Write(p, d) PROVE Shape'
    BY <2>1 DEF Write
  <2>2. CASE ReadInput(p)
    BY <2>2 DEF ReadInput
  <2>3. CASE LeaveGroup(p)
    BY <2>3 DEF LeaveGroup
  <2>4. CASE Exit(p)
    BY <2>4 DEF Exit
  <2>5. ASSUME NEW d \in Ends, CloseEnd(p, d) PROVE Shape'
    BY <2>5 DEF CloseEnd
  <2>6. ASSUME NEW c \in Descendants, Spawn(p, c) PROVE Shape'
    BY <2>6 DEF Spawn, Procs
  <2> QED
    BY <2>1, <2>2, <2>3, <2>4, <2>5, <2>6
<1>21. CASE DeadlinePasses
  BY <1>21 DEF DeadlinePasses, CountOK, StageOK, ReventsOK, InLoop
<1>22. CASE GraceExpires
  BY <1>22 DEF GraceExpires, CountOK, StageOK, ReventsOK, InLoop
<1>23. CASE UNCHANGED vars
  BY <1>23 DEF CountOK, StageOK, ReventsOK, InLoop
<1>. QED
  <2> HIDE DEF Shape, vars
  <2> QED
    BY <1>1, <1>2, <1>3, <1>4, <1>5, <1>6, <1>7, <1>8, <1>9, <1>10, <1>11, <1>12,
       <1>13, <1>14, <1>15, <1>16, <1>17, <1>18, <1>19, <1>20, <1>21, <1>22, <1>23
       DEF Next, Runner, Returned

\* Every reachable state is well-typed.
THEOREM TypeCorrect == Spec => []TypeOK
<1>1. Spec => []Shape
  BY ShapeInit, ShapeStep, PTL DEF Spec
<1>2. Shape => TypeOK
  BY DEF Shape
<1> QED
  BY <1>1, <1>2, PTL

-----------------------------------------------------------------------------
\* The process group.

GroupOK == \A p \in group : proc[p] # "unborn"

GroupInv == NoGroupSurvivor /\ GroupOK

\* terminate_process_group leaves nobody in the group, so nothing is left to kill.
LEMMA TerminateEmptiesGroup ==
  ASSUME TypeOK, GroupInv, Terminate
  PROVE  GroupInv'
  BY DEF TypeOK, GroupInv, Terminate, command, NoGroupSurvivor, GroupOK, Killed, InGroup

\* No step leaves or brings a process into the group after the kill.
LEMMA GroupStep == Shape /\ GroupInv /\ [Next]_vars => GroupInv'
<1> SUFFICES ASSUME Shape, GroupInv, [Next]_vars PROVE GroupInv'
  OBVIOUS
<1>t. TypeOK
  BY DEF Shape
<1>1. CASE Fork
  BY <1>1 DEF Fork, Shape, StageOK, TypeOK, GroupInv, NoGroupSurvivor, GroupOK, verdict, Procs
<1>2. CASE UNCHANGED <<terminated, command>>
  BY <1>2 DEF command, GroupInv, NoGroupSurvivor, GroupOK, InGroup
<1>3. CASE Terminate
  BY <1>3, <1>t, TerminateEmptiesGroup
<1>4. CASE Command
  <2> USE <1>t DEF TypeOK, GroupInv, NoGroupSurvivor, GroupOK, InGroup, runner, verdict
  <2>1. ASSUME NEW p \in Procs, LeaveGroup(p) \/ Exit(p) PROVE GroupInv'
    BY <2>1 DEF LeaveGroup, Exit
  <2>2. ASSUME NEW p \in Procs, NEW c \in Descendants, Spawn(p, c) PROVE GroupInv'
    BY <2>2 DEF Spawn, Procs
  <2>3. ASSUME NEW p \in Procs, NEW d \in Outputs, Write(p, d) PROVE GroupInv'
    BY <2>3 DEF Write, command
  <2>4. ASSUME NEW p \in Procs, NEW d \in Ends, CloseEnd(p, d) \/ ReadInput(p) PROVE GroupInv'
    BY <2>4 DEF CloseEnd, ReadInput, command
  <2> QED
    BY <1>4, <2>1, <2>2, <2>3, <2>4 DEF Command, Ends
<1>5. ASSUME NEW d \in Outputs, OutputRead(d) PROVE GroupInv'
  BY <1>2, <1>3, <1>5 DEF OutputRead, verdict
<1>6. CASE DeadlinePasses \/ GraceExpires \/ Returned \/ UNCHANGED vars
  BY <1>2, <1>6 DEF DeadlinePasses, GraceExpires, Returned, vars, runner, verdict
<1>7. CASE Runner /\ ~Fork /\ ~\E d \in Outputs : OutputRead(d)
  BY <1>2, <1>3, <1>7
     DEF Runner, Refuse, SetUpInput, SetUpInputFails, LeaveLoop, TimeOut, DrainTimeOut,
         KeepWaiting, Poll, PollFails, InputRejected, InputWritten, InputWriteFails,
         DescriptorFails, TryLater, OutputEnds, Reap, ReapFails, verdict
<1> QED
  BY <1>1, <1>4, <1>5, <1>6, <1>7 DEF Next

\* After the kill, nothing that is still in the command's process group runs.
THEOREM NoGroupSurvivorAlways == Spec => []NoGroupSurvivor
<1>1. Init => Shape /\ GroupInv
  BY ShapeInit DEF Init, GroupInv, NoGroupSurvivor, GroupOK
<1>2. Shape /\ GroupInv /\ [Next]_vars => (Shape /\ GroupInv)'
  BY ShapeStep, GroupStep
<1>3. GroupInv => NoGroupSurvivor
  BY DEF GroupInv
<1> QED
  BY <1>1, <1>2, <1>3, PTL DEF Spec

-----------------------------------------------------------------------------
\* The byte streams.

\* Until the command is killed, what it wrote is captured or still in the pipe.
FlowOK == ~terminated =>
    \A d \in Outputs : captured[d] + pipe[d] = written[d]

\* An output is only closed, short of a kill, once it is empty and has no
\* writer left.
DrainedOK == ~terminated /\ pc \notin {"start", "setup"} =>
    \A d \in Outputs \ open : pipe[d] = 0 /\ holders[d] = {}

\* The kernel's report still holds when its descriptor's turn comes.
ReportOK ==
    \A d \in Ends : holders[d] # {} =>
       /\ d \in Outputs /\ revents[d] # "none" => pipe[d] > 0
       /\ d = "in" => revents[d] # "error"

FlowInv == FlowOK /\ DrainedOK /\ ReportOK

\* A kill leaves the pipes and the report on them as they were.
LEMMA TerminateFlow ==
  ASSUME TypeOK, ReportOK, Terminate, UNCHANGED pipe,
         \A d \in Ends : revents'[d] = revents[d] \/ revents'[d] = "none"
  PROVE  FlowInv'
  BY DEF TypeOK, FlowInv, FlowOK, DrainedOK, ReportOK, Terminate, command

\* Short of a kill no step loses a byte, and no output is closed early.
LEMMA FlowStep == Shape /\ FlowInv /\ [Next]_vars => FlowInv'
<1> SUFFICES ASSUME Shape, FlowInv, [Next]_vars PROVE FlowInv'
  OBVIOUS
<1>t. TypeOK /\ ReportOK /\ CountOK /\ StageOK /\ ReventsOK
  BY DEF Shape, FlowInv
<1> USE LimitsAssumption, <1>t
    DEF LimitsAssumption, FlowInv, FlowOK, DrainedOK, ReportOK, TypeOK, Ends, Outputs,
        fds, streams, verdict, command, pipes
<1>0. CASE UNCHANGED <<pc, revents, streams, open, terminated, holders, pipes>>
  BY <1>0
<1>1. CASE Refuse
  BY <1>1 DEF Refuse, StageOK
<1>2. CASE Fork
  BY <1>2 DEF Fork, StageOK, ReventsOK
<1>3. CASE SetUpInput
  BY <1>3 DEF SetUpInput, StageOK
<1>4. CASE SetUpInputFails \/ TimeOut \/ PollFails
  BY <1>4, TerminateFlow DEF SetUpInputFails, TimeOut, PollFails
<1>5. CASE LeaveLoop
  BY <1>5 DEF LeaveLoop, Pumped, CountOK, InLoop, Count
<1>6. CASE DrainTimeOut \/ KeepWaiting
  BY <1>6 DEF DrainTimeOut, KeepWaiting, DrainOver
<1>7. CASE Poll
  BY <1>7 DEF Poll, Polled, Quiet
<1>8. CASE InputRejected \/ InputWriteFails
  BY <1>8 DEF InputRejected, InputWriteFails, Handling, Close
<1>9. CASE InputWritten
  <2>1. /\ \A d \in Outputs : pipe'[d] = pipe[d]
        /\ open' = open \/ open' = open \ {"in"}
        /\ UNCHANGED <<holders, captured, terminated, written>>
        /\ \A d \in Ends : revents'[d] = revents[d] \/ revents'[d] = "none"
    BY <1>9 DEF InputWritten, Handling, Close
  <2>2. pc = "handle" /\ pc' \in {"top", "handle"}
    BY <1>9 DEF InputWritten, Handling
  <2> QED
    BY <2>1, <2>2
<1>10. ASSUME NEW d \in Ends, DescriptorFails(d) PROVE FlowInv'
  BY <1>10, TerminateFlow DEF DescriptorFails, Handling
<1>11. ASSUME NEW d \in Ends, TryLater(d) PROVE FlowInv'
  BY <1>11 DEF TryLater, Handling
<1>12. ASSUME NEW d \in Outputs, OutputRead(d) PROVE FlowInv'
  <2>1. PICK count \in 1..Least(pipe[d], BufferSize) :
           /\ pipe' = [pipe EXCEPT ![d] = @ - count]
           /\ captured' = [captured EXCEPT ![d] = @ + Least(count, OutputLimit - captured[d])]
           /\ IF count > OutputLimit - captured[d] /\ ~terminated
              THEN Terminate ELSE UNCHANGED <<verdict, command>>
    BY <1>12 DEF OutputRead, Overflows, Kept
  <2>2. /\ UNCHANGED <<open, written>> /\ pc = "handle" /\ pc' \in {"top", "handle"}
        /\ revents' = [revents EXCEPT ![d] = "none"]
        /\ d \in open
    BY <1>12 DEF OutputRead, Handling, ReventsOK
  <2>3. count \in Nat
    BY <2>1 DEF Least
  <2>4. CASE terminated' 
    <3>1. \A e \in Ends : holders'[e] # {} => holders[e] # {}
      BY <2>1 DEF Terminate
    <3> QED
      BY <2>1, <2>2, <2>3, <2>4, <3>1
  <2>5. CASE ~terminated'
    <3>1. /\ UNCHANGED <<verdict, command>> /\ count <= OutputLimit - captured[d]
      BY <2>1, <2>5, <2>3 DEF Terminate
    <3>2. captured'[d] + pipe'[d] = captured[d] + pipe[d]
      BY <2>1, <2>3, <3>1 DEF Least
    <3> QED
      BY <2>1, <2>2, <2>5, <3>1, <3>2
  <2> QED
    BY <2>4, <2>5
<1>13. ASSUME NEW d \in Outputs, OutputEnds(d) PROVE FlowInv'
  BY <1>13 DEF OutputEnds, Handling, Close
<1>14. CASE Reap \/ ReapFails
  BY <1>14 DEF Reap, ReapFails
<1>15. ASSUME NEW p \in Procs, NEW d \in Outputs, Write(p, d) PROVE FlowInv'
  BY <1>15 DEF Write, runner
<1>16. ASSUME NEW p \in Procs, ReadInput(p) PROVE FlowInv'
  BY <1>16 DEF ReadInput, runner
<1>17. ASSUME NEW p \in Procs, LeaveGroup(p) \/ Exit(p) PROVE FlowInv'
  BY <1>17 DEF LeaveGroup, Exit, runner
<1>18. ASSUME NEW p \in Procs, NEW d \in Ends, CloseEnd(p, d) PROVE FlowInv'
  BY <1>18 DEF CloseEnd, runner
<1>19. ASSUME NEW p \in Procs, NEW c \in Descendants, Spawn(p, c) PROVE FlowInv'
  BY <1>19 DEF Spawn, runner
<1>20. CASE DeadlinePasses \/ GraceExpires \/ Returned \/ UNCHANGED vars
  BY <1>0, <1>20 DEF DeadlinePasses, GraceExpires, Returned, runner, vars
<1> QED
  <2> HIDE DEF FlowInv
  <2> QED
    BY <1>1, <1>2, <1>3, <1>4, <1>5, <1>6, <1>7, <1>8, <1>9, <1>10, <1>11, <1>12, <1>13,
       <1>14, <1>15, <1>16, <1>17, <1>18, <1>19, <1>20 DEF Next, Runner, Command

-----------------------------------------------------------------------------
\* The verdict.

\* A kill always leaves a flag that nothing takes back.
TermOK == terminated => flags \ {"input_rejected"} # {}

\* Without a flag, the input is only closed when it was sent.
InputOK == (InLoop \/ pc = "wait") /\ "in" \notin open /\ flags = {} =>
               inputSent = inputSize

\* An ended leader is not running, so its status is final.
LeaderOK == status # "running" => proc[Leader] = "dead"

ResultOK == result = "zero" =>
    pc = "done" /\ flags = {} /\ inputSent = inputSize /\ status = "zero"

RejectedOK == "input_rejected" \in flags => "in" \notin open

VerdictInv == TermOK /\ InputOK /\ LeaderOK /\ ResultOK /\ RejectedOK /\ FailureHasCause

\* A kill ends the leader, and nobody takes up a standard input that had no reader.
LEMMA TerminateLeader ==
  ASSUME TypeOK, LeaderOK, Terminate
  PROVE  LeaderOK' /\ (holders["in"] = {} => holders'["in"] = {})
  BY DEF TypeOK, LeaderOK, Terminate, command, Killed, InGroup, Procs, Ends

\* No step reports a result whose reason is missing.
LEMMA VerdictStep == Shape /\ FlowInv /\ VerdictInv /\ [Next]_vars => VerdictInv'
<1> SUFFICES ASSUME Shape, FlowInv, VerdictInv, [Next]_vars PROVE VerdictInv'
  OBVIOUS
<1>t. TypeOK /\ CountOK /\ StageOK /\ ReventsOK /\ FlowOK /\ ReportOK
  BY DEF Shape, FlowInv
<1> USE LimitsAssumption, <1>t
    DEF LimitsAssumption, VerdictInv, TermOK, InputOK, LeaderOK, ResultOK, RejectedOK,
        FailureHasCause, TypeOK, StageOK, Ends, Outputs, InLoop,
        fds, streams, verdict, command, pipes, clock
<1>1. CASE Refuse
  BY <1>1 DEF Refuse
<1>2. CASE Fork
  BY <1>2 DEF Fork, Procs
<1>3. CASE SetUpInput
  BY <1>3 DEF SetUpInput
<1>4. CASE SetUpInputFails
  BY <1>4, TerminateLeader DEF SetUpInputFails, Raise
<1>5. CASE LeaveLoop
  BY <1>5 DEF LeaveLoop, Pumped, CountOK, Count
<1>6. CASE TimeOut
  BY <1>6, TerminateLeader DEF TimeOut, Raise
<1>7. CASE DrainTimeOut
  BY <1>7 DEF DrainTimeOut, Raise
<1>8. CASE KeepWaiting \/ Poll
  BY <1>8 DEF KeepWaiting, Poll
<1>9. CASE PollFails
  BY <1>9, TerminateLeader DEF PollFails, Raise
<1>10. CASE InputRejected
  BY <1>10 DEF InputRejected, Handling, Close, Raise, ReventsOK, ReportOK
<1>11. CASE InputWritten
  <2>1. /\ pc = "handle" /\ "in" \in open /\ pc' \in {"top", "handle"}
        /\ UNCHANGED <<result, inputSize, written, expired, verdict, command>>
    BY <1>11 DEF InputWritten, Handling, ReventsOK
  <2>2. "in" \notin open' => inputSent' = inputSize
    BY <1>11, <2>1 DEF InputWritten
  <2> QED
    BY <2>1, <2>2
<1>12. CASE InputWriteFails
  BY <1>12 DEF InputWriteFails, Handling, Close, Raise
<1>13. ASSUME NEW d \in Ends, DescriptorFails(d) PROVE VerdictInv'
  BY <1>13, TerminateLeader DEF DescriptorFails, Handling, Close, Raise
<1>14. ASSUME NEW d \in Ends, TryLater(d) PROVE VerdictInv'
  BY <1>14 DEF TryLater, Handling
<1>15. ASSUME NEW d \in Outputs, OutputRead(d) PROVE VerdictInv'
  <2>1. PICK count \in 1..Least(pipe[d], BufferSize) :
           IF count > OutputLimit - captured[d] /\ ~terminated
           THEN Raise("truncated") /\ Terminate ELSE UNCHANGED <<verdict, command>>
    BY <1>15 DEF OutputRead, Overflows
  <2>2. /\ pc = "handle" /\ pc' \in {"top", "handle"}
        /\ UNCHANGED <<result, fds, inputSize, inputSent, written, expired>>
    BY <1>15 DEF OutputRead, Handling
  <2>3. count \in Nat /\ count <= pipe[d]
    BY <2>1 DEF Least
  <2>4. CASE UNCHANGED <<verdict, command>>
    BY <2>2, <2>4
  <2>5. CASE count > OutputLimit - captured[d] /\ ~terminated /\ Raise("truncated") /\ Terminate
    <3>1. written[d] > OutputLimit
      BY <2>3, <2>5 DEF FlowOK
    <3>2. LeaderOK' /\ (holders["in"] = {} => holders'["in"] = {})
      BY <2>5, TerminateLeader
    <3>3. FailureHasCause'
      BY <2>2, <2>5, <3>1, <3>2 DEF Raise
    <3> QED
      BY <2>2, <2>5, <3>2, <3>3 DEF Raise
  <2> QED
    BY <2>1, <2>4, <2>5
<1>16. ASSUME NEW d \in Outputs, OutputEnds(d) PROVE VerdictInv'
  BY <1>16 DEF OutputEnds, Handling, Close
<1>17. CASE Reap \/ ReapFails
  BY <1>17 DEF Reap, ReapFails, Raise, ExitCode
<1>18. ASSUME NEW p \in Procs, NEW d \in Outputs, Write(p, d) PROVE VerdictInv'
  BY <1>18 DEF Write, runner
<1>19. ASSUME NEW p \in Procs, ReadInput(p) \/ LeaveGroup(p) \/ Exit(p) PROVE VerdictInv'
  BY <1>19 DEF ReadInput, LeaveGroup, Exit, runner, Procs
<1>20. ASSUME NEW p \in Procs, NEW d \in Ends, CloseEnd(p, d) PROVE VerdictInv'
  BY <1>20 DEF CloseEnd, runner
<1>21. ASSUME NEW p \in Procs, NEW c \in Descendants, Spawn(p, c) PROVE VerdictInv'
  BY <1>21, ProcsAssumption DEF ProcsAssumption, Spawn, runner, Procs
<1>22. CASE DeadlinePasses \/ GraceExpires \/ Returned \/ UNCHANGED vars
  BY <1>22 DEF DeadlinePasses, GraceExpires, Returned, runner, vars
<1> QED
  <2> HIDE DEF VerdictInv
  <2> QED
    BY <1>1, <1>2, <1>3, <1>4, <1>5, <1>6, <1>7, <1>8, <1>9, <1>10, <1>11, <1>12, <1>13,
       <1>14, <1>15, <1>16, <1>17, <1>18, <1>19, <1>20, <1>21, <1>22
       DEF Next, Runner, Command

\* The inductive invariant behind the three results below.
IInv == Shape /\ FlowInv /\ VerdictInv

\* The inductive invariant of the runner.
LEMMA Invariance == Spec => []IInv
<1>1. Init => IInv
  <2>1. Init => Shape
    BY ShapeInit
  <2>2. Init => FlowInv
    <3> SUFFICES ASSUME Init PROVE FlowInv
      OBVIOUS
    <3>1. \A d \in Outputs : captured[d] = 0 /\ pipe[d] = 0 /\ written[d] = 0
      BY DEF Init, Outputs, Ends
    <3>2. DrainedOK /\ ReportOK
      BY DEF Init, DrainedOK, ReportOK
    <3> QED
      BY <3>1, <3>2 DEF FlowInv, FlowOK
  <2>3. Init => VerdictInv
    BY DEF Init, VerdictInv, TermOK, InputOK, LeaderOK, ResultOK, RejectedOK,
       FailureHasCause, InLoop
  <2> QED
    BY <2>1, <2>2, <2>3 DEF IInv
<1>2. IInv /\ [Next]_vars => IInv'
  BY ShapeStep, FlowStep, VerdictStep DEF IInv
<1> QED
  BY <1>1, <1>2, PTL DEF Spec

\* Exit code 0 is only returned for a command whose output was captured whole,
\* whose input was all accepted, and that was not killed.
THEOREM SuccessIsCompleteAlways == Spec => []SuccessIsComplete
<1>1. IInv => SuccessIsComplete
  <2> SUFFICES ASSUME IInv, result = "zero" PROVE SuccessIsComplete
    BY DEF SuccessIsComplete
  <2>1. pc = "done" /\ inputSent = inputSize /\ status = "zero" /\ ~terminated /\ open = {}
    BY DEF IInv, VerdictInv, ResultOK, TermOK, Shape, StageOK
  <2>2. \A d \in Outputs : pipe[d] = 0 /\ holders[d] = {} /\ captured[d] + pipe[d] = written[d]
    BY <2>1 DEF IInv, FlowInv, FlowOK, DrainedOK
  <2>3. captured = written
    BY <2>2, LimitsAssumption DEF LimitsAssumption, IInv, Shape, TypeOK
  <2> QED
    BY <2>1, <2>2, <2>3 DEF SuccessIsComplete
<1> QED
  BY <1>1, Invariance, PTL

\* A run is only reported as cut by the deadline, the limit or the reader of
\* its input when it was.
THEOREM FailureHasCauseAlways == Spec => []FailureHasCause
  BY Invariance, PTL DEF IInv, VerdictInv

\* The runner never blocks in a read, which would suspend its deadline.
THEOREM ReadNeverBlocksAlways == Spec => []ReadNeverBlocks
<1>1. IInv => ReadNeverBlocks
  BY DEF IInv, FlowInv, ReportOK, ReadNeverBlocks, Ends, Outputs
<1> QED
  BY <1>1, Invariance, PTL
=============================================================================
