------------------------------ MODULE Collection ------------------------------
(***************************************************************************)
(* What SnapshotService relies on when it awaits one native collection     *)
(* after the other: a collection is over within its limit, its process is  *)
(* gone by then, and it either brings the snapshot that process wrote,     *)
(* whole, or fails.  NativeRun implements this.                            *)
(***************************************************************************)
EXTENDS Integers

CONSTANT Limit    \* the longest a collection may take

VARIABLES
    phase,     \* "idle", "collecting", or how the last one ended: "ok", "failed"
    age,       \* how long it has been going on
    process,   \* its process exists
    snapshot   \* what it brought: "none", "part", "whole"

collectionVars == <<phase, age, process, snapshot>>

Init == phase = "idle" /\ age = 0 /\ ~process /\ snapshot = "none"

\* The service calls collect().
Start ==
    /\ phase # "collecting"
    /\ phase' = "collecting" /\ age' = 0 /\ process' \in BOOLEAN
    /\ snapshot' = "none"

Wait ==
    /\ phase = "collecting" /\ age < Limit
    /\ age' = age + 1
    /\ UNCHANGED <<phase, process, snapshot>>

\* The process ends: it finished, failed, or was killed.
ProcessEnds ==
    /\ phase = "collecting" /\ process
    /\ process' = FALSE
    /\ UNCHANGED <<phase, age, snapshot>>

Bring ==
    /\ phase = "collecting" /\ ~process
    /\ phase' = "ok" /\ snapshot' = "whole"
    /\ UNCHANGED <<age, process>>

Fail ==
    /\ phase = "collecting" /\ ~process
    /\ phase' = "failed"
    /\ UNCHANGED <<age, process, snapshot>>

Next == Start \/ Wait \/ ProcessEnds \/ Bring \/ Fail

Spec == Init /\ [][Next]_collectionVars

\* What the service may rely on: these steps only, and every collection ends.
Ends    == phase = "collecting" ~> phase # "collecting"
Promise == Spec /\ Ends
===============================================================================
