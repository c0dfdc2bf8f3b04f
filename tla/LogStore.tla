------------------------------- MODULE LogStore -------------------------------
(***************************************************************************)
(* LoggingEngine::record (logging/engine/logging_engine.cpp) on one        *)
(* channel's log, called by several ffc processes, over PrivateStorage.    *)
(*                                                                         *)
(* A log entry is EntrySize chunks, the last of which ends the line; the   *)
(* entry "log-rotation" and the lines of an earlier version are one chunk. *)
(* The lock is flock(2) on the log's lock file: the kernel releases it     *)
(* when its holder ends, in whatever way.                                  *)
(***************************************************************************)
EXTENDS PrivateStorage

CONSTANTS
    Nobody,      \* the lock is free
    EntrySize,   \* chunks of an entry
    Limit        \* maximum_log_bytes, in chunks

ASSUME LogAssumption ==
    /\ Nobody \notin Calls /\ {"log-rotation", "earlier"} \cap Calls = {}
    /\ EntrySize \in Nat \ {0} /\ Limit \in Nat /\ EntrySize + 1 <= Limit

VARIABLES
    holder,      \* the call that holds the lock
    kept         \* history: calls that reported success since the last rotation

vars == <<storage, holder, kept>>

Mark  == <<"log-rotation", 1>>
Chunk == {Mark, <<"earlier", 1>>} \cup (Calls \X (1..EntrySize))

Entry(c)       == [i \in 1..EntrySize |-> <<c, i>>]
Replacement(c) == <<Mark>> \o Entry(c)
EndsLine(k)    == k[1] \notin Calls \/ k[2] = EntrySize

TypeOK ==
    /\ StorageOK(Chunk)
    /\ holder \in Calls \cup {Nobody} /\ kept \in SUBSET Calls
    /\ \A c \in Calls : holder = c <=> pc[c] \notin Ended \cup {"start"}

\* Logs of earlier versions had no limit.
Init ==
    /\ StorageInit({[i \in 1..n |-> <<"earlier", 1>>] : n \in 0..(Limit + 1)})
    /\ holder = Nobody /\ kept = {}

\* Mutant: the lock is not exclusive.
AvailableAlways == TRUE

Available == holder = Nobody

\* ScopedLogLock::acquire.
Lock(c) ==
    /\ At(c, "start") /\ Available
    /\ holder' = c /\ Goto(c, "ready")
    /\ UNCHANGED <<file, named, entry, fd, text, kept>>

\* Mutant: what is to be appended is not counted.
RotatesLate == Len(Content) > Limit

Rotates == Len(Content) + EntrySize > Limit

\* The log is read, and appended to or rotated away.
Decide(c) ==
    /\ At(c, "ready")
    /\ \/ ~Rotates /\ StartAppend(c, Entry(c))
       \/ Rotates /\ StartReplace(c, Replacement(c))
    /\ UNCHANGED <<holder, kept>>

\* Mutant: a failing record keeps the lock.
ReleasedOnSuccess == IF \E c \in Calls : holder = c /\ pc'[c] = "ok" THEN Nobody ELSE holder

Released == IF \E c \in Calls : holder = c /\ pc'[c] \in Ended THEN Nobody ELSE holder

Succeeded == {c \in Calls : pc[c] # "ok" /\ pc'[c] = "ok"}

\* record goes on, and its destructor releases the lock.
Proceed(c) ==
    /\ Step(c)
    /\ holder' = Released
    /\ kept' = IF named' # named THEN {} ELSE kept \cup Succeeded

Die(c) ==
    /\ Crash(c)
    /\ holder' = IF holder = c THEN Nobody ELSE holder
    /\ UNCHANGED kept

LosePower == PowerLoss /\ holder' = Nobody /\ UNCHANGED kept

Record(c) == Lock(c) \/ Decide(c) \/ Proceed(c)

\* All the calls were made.
Finished == (\A c \in Calls : pc[c] \in Ended) /\ UNCHANGED vars

Next == Finished \/ LosePower \/ \E c \in Calls : Record(c) \/ Die(c)

Spec == Init /\ [][Next]_vars

\* A record that has the lock goes on, and one that waits gets a free lock.
FairSpec == Spec /\ \A c \in Calls :
    WF_vars(Decide(c) \/ (~At(c, "start") /\ Proceed(c))) /\ WF_vars(Lock(c))

-----------------------------------------------------------------------------
\* No record makes the log larger than its limit: one that is larger was, in
\* an earlier version.
LogBounded ==
    Len(Content) > Limit => \A i \in 1..Len(Content) : Content[i] = <<"earlier", 1>>

\* Entry(c) stands in the log in one piece, behind n chunks.
StandsAt(c, n) ==
    n + EntrySize <= Len(Content) /\ SubSeq(Content, n + 1, n + EntrySize) = Entry(c)

\* An entry whose record reported success stays in the log until a rotation,
\* through failures of others, crashes and power loss.  It is a line of its own,
\* which the analysis can parse, unless it follows what a failed or killed record
\* left behind.
SuccessParsable ==
    \A c \in kept : \E n \in 0..Len(Content) :
       /\ StandsAt(c, n)
       /\ n > 0 /\ ~EndsLine(Content[n]) => pc[Content[n][1]] \in {"failed", "dead"}

\* A rotated log is never found without its mark and its first entry.
RotationWhole ==
    named # Original => LET n == Len(Replacement(named)) IN
       Len(Content) >= n /\ SubSeq(Content, 1, n) = Replacement(named)

\* Every record returns: the lock is never left behind, by whatever end.
RecordReturns == \A c \in Calls : <>(pc[c] \in Ended)
=============================================================================
