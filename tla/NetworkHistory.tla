--------------------------- MODULE NetworkHistory ---------------------------
(***************************************************************************)
(* NetworkHistoryStore (network/network_history.cpp) over PrivateStorage:  *)
(* explicit network captures of several ffc processes, each appending one  *)
(* observation.  Nothing locks the file between the read that decides and  *)
(* the append or the replacement that follows.                             *)
(*                                                                         *)
(* A record is a sequence of chunks, the last of which ends its line; a    *)
(* chunk is the unit of size.  Records of earlier runs are one chunk.      *)
(***************************************************************************)
EXTENDS PrivateStorage, FiniteSets

CONSTANTS
    Long,          \* the calls whose record has LongSize chunks
    LongSize,
    MaxRecords,    \* maximum_history_records
    MaxBytes       \* maximum_history_bytes

ASSUME HistoryAssumption ==
    /\ Long \subseteq Calls /\ LongSize \in Nat \ {0}
    /\ MaxRecords \in Nat \ {0} /\ MaxBytes \in Nat \ {0}
    /\ {"break", "earlier"} \cap Calls = {}

VARIABLES
    overlapped     \* history: calls that ran while another call did

vars == <<storage, overlapped>>

Size(c)   == IF c \in Long THEN LongSize ELSE 1

Record(c) == [i \in 1..Size(c) |-> <<c, i>>]

\* A line break alone, which compaction puts behind a line that has none.
Break  == <<"break", 1>>
Old(i) == <<"earlier", i>>
OldMax == 4 * MaxBytes + 1
Chunk  == {Break} \cup {Old(i) : i \in 1..(OldMax + MaxRecords)} \cup
          UNION {{<<c, i>> : i \in 1..Size(c)} : c \in Calls}

EndsLine(k) == k[1] \in Calls => k[2] = Size(k[1])
LineEnds(s) == {i \in 1..Len(s) : EndsLine(s[i])}
Closed(s)   == IF s = <<>> \/ EndsLine(s[Len(s)]) THEN s ELSE Append(s, Break)

\* Mutant: no place is kept free for the record to come.
RetainableFull(s, n) ==
    Len(s) - n <= MaxBytes /\ Cardinality({i \in LineEnds(s) : i > n}) <= MaxRecords

\* The lines of s behind its first n chunks fit, one place being kept free.
Retainable(s, n) ==
    Len(s) - n <= MaxBytes /\ Cardinality({i \in LineEnds(s) : i > n}) < MaxRecords

\* Mutant: the oldest lines are retained.
RetainedOldest(content) ==
    LET s == Closed(content)
        n == CHOOSE n \in LineEnds(s) \cup {0} :
                /\ Retainable(s, n)
                /\ \A m \in LineEnds(s) \cup {0} : Retainable(s, m) => n <= m
    IN  SubSeq(s, 1, Len(s) - n)

\* retain_recent_records: as many of the newest lines as may be.
Retained(content) ==
    LET s == Closed(content)
        n == CHOOSE n \in LineEnds(s) \cup {0} :
                /\ Retainable(s, n)
                /\ \A m \in LineEnds(s) \cup {0} : Retainable(s, m) => n <= m
    IN  SubSeq(s, n + 1, Len(s))

TypeOK ==
    /\ StorageOK(Chunk)
    /\ overlapped \in SUBSET Calls

Init ==
    /\ StorageInit({[i \in 1..n |-> Old(i)] : n \in 0..(MaxRecords + 1) \cup {OldMax}})
    /\ overlapped = {}

Active == {c \in Calls : pc[c] \notin Ended \cup {"start"}}

\* A history that does not exist yet: an empty one at the path stands for it.
Absent == named = Original /\ Content = <<>>

\* The history is read; it counts as unreadable beyond four times its bound and
\* when it does not exist, and is then replaced.
Begin(c) ==
    LET readable == Len(Content) <= 4 * MaxBytes
        retained == IF readable THEN Retained(Content) ELSE <<>>
        compact  == \/ ~readable
                    \/ retained # Content
                    \/ Cardinality(LineEnds(Content)) >= MaxRecords
                    \/ Len(retained) + Size(c) > MaxBytes
    IN  /\ At(c, "start")
        /\ \/ (compact \/ Absent) /\ StartReplace(c, retained \o Record(c))
           \/ ~compact /\ StartAppend(c, Record(c))
        /\ overlapped' = IF Active = {} THEN overlapped ELSE overlapped \cup Active \cup {c}

\* The append or the replacement goes on.
Proceed(c) == Step(c) /\ UNCHANGED overlapped

Die == (PowerLoss \/ \E c \in Calls : Crash(c)) /\ UNCHANGED overlapped

Finished == (\A c \in Calls : pc[c] \in Ended) /\ UNCHANGED vars

Next == Finished \/ Die \/ \E c \in Calls : Begin(c) \/ Proceed(c)

Spec == Init /\ [][Next]_vars

-----------------------------------------------------------------------------
Held(c) == \E n \in 0..Len(Content) :
              n + Size(c) <= Len(Content) /\ SubSeq(Content, n + 1, n + Size(c)) = Record(c)

\* When no two captures ever overlapped and the bounds leave room for all of
\* them, each that was reported saved is in the history, through failures,
\* crashes and power loss of the others.
SavedHeld == overlapped = {} => \A c \in Calls : pc[c] = "ok" => Held(c)

\* Once the history was compacted, the number of its records exceeds the bound
\* by no more than the captures that overlapped, and its size by no more than
\* their records and the one that compaction added to what it retained
\* (network_history.cpp:30-38, 82-84).
ExcessBounded ==
    named # Original =>
        /\ Cardinality(LineEnds(Content)) <= MaxRecords + Cardinality(overlapped)
        /\ Len(Content) <= MaxBytes + Size(named) + LongSize * Cardinality(overlapped)

\* "History is retained locally as the newest 512 records within a 256 KiB bound"
\* (docs/DEFCON_OPERATIONS.md:17, and HARDENING.md:31): a history that was compacted
\* and that no two captures shared is within the bound.
BytesBounded == named # Original /\ overlapped = {} => Len(Content) <= MaxBytes
=============================================================================
