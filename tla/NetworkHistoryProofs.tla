------------------------ MODULE NetworkHistoryProofs ------------------------
(***************************************************************************)
(* Theorems about NetworkHistory for any number of captures, any records   *)
(* and any bounds.  A history that was compacted exceeds its bounds only   *)
(* by captures that overlapped: with what a replacement will hold once it  *)
(* is written (Whole), and with what captures that decided to append have  *)
(* yet to write behind it (Due, Left), every file that the path leads to,  *)
(* may lead to, or is about to lead to is within them (ExcessOK).          *)
(* Captures that did not overlap keep every record that was saved: each    *)
(* record stands so close to the end of every such file that compaction    *)
(* does not reach it before all captures have begun (SavedInv).            *)
(***************************************************************************)
EXTENDS NetworkHistory, SequenceTheorems, FiniteSetTheorems, FunctionTheorems,
        WellFoundedInduction, TLAPS

Ends(s) == Cardinality(LineEnds(s))

Staged == {c \in Calls : pc[c] \in {"stage", "rename"}}

\* The files that the path leads to, now or after a power loss, or is about to.
Live == {named, entry} \cup Staged

\* What a file holds once it is written.
Whole(f) == IF f \in Calls /\ pc[f] = "stage" THEN file[f].data \o text[f] ELSE file[f].data

\* The captures that have yet to append to f, and the chunks of their records.
Due(f) == {c \in Calls : /\ text[c] # <<>>
                         /\ \/ pc[c] = "open" /\ f \in {named} \cup Staged
                            \/ pc[c] = "write" /\ fd[c] = f}
Left(f) == {r \in Due(f) \X (1..LongSize) : r[2] <= Len(text[r[1]])}

Excess(f) ==
    /\ Ends(Whole(f)) + Cardinality(Due(f)) <= MaxRecords + Cardinality(overlapped)
    /\ Len(Whole(f)) + Cardinality(Left(f)) <=
          MaxBytes + Size(f) + LongSize * Cardinality(overlapped)

ExcessOK == \A f \in Calls \cap Live : Excess(f)

\* A call's file has no name and no other writer before it is renamed.
OwnOK == \A c \in Calls :
    /\ pc[c] \in {"start", "open", "write", "stage", "rename"} =>
          c \notin {named, entry} /\ \A d \in Calls : pc[d] = "write" => fd[d] # c
    /\ pc[c] \in {"stage", "rename"} => fd[c] = c
    /\ pc[c] = "start" => file[c].data = <<>>

\* What is left of the record of a call that appends.
TextOK == \A c \in Calls : pc[c] \in {"open", "write"} =>
    /\ Len(text[c]) <= Size(c)
    /\ \A i \in 1..Len(text[c]) : text[c][i] = <<c, Size(c) - Len(text[c]) + i>>

OverlapOK ==
    /\ IsFiniteSet(Active) /\ IsFiniteSet(overlapped)
    /\ \A c \in overlapped : pc[c] # "start"

HistoryInv == TypeOK /\ OwnOK /\ TextOK /\ OverlapOK /\ ExcessOK

-----------------------------------------------------------------------------
(* Sets of numbers, texts and lines. *)

\* Numbers have a least one: intervals are finite, and the one it ends is in all others.
LEMMA Least ==
  ASSUME NEW S \in SUBSET Nat, S # {}
  PROVE  \E n \in S : \A m \in S : n <= m
<1> DEFINE T == {0..m : m \in S}
<1>1. T # {} /\ T \subseteq FiniteSubsetsOf(Nat)
  <2>1. \A m \in S : 0..m \in SUBSET Nat /\ IsFiniteSet(0..m)
    BY FS_Interval
  <2> QED
    BY <2>1 DEF FiniteSubsetsOf
<1>2. IsWellFoundedOn(StrictSubsetOrdering(Nat), FiniteSubsetsOf(Nat))
  BY FS_StrictSubsetOrderingWellFounded
<1>3. PICK x \in T : \A y \in T : ~(<<y, x>> \in StrictSubsetOrdering(Nat))
  <2> HIDE DEF T
  <2> QED
    BY <1>1, <1>2, WFMin
<1>4. PICK n \in S : x = 0..n
  BY <1>3
<1>5. ASSUME NEW m \in S, m < n PROVE FALSE
  <2>1. 0..m \in T /\ 0..m \subseteq 0..n /\ 0..m # 0..n
    <3>1. n \in 0..n /\ n \notin 0..m
      BY <1>5
    <3> QED
      BY <1>5, <3>1
  <2>2. <<0..m, x>> \in StrictSubsetOrdering(Nat)
    BY <1>4, <2>1 DEF StrictSubsetOrdering
  <2> QED
    BY <1>3, <2>1, <2>2
<1>6. \A m \in S : n <= m
  BY <1>5
<1> QED
  BY <1>6

\* A set that is finite because another one is, and no larger.
LEMMA Larger ==
  ASSUME NEW S, NEW T, IsFiniteSet(T), S \subseteq T
  PROVE  /\ IsFiniteSet(S) /\ Cardinality(S) \in Nat /\ Cardinality(T) \in Nat
         /\ Cardinality(S) <= Cardinality(T)
BY FS_Subset, FS_CardinalityType

\* The two parts of a text.
LEMMA Parts ==
  ASSUME NEW s \in Seq(Chunk), NEW n \in 0..Len(s)
  PROVE  /\ Len(s) \in Nat
         /\ SubSeq(s, 1, n) \in Seq(Chunk) /\ Len(SubSeq(s, 1, n)) = n
         /\ \A i \in 1..n : SubSeq(s, 1, n)[i] = s[i]
         /\ SubSeq(s, n + 1, Len(s)) \in Seq(Chunk)
         /\ Len(SubSeq(s, n + 1, Len(s))) = Len(s) - n
         /\ \A i \in 1..Len(s) - n : SubSeq(s, n + 1, Len(s))[i] = s[n + i]
<1>1. Len(s) \in Nat /\ \A i \in 1..Len(s) : s[i] \in Chunk
  BY LenProperties, ElementOfSeq
<1>2. SubSeq(s, 1, n) \in Seq(Chunk) /\ Len(SubSeq(s, 1, n)) = n
      /\ \A i \in 1..n : SubSeq(s, 1, n)[i] = s[i]
  <2>1. \A i \in 1..n : s[i] \in Chunk
    BY <1>1
  <2> QED
    BY <1>1, <2>1, SubSeqProperties
<1>3. /\ SubSeq(s, n + 1, Len(s)) \in Seq(Chunk)
      /\ Len(SubSeq(s, n + 1, Len(s))) = IF n + 1 <= Len(s) THEN Len(s) - (n + 1) + 1 ELSE 0
      /\ \A i \in 1..Len(s) - (n + 1) + 1 :
            SubSeq(s, n + 1, Len(s))[i] = s[(n + 1) + i - 1]
  <2>1. \A i \in (n + 1)..Len(s) : s[i] \in Chunk
    BY <1>1
  <2> QED
    BY <1>1, <2>1, SubSeqProperties
<1>4. Len(s) - (n + 1) + 1 = Len(s) - n /\ \A i \in 1..Len(s) - n : (n + 1) + i - 1 = n + i
  BY <1>1
<1>5. \A i \in 1..Len(s) - n : SubSeq(s, n + 1, Len(s))[i] = s[n + i]
  BY <1>3, <1>4
<1>6. Len(SubSeq(s, n + 1, Len(s))) = Len(s) - n
  BY <1>1, <1>3
<1> QED
  BY <1>1, <1>2, <1>3, <1>5, <1>6

\* Two texts behind each other.
LEMMA Joined ==
  ASSUME NEW s \in Seq(Chunk), NEW t \in Seq(Chunk)
  PROVE  /\ s \o t \in Seq(Chunk) /\ Len(s) \in Nat /\ Len(t) \in Nat
         /\ Len(s \o t) = Len(s) + Len(t)
         /\ \A i \in 1..Len(s) : (s \o t)[i] = s[i]
         /\ \A i \in 1..Len(t) : (s \o t)[Len(s) + i] = t[i]
<1>1. Len(s) \in Nat /\ Len(t) \in Nat
  BY LenProperties
<1>2. /\ s \o t \in Seq(Chunk) /\ Len(s \o t) = Len(s) + Len(t)
      /\ \A i \in 1..Len(s) + Len(t) : (s \o t)[i] = IF i <= Len(s) THEN s[i] ELSE t[i - Len(s)]
  BY ConcatProperties
<1>3. \A i \in 1..Len(t) : /\ Len(s) + i \in 1..Len(s) + Len(t) /\ ~(Len(s) + i <= Len(s))
                           /\ (Len(s) + i) - Len(s) = i
  BY <1>1
<1>4. \A i \in 1..Len(t) : (s \o t)[Len(s) + i] = t[i]
  <2>1. \A i \in 1..Len(t) : (s \o t)[Len(s) + i] = t[(Len(s) + i) - Len(s)]
    BY <1>2, <1>3
  <2> QED
    BY <1>3, <2>1
<1> QED
  BY <1>1, <1>2, <1>4

\* What is written and what is left make the same whole before and after a write.
LEMMA SameWhole ==
  ASSUME NEW d \in Seq(Chunk), NEW t \in Seq(Chunk), NEW n \in 0..Len(t)
  PROVE  (d \o SubSeq(t, 1, n)) \o SubSeq(t, n + 1, Len(t)) = d \o t
<1>1. /\ Len(t) \in Nat
      /\ SubSeq(t, 1, n) \in Seq(Chunk) /\ SubSeq(t, n + 1, Len(t)) \in Seq(Chunk)
  BY Parts
<1>2. SubSeq(t, 1, n) \o SubSeq(t, n + 1, Len(t)) = SubSeq(t, 1, Len(t))
  <2>1. 1 \in 1..Len(t) + 1 /\ n \in 1 - 1..Len(t) /\ Len(t) \in n..Len(t)
    BY <1>1
  <2> QED
    BY <2>1, ConcatAdjacentSubSeq
<1>3. SubSeq(t, 1, Len(t)) = t
  BY SubSeqFull
<1> DEFINE u == SubSeq(t, 1, n)
           v == SubSeq(t, n + 1, Len(t))
<1>4. (d \o u) \o v = d \o (u \o v)
  <2>1. u \in Seq(Chunk) /\ v \in Seq(Chunk)
    BY <1>1
  <2> HIDE DEF u, v
  <2> QED
    BY <2>1, ConcatAssociative
<1> QED
  BY <1>2, <1>3, <1>4

\* Lines, and how many there are.
LEMMA LineTypes ==
  ASSUME NEW s \in Seq(Chunk)
  PROVE  IsFiniteSet(LineEnds(s)) /\ LineEnds(s) \subseteq 1..Len(s) /\ Ends(s) \in Nat
<1>1. Len(s) \in Nat
  BY LenProperties
<1>2. LineEnds(s) \subseteq 1..Len(s)
  BY DEF LineEnds
<1>3. IsFiniteSet(1..Len(s))
  BY <1>1, FS_Interval
<1> QED
  BY <1>2, <1>3, Larger DEF Ends

\* The beginning of a text has no more lines than the text.
LEMMA PrefixEnds ==
  ASSUME NEW s \in Seq(Chunk), NEW n \in 0..Len(s)
  PROVE  Ends(SubSeq(s, 1, n)) <= Ends(s)
<1>1. LineEnds(SubSeq(s, 1, n)) \subseteq LineEnds(s)
  BY Parts DEF LineEnds
<1> QED
  BY <1>1, LineTypes, Larger DEF Ends

\* What follows n chunks has no more lines than end there.
LEMMA SuffixEnds ==
  ASSUME NEW s \in Seq(Chunk), NEW n \in 0..Len(s)
  PROVE  Ends(SubSeq(s, n + 1, Len(s))) <= Cardinality({i \in LineEnds(s) : i > n})
<1> DEFINE t == SubSeq(s, n + 1, Len(s))
           T == {i \in LineEnds(s) : i > n}
<1>1. /\ Len(s) \in Nat /\ Len(t) = Len(s) - n
      /\ \A i \in 1..Len(s) - n : t[i] = s[n + i]
  BY Parts
<1>2. IsFiniteSet(T)
  BY LineTypes, FS_Subset
<1> HIDE DEF t
<1>3. \A i \in LineEnds(t) : i \in Int /\ n + i \in T
  BY <1>1 DEF LineEnds
<1> HIDE DEF T
<1>4. [i \in LineEnds(t) |-> n + i] \in Injection(LineEnds(t), T)
  BY <1>3, Fun_IsInj
<1> QED
  BY <1>2, <1>4, FS_Injection DEF Ends, t, T

\* Chunks of which at most the last ends a line, behind a text.
LEMMA JoinedEnds ==
  ASSUME NEW s \in Seq(Chunk), NEW t \in Seq(Chunk),
         \A i \in 1..Len(t) : EndsLine(t[i]) => i = Len(t)
  PROVE  /\ Ends(s \o t) <= Ends(s) + 1
         /\ (t # <<>> => ~EndsLine(t[Len(t)])) => Ends(s \o t) <= Ends(s)
<1>1. /\ s \o t \in Seq(Chunk) /\ Len(s) \in Nat /\ Len(t) \in Nat
      /\ Len(s \o t) = Len(s) + Len(t)
      /\ \A i \in 1..Len(s) : (s \o t)[i] = s[i]
      /\ \A i \in 1..Len(t) : (s \o t)[Len(s) + i] = t[i]
  BY Joined
<1>2. ASSUME NEW k \in LineEnds(s \o t)
      PROVE  k \in LineEnds(s) \/ (k = Len(s) + Len(t) /\ t # <<>> /\ EndsLine(t[Len(t)]))
  <2>1. k \in 1..Len(s) + Len(t) /\ EndsLine((s \o t)[k])
    BY <1>1 DEF LineEnds
  <2>2. CASE k <= Len(s)
    BY <1>1, <2>1, <2>2 DEF LineEnds
  <2>3. CASE ~(k <= Len(s))
    <3>1. k - Len(s) \in 1..Len(t) /\ Len(s) + (k - Len(s)) = k
      BY <1>1, <2>1, <2>3
    <3>2. EndsLine(t[k - Len(s)])
      BY <1>1, <2>1, <3>1
    <3>3. k - Len(s) = Len(t) /\ t # <<>>
      BY <3>1, <3>2, EmptySeq
    <3> QED
      BY <1>1, <2>1, <3>1, <3>2, <3>3
  <2> QED
    BY <2>2, <2>3
<1>3. IsFiniteSet(LineEnds(s)) /\ Ends(s) \in Nat
  BY LineTypes
<1>4. Ends(s \o t) <= Ends(s) + 1
  <2> DEFINE T == LineEnds(s) \cup {Len(s) + Len(t)}
  <2>1. IsFiniteSet(T) /\ Cardinality(T) <= Ends(s) + 1 /\ Cardinality(T) \in Nat
    <3>1. IsFiniteSet(T) /\ Cardinality(T) \in {Ends(s), Ends(s) + 1}
      BY <1>3, FS_AddElement DEF Ends
    <3> QED
      BY <1>3, <3>1
  <2>2. LineEnds(s \o t) \subseteq T
    BY <1>2
  <2> HIDE DEF T
  <2>3. Cardinality(LineEnds(s \o t)) \in Nat /\ Cardinality(LineEnds(s \o t)) <= Cardinality(T)
    BY <2>1, <2>2, Larger
  <2> QED
    BY <1>3, <2>1, <2>3 DEF Ends
<1>5. ASSUME t # <<>> => ~EndsLine(t[Len(t)]) PROVE Ends(s \o t) <= Ends(s)
  <2>1. LineEnds(s \o t) \subseteq LineEnds(s)
    BY <1>2, <1>5
  <2> QED
    BY <1>3, <2>1, Larger DEF Ends
<1> QED
  BY <1>4, <1>5

\* A record: chunks of one call, of which the last ends the line.
LEMMA RecordFacts ==
  ASSUME NEW c \in Calls
  PROVE  /\ Size(c) \in 1..LongSize
         /\ Record(c) \in Seq(Chunk) /\ Len(Record(c)) = Size(c)
         /\ \A i \in 1..Size(c) : Record(c)[i] = <<c, i>> /\ (EndsLine(<<c, i>>) <=> i = Size(c))
<1>1. Size(c) \in 1..LongSize
  BY HistoryAssumption DEF HistoryAssumption, Size
<1>2. Record(c) \in [1..Size(c) -> Chunk]
  BY DEF Record, Chunk
<1>3. Record(c) \in Seq(Chunk) /\ Len(Record(c)) = Size(c)
  BY <1>1, <1>2
<1>4. \A i \in 1..Size(c) : Record(c)[i] = <<c, i>>
  BY DEF Record
<1>5. \A i \in 1..Size(c) : EndsLine(<<c, i>>) <=> i = Size(c)
  BY DEF EndsLine
<1> QED
  BY <1>1, <1>3, <1>4, <1>5

\* A text that is closed is the text, and at most a line break.
LEMMA ClosedFacts ==
  ASSUME NEW s \in Seq(Chunk)
  PROVE  /\ Closed(s) \in Seq(Chunk) /\ Len(s) \in Nat /\ Len(Closed(s)) \in {Len(s), Len(s) + 1}
         /\ \A i \in 1..Len(s) : Closed(s)[i] = s[i]
         /\ Closed(s) = <<>> \/ (Len(Closed(s)) >= 1 /\ EndsLine(Closed(s)[Len(Closed(s))]))
<1>1. Len(s) \in Nat /\ (s # <<>> => Len(s) >= 1)
  BY LenProperties, EmptySeq
<1>2. CASE s = <<>> \/ EndsLine(s[Len(s)])
  BY <1>1, <1>2 DEF Closed
<1>3. CASE ~(s = <<>> \/ EndsLine(s[Len(s)]))
  <2>1. Closed(s) = Append(s, Break) /\ Break \in Chunk
    BY <1>3 DEF Closed, Chunk
  <2>2. EndsLine(Break)
    BY HistoryAssumption DEF HistoryAssumption, EndsLine, Break
  <2> QED
    BY <1>1, <2>1, <2>2
<1> QED
  BY <1>2, <1>3

\* What compaction retains: all behind the first line end that leaves room.
LEMMA RetainedFacts ==
  ASSUME NEW content \in Seq(Chunk)
  PROVE  LET s == Closed(content) IN
         \E n \in LineEnds(s) \cup {0} :
            /\ n \in 0..Len(s) /\ Retainable(s, n)
            /\ \A m \in LineEnds(s) \cup {0} : Retainable(s, m) => n <= m
            /\ Retained(content) = SubSeq(s, n + 1, Len(s))
<1> DEFINE s == Closed(content)
           S == {n \in LineEnds(s) \cup {0} : Retainable(s, n)}
<1>1. s \in Seq(Chunk) /\ Len(s) \in Nat
      /\ (s = <<>> \/ (Len(s) >= 1 /\ EndsLine(s[Len(s)])))
  BY ClosedFacts, LenProperties
<1>2. Retained(content) =
         LET n == CHOOSE n \in LineEnds(s) \cup {0} :
                     Retainable(s, n) /\ \A m \in LineEnds(s) \cup {0} : Retainable(s, m) => n <= m
         IN  SubSeq(s, n + 1, Len(s))
  BY DEF Retained
<1> HIDE DEF s
<1>3. LineEnds(s) \cup {0} \subseteq 0..Len(s) /\ Len(s) \in LineEnds(s) \cup {0}
  <2>1. Len(<<>>) = 0
    OBVIOUS
  <2> QED
    BY <1>1, <2>1 DEF LineEnds
<1>4. Retainable(s, Len(s))
  <2>1. {i \in LineEnds(s) : i > Len(s)} = {}
    BY <1>1, <1>3
  <2>2. Cardinality({i \in LineEnds(s) : i > Len(s)}) = 0
    BY <2>1, FS_EmptySet
  <2>3. Len(s) - Len(s) <= MaxBytes /\ 0 < MaxRecords
    BY <1>1, HistoryAssumption DEF HistoryAssumption
  <2> QED
    BY <2>2, <2>3 DEF Retainable
<1>5. S \subseteq Nat /\ S # {}
  BY <1>1, <1>3, <1>4
<1>6. PICK n \in S : \A m \in S : n <= m
  <2> HIDE DEF S
  <2> QED
    BY <1>5, Least
<1>7. \E k \in LineEnds(s) \cup {0} :
         Retainable(s, k) /\ \A m \in LineEnds(s) \cup {0} : Retainable(s, m) => k <= m
  BY <1>6
<1> DEFINE k == CHOOSE k \in LineEnds(s) \cup {0} :
              Retainable(s, k) /\ \A m \in LineEnds(s) \cup {0} : Retainable(s, m) => k <= m
<1>8. k \in LineEnds(s) \cup {0} /\ Retainable(s, k)
      /\ \A m \in LineEnds(s) \cup {0} : Retainable(s, m) => k <= m
  BY <1>7
<1>9. Retained(content) = SubSeq(s, k + 1, Len(s))
  BY <1>2
<1> HIDE DEF k
<1> QED
  BY <1>3, <1>8, <1>9 DEF s

\* It is within the bounds, with a place kept free.
LEMMA RetainedFits ==
  ASSUME NEW content \in Seq(Chunk)
  PROVE  /\ Retained(content) \in Seq(Chunk) /\ Len(Retained(content)) <= MaxBytes
         /\ Ends(Retained(content)) < MaxRecords
<1> DEFINE s == Closed(content)
<1>1. s \in Seq(Chunk)
  BY ClosedFacts
<1>2. PICK n \in 0..Len(s) : Retainable(s, n) /\ Retained(content) = SubSeq(s, n + 1, Len(s))
  BY RetainedFacts
<1> HIDE DEF s
<1>3. Retained(content) \in Seq(Chunk) /\ Len(Retained(content)) = Len(s) - n
  BY <1>1, <1>2, Parts
<1>4. Ends(Retained(content)) <= Cardinality({i \in LineEnds(s) : i > n})
      /\ Ends(Retained(content)) \in Nat
  BY <1>1, <1>2, <1>3, SuffixEnds, LineTypes
<1>5. Cardinality({i \in LineEnds(s) : i > n}) \in Nat
  BY <1>1, LineTypes, FS_Subset, FS_CardinalityType
<1> QED
  BY <1>2, <1>3, <1>4, <1>5, HistoryAssumption DEF Retainable, HistoryAssumption

-----------------------------------------------------------------------------
(* Types, and who writes what. *)

BaseInv == TypeOK /\ OwnOK /\ TextOK /\ OverlapOK

\* The files before the first capture.
LEMMA InitBase == Init => BaseInv
<1> SUFFICES ASSUME Init PROVE BaseInv
  OBVIOUS
<1> USE StorageAssumption, HistoryAssumption DEF StorageAssumption, HistoryAssumption, Files
<1>1. PICK n \in 0..(MaxRecords + 1) \cup {OldMax} :
         file = [f \in Files |-> IF f = Original
                   THEN [data |-> [i \in 1..n |-> Old(i)], synced |-> Len([i \in 1..n |-> Old(i)])]
                   ELSE Empty]
  BY DEF Init, StorageInit
<1> DEFINE old == [i \in 1..n |-> Old(i)]
<1>2. old \in Seq(Chunk) /\ Len(old) = n /\ n \in Nat
  <2>1. n \in Nat /\ n <= OldMax + MaxRecords
    BY DEF OldMax
  <2>2. old \in [1..n -> Chunk]
    BY <2>1 DEF Chunk, OldMax
  <2> QED
    BY <2>1, <2>2
<1>3. /\ named = Original /\ entry = Original /\ overlapped = {}
      /\ pc = [c \in Calls |-> "start"] /\ fd = [c \in Calls |-> Original]
      /\ text = [c \in Calls |-> <<>>]
  BY DEF Init, StorageInit
<1>4. file[Original] = [data |-> old, synced |-> n] /\ \A c \in Calls : file[c] = Empty
  BY <1>1, <1>2
<1>5. <<>> \in Seq(Chunk) /\ Len(<<>>) = 0
  BY EmptySeq
<1> HIDE DEF old
<1>6. StorageOK(Chunk)
  <2>1. file \in [Files -> [data : Seq(Chunk), synced : Nat]]
    BY <1>1, <1>2, <1>5 DEF old, Empty
  <2> QED
    BY <1>2, <1>3, <1>4, <1>5, <2>1 DEF StorageOK, Steps, Empty
<1>7. TypeOK
  BY <1>3, <1>6 DEF TypeOK
<1>8. OwnOK /\ TextOK
  BY <1>3, <1>4 DEF OwnOK, TextOK, Empty
<1>9. OverlapOK
  <2>1. Active = {}
    BY <1>3 DEF Active
  <2> QED
    BY <1>3, <2>1, FS_EmptySet DEF OverlapOK
<1> QED
  BY <1>7, <1>8, <1>9 DEF BaseInv

\* A step that begins nothing.
LEMMA NoneBegins ==
  ASSUME TypeOK, OverlapOK, overlapped' = overlapped,
         \A c \in Calls : /\ pc'[c] \notin Ended \cup {"start"} => pc[c] \notin Ended \cup {"start"}
                          /\ pc'[c] = "start" => pc[c] = "start"
  PROVE  OverlapOK' /\ Active' \subseteq Active
<1>1. Active' \subseteq Active
  BY DEF Active
<1>2. IsFiniteSet(Active')
  BY <1>1, FS_Subset DEF OverlapOK
<1>3. \A c \in overlapped' : pc'[c] # "start"
  <2>1. overlapped \subseteq Calls
    BY DEF TypeOK
  <2> QED
    BY <2>1 DEF OverlapOK
<1> QED
  BY <1>1, <1>2, <1>3 DEF OverlapOK

\* What is left of a record while it is written.
LEMMA TextLeft ==
  ASSUME BaseInv, NEW c \in Calls, pc[c] \in {"open", "write"}
  PROVE  /\ Len(text[c]) \in 0..Size(c) /\ text[c] \in Seq(Chunk) /\ Len(text[c]) <= LongSize
         /\ \A i \in 1..Len(text[c]) : text[c][i] = <<c, Size(c) - Len(text[c]) + i>>
         /\ \A i \in 1..Len(text[c]) : EndsLine(text[c][i]) <=> i = Len(text[c])
<1>1. text[c] \in Seq(Chunk) /\ Len(text[c]) \in Nat
  BY LenProperties DEF BaseInv, TypeOK, StorageOK
<1>2. /\ Len(text[c]) <= Size(c)
      /\ \A i \in 1..Len(text[c]) : text[c][i] = <<c, Size(c) - Len(text[c]) + i>>
  BY DEF BaseInv, TextOK
<1>3. Size(c) \in 1..LongSize /\ LongSize \in Nat
      /\ \A i \in 1..Size(c) : EndsLine(<<c, i>>) <=> i = Size(c)
  BY RecordFacts, HistoryAssumption DEF HistoryAssumption
<1>4. ASSUME NEW i \in 1..Len(text[c]) PROVE EndsLine(text[c][i]) <=> i = Len(text[c])
  <2>1. Size(c) - Len(text[c]) + i \in 1..Size(c)
    BY <1>1, <1>2, <1>3
  <2>2. EndsLine(text[c][i]) <=> Size(c) - Len(text[c]) + i = Size(c)
    BY <1>2, <1>3, <2>1
  <2> QED
    BY <1>1, <1>3, <2>2
<1> QED
  BY <1>1, <1>2, <1>3, <1>4

\* What one write does to a file and to the text that is left.
LEMMA WriteEffect ==
  ASSUME BaseInv, NEW c \in Calls, Write(c)
  PROVE  /\ pc[c] \in {"write", "stage"} /\ UNCHANGED <<named, entry, pc, fd>>
         /\ \E n \in 1..Len(text[c]) :
               /\ file'[fd[c]].data = file[fd[c]].data \o SubSeq(text[c], 1, n)
               /\ text'[c] = SubSeq(text[c], n + 1, Len(text[c]))
         /\ file'[fd[c]].synced = file[fd[c]].synced
         /\ \A g \in Files \ {fd[c]} : file'[g] = file[g]
         /\ \A e \in Calls \ {c} : text'[e] = text[e]
         /\ file' \in [Files -> [data : Seq(Chunk), synced : Nat]] /\ text' \in [Calls -> Seq(Chunk)]
<1> DEFINE f == fd[c]
           d == file[f].data
           t == text[c]
<1>1. PICK n \in 1..Len(t) :
         /\ file' = [file EXCEPT ![f].data = @ \o SubSeq(t, 1, n)]
         /\ text' = [text EXCEPT ![c] = SubSeq(@, n + 1, Len(@))]
  BY DEF Write
<1>2. pc[c] \in {"write", "stage"} /\ UNCHANGED <<named, entry, pc, fd>>
  BY DEF Write
<1>3. /\ f \in Files /\ d \in Seq(Chunk) /\ t \in Seq(Chunk)
      /\ file \in [Files -> [data : Seq(Chunk), synced : Nat]] /\ text \in [Calls -> Seq(Chunk)]
  BY DEF BaseInv, TypeOK, StorageOK
<1>4. f = fd[c] /\ d = file[f].data /\ t = text[c]
  OBVIOUS
<1> DEFINE u == SubSeq(t, 1, n)
           t2 == SubSeq(t, n + 1, Len(t))
<1>5. n \in 0..Len(t) /\ Len(t) \in Nat
  BY <1>3, LenProperties
<1>6. u \in Seq(Chunk) /\ t2 \in Seq(Chunk)
  BY <1>3, <1>5, Parts
<1> DEFINE d2 == d \o u
<1>7. d2 \in Seq(Chunk)
  <2> HIDE DEF d, u
  <2> QED
    BY <1>3, <1>6, Joined
<1>8. file' = [file EXCEPT ![f] = [data |-> d2, synced |-> file[f].synced]]
  <2> HIDE DEF f
  <2>1. file[f] \in [data : Seq(Chunk), synced : Nat]
    BY <1>3
  <2>2. [file[f] EXCEPT !.data = d2] = [data |-> d2, synced |-> file[f].synced]
    <3> HIDE DEF d2
    <3> QED
      BY <2>1
  <2>3. file' = [file EXCEPT ![f] = [file[f] EXCEPT !.data = d2]]
    BY <1>1, <1>3
  <2> QED
    BY <2>2, <2>3
<1>9. text' = [text EXCEPT ![c] = t2]
  BY <1>1, <1>3
<1>10. /\ file'[f].data = d2 /\ file'[f].synced = file[f].synced /\ text'[c] = t2
       /\ \A g \in Files \ {f} : file'[g] = file[g]
       /\ \A e \in Calls \ {c} : text'[e] = text[e]
       /\ file' \in [Files -> [data : Seq(Chunk), synced : Nat]] /\ text' \in [Calls -> Seq(Chunk)]
  <2> HIDE DEF d2, t2, f
  <2> QED
    BY <1>3, <1>6, <1>7, <1>8, <1>9
<1> QED
  BY <1>2, <1>10

\* Opening, syncing, renaming: no text moves.
LEMMA QuietBase ==
  ASSUME BaseInv, NEW c \in Calls, overlapped' = overlapped,
         Open(c) \/ SyncFile(c) \/ Rename(c) \/ SyncDirectory(c)
  PROVE  BaseInv' /\ Active' \subseteq Active
<1>1. TypeOK /\ OwnOK /\ TextOK /\ OverlapOK /\ c \in Files
  BY DEF BaseInv, Files
<1>2. CASE Open(c)
  <2>1. /\ pc[c] = "open" /\ pc' = [pc EXCEPT ![c] = "write"] /\ fd' = [fd EXCEPT ![c] = named]
        /\ UNCHANGED <<file, named, entry, text>>
    BY <1>2 DEF Open, At, Goto
  <2>2. TypeOK' /\ OwnOK'
    BY <1>1, <2>1 DEF TypeOK, StorageOK, OwnOK, Steps, Ended
  <2>3. TextOK' /\ OverlapOK' /\ Active' \subseteq Active
    BY <1>1, <2>1, NoneBegins DEF TypeOK, StorageOK, TextOK, Ended
  <2> QED
    BY <2>2, <2>3 DEF BaseInv
<1>3. CASE SyncFile(c)
  <2>1. /\ \/ pc[c] = "write" /\ pc' = [pc EXCEPT ![c] = "ok"]
           \/ pc[c] = "stage" /\ pc' = [pc EXCEPT ![c] = "rename"]
        /\ file' = [file EXCEPT ![fd[c]] = Flushed(@)] /\ entry' \in {named, entry}
        /\ UNCHANGED <<named, fd, text>>
    BY <1>3 DEF SyncFile, At, Goto
  <2>2. TypeOK'
    <3>1. \A f \in Files : Flushed(file[f]) \in [data : Seq(Chunk), synced : Nat]
                           /\ Flushed(file[f]).data = file[f].data
                           /\ Flushed(file[f]).synced = Len(file[f].data)
      BY <1>1, LenProperties DEF TypeOK, StorageOK, Flushed
    <3>2. file' \in [Files -> [data : Seq(Chunk), synced : Nat]]
          /\ \A f \in Files : file'[f] \in {file[f], Flushed(file[f])}
      BY <1>1, <2>1, <3>1 DEF TypeOK, StorageOK
    <3>3. \A f \in Files : file'[f].synced <= Len(file'[f].data)
      <4>1. ASSUME NEW f \in Files PROVE file'[f].synced <= Len(file'[f].data)
        <5>1. file[f].synced <= Len(file[f].data) /\ Len(file[f].data) \in Nat
          BY <1>1, LenProperties DEF TypeOK, StorageOK
        <5>2. CASE file'[f] = file[f]
          BY <5>1, <5>2
        <5>3. CASE file'[f] = Flushed(file[f])
          BY <3>1, <5>1, <5>3
        <5> QED
          BY <3>2, <5>2, <5>3
      <4> QED
        BY <4>1
    <3> QED
      BY <1>1, <2>1, <3>2, <3>3 DEF TypeOK, StorageOK, Steps, Ended
  <2>3. OwnOK'
    <3>1. \A f \in Files : file'[f].data = file[f].data
      BY <1>1, <2>1 DEF TypeOK, StorageOK, Flushed
    <3>2. named' = named /\ fd' = fd /\ entry' \in {named, entry} /\ Calls \subseteq Files
          /\ \A e \in Calls \ {c} : pc'[e] = pc[e]
      BY <1>1, <2>1 DEF TypeOK, StorageOK, Files
    <3>3. \/ pc[c] = "write" /\ pc'[c] = "ok"
          \/ pc[c] = "stage" /\ pc'[c] = "rename"
      BY <1>1, <2>1 DEF TypeOK, StorageOK
    <3> QED
      BY <1>1, <3>1, <3>2, <3>3 DEF OwnOK
  <2>4. TextOK' /\ OverlapOK' /\ Active' \subseteq Active
    BY <1>1, <2>1, NoneBegins DEF TypeOK, StorageOK, TextOK, Ended
  <2> QED
    BY <2>2, <2>3, <2>4 DEF BaseInv
<1>4. CASE Rename(c) \/ SyncDirectory(c)
  <2>1. /\ \/ pc[c] = "rename" /\ pc' = [pc EXCEPT ![c] = "syncdir"] /\ named' = c /\ entry' = entry
           \/ pc[c] = "syncdir" /\ pc' = [pc EXCEPT ![c] = "ok"] /\ named' = named /\ entry' = named
        /\ UNCHANGED <<file, fd, text>>
    BY <1>4 DEF Rename, RenameDue, SyncDirectory, At, Goto
  <2>2. TypeOK'
    BY <1>1, <2>1 DEF TypeOK, StorageOK, Steps, Ended
  <2>3. OwnOK'
    BY <1>1, <2>1 DEF TypeOK, StorageOK, OwnOK
  <2>4. TextOK' /\ OverlapOK' /\ Active' \subseteq Active
    BY <1>1, <2>1, NoneBegins DEF TypeOK, StorageOK, TextOK, Ended
  <2> QED
    BY <2>2, <2>3, <2>4 DEF BaseInv
<1> QED
  BY <1>2, <1>3, <1>4

\* A write.
LEMMA WriteBase ==
  ASSUME BaseInv, NEW c \in Calls, overlapped' = overlapped, Write(c)
  PROVE  BaseInv' /\ Active' = Active
<1>1. TypeOK /\ OwnOK /\ TextOK /\ OverlapOK /\ Calls \subseteq Files /\ fd[c] \in Files
  BY DEF BaseInv, Files, TypeOK, StorageOK
<1>2. /\ pc[c] \in {"write", "stage"} /\ UNCHANGED <<named, entry, pc, fd>>
      /\ file'[fd[c]].synced = file[fd[c]].synced
      /\ \A g \in Files \ {fd[c]} : file'[g] = file[g]
      /\ \A e \in Calls \ {c} : text'[e] = text[e]
      /\ file' \in [Files -> [data : Seq(Chunk), synced : Nat]] /\ text' \in [Calls -> Seq(Chunk)]
  BY WriteEffect
<1>3. PICK n \in 1..Len(text[c]) :
         /\ file'[fd[c]].data = file[fd[c]].data \o SubSeq(text[c], 1, n)
         /\ text'[c] = SubSeq(text[c], n + 1, Len(text[c]))
  BY WriteEffect
<1>4. /\ text[c] \in Seq(Chunk) /\ file[fd[c]].data \in Seq(Chunk) /\ Len(text[c]) \in Nat
      /\ n \in 0..Len(text[c])
  BY <1>1, LenProperties DEF TypeOK, StorageOK
<1>5. /\ Len(text'[c]) = Len(text[c]) - n
      /\ \A i \in 1..Len(text[c]) - n : text'[c][i] = text[c][n + i]
      /\ SubSeq(text[c], 1, n) \in Seq(Chunk)
  BY <1>3, <1>4, Parts
<1>6. TypeOK'
  <2>1. Len(file[fd[c]].data) <= Len(file'[fd[c]].data)
    BY <1>3, <1>4, <1>5, Joined
  <2>2. \A f \in Files : file'[f].synced <= Len(file'[f].data)
    <3>1. Len(file[fd[c]].data) \in Nat /\ Len(file'[fd[c]].data) \in Nat /\ file[fd[c]].synced \in Nat
          /\ file[fd[c]].synced <= Len(file[fd[c]].data)
      BY <1>1, <1>2, LenProperties DEF TypeOK, StorageOK
    <3>2. file'[fd[c]].synced <= Len(file'[fd[c]].data)
      BY <1>2, <2>1, <3>1
    <3> QED
      BY <1>1, <1>2, <3>2 DEF TypeOK, StorageOK
  <2> QED
    BY <1>1, <1>2, <2>2 DEF TypeOK, StorageOK
<1>7. OwnOK'
  <2>1. \A e \in Calls : pc[e] = "start" => e # fd[c]
    BY <1>1, <1>2 DEF OwnOK
  <2> QED
    BY <1>1, <1>2, <2>1 DEF OwnOK
<1>8. TextOK'
  <2>1. ASSUME pc[c] = "write"
        PROVE  /\ Len(text'[c]) <= Size(c)
               /\ \A i \in 1..Len(text'[c]) : text'[c][i] = <<c, Size(c) - Len(text'[c]) + i>>
    <3>1. Len(text[c]) \in 0..Size(c) /\ Size(c) \in Nat
          /\ \A i \in 1..Len(text[c]) : text[c][i] = <<c, Size(c) - Len(text[c]) + i>>
      BY <2>1, TextLeft, RecordFacts
    <3>2. \A i \in 1..Len(text'[c]) :
             n + i \in 1..Len(text[c]) /\ Size(c) - Len(text[c]) + (n + i) = Size(c) - Len(text'[c]) + i
      BY <1>4, <1>5, <3>1
    <3>3. \A i \in 1..Len(text'[c]) : text'[c][i] = <<c, Size(c) - Len(text[c]) + (n + i)>>
      BY <1>5, <3>1, <3>2
    <3>4. Len(text'[c]) <= Size(c)
      BY <1>4, <1>5, <3>1
    <3> QED
      BY <3>2, <3>3, <3>4
  <2>2. ASSUME NEW e \in Calls, pc'[e] \in {"open", "write"}
        PROVE  /\ Len(text'[e]) <= Size(e)
               /\ \A i \in 1..Len(text'[e]) : text'[e][i] = <<e, Size(e) - Len(text'[e]) + i>>
    <3>1. CASE e = c
      BY <1>2, <2>1, <2>2, <3>1
    <3>2. CASE e # c
      <4>1. pc[e] \in {"open", "write"} /\ text'[e] = text[e]
        BY <1>2, <2>2, <3>2
      <4> QED
        BY <1>1, <4>1 DEF TextOK
    <3> QED
      BY <3>1, <3>2
  <2> QED
    BY <2>2 DEF TextOK
<1>9. OverlapOK' /\ Active' = Active
  BY <1>1, <1>2 DEF OverlapOK, Active
<1> QED
  BY <1>6, <1>7, <1>8, <1>9 DEF BaseInv

\* A call that fails or is killed.
LEMMA EndBase ==
  ASSUME BaseInv, NEW c \in Calls, overlapped' = overlapped, Fail(c) \/ Crash(c)
  PROVE  BaseInv' /\ Active' \subseteq Active
<1>1. TypeOK /\ OwnOK /\ TextOK /\ OverlapOK /\ c \in Files
  BY DEF BaseInv, Files
<1>2. /\ pc[c] \notin Ended /\ \E e \in {"failed", "dead"} : pc' = [pc EXCEPT ![c] = e]
      /\ text' = [text EXCEPT ![c] = <<>>] /\ UNCHANGED <<named, entry, fd>>
      /\ \/ file' = file
         \/ pc[c] \in {"stage", "rename"} /\ file' = [file EXCEPT ![c] = Empty]
  BY DEF Fail, Crash, Goto
<1>3. TypeOK'
  <2>1. <<>> \in Seq(Chunk) /\ Empty \in [data : Seq(Chunk), synced : Nat]
        /\ Empty.synced <= Len(Empty.data)
    BY EmptySeq DEF Empty
  <2> HIDE DEF Empty
  <2>2. /\ file' \in [Files -> [data : Seq(Chunk), synced : Nat]]
        /\ \A f \in Files : file'[f].synced <= Len(file'[f].data)
    <3>1. /\ file \in [Files -> [data : Seq(Chunk), synced : Nat]]
          /\ \A f \in Files : file[f].synced <= Len(file[f].data)
      BY <1>1 DEF TypeOK, StorageOK
    <3>2. CASE file' = [file EXCEPT ![c] = Empty]
      <4>1. file'[c] = Empty /\ \A f \in Files \ {c} : file'[f] = file[f]
        BY <1>1, <3>1, <3>2
      <4> QED
        BY <2>1, <3>1, <3>2, <4>1
    <3> QED
      BY <1>2, <3>1, <3>2
  <2>3. pc' \in [Calls -> Steps] /\ text' \in [Calls -> Seq(Chunk)]
    BY <1>1, <1>2, <2>1 DEF TypeOK, StorageOK, Steps, Ended
  <2> QED
    BY <1>1, <1>2, <2>2, <2>3 DEF TypeOK, StorageOK
<1>4. OwnOK'
  BY <1>1, <1>2 DEF TypeOK, StorageOK, OwnOK, Files
<1>5. TextOK'
  BY <1>1, <1>2 DEF TypeOK, StorageOK, TextOK
<1>6. OverlapOK' /\ Active' \subseteq Active
  BY <1>1, <1>2, NoneBegins DEF TypeOK, StorageOK, Ended
<1> QED
  BY <1>3, <1>4, <1>5, <1>6 DEF BaseInv

\* A power loss.
LEMMA PowerBase ==
  ASSUME BaseInv, overlapped' = overlapped, PowerLoss
  PROVE  /\ BaseInv' /\ Active' = {} /\ named' = entry /\ entry' = entry
         /\ \E n \in file[entry].synced..Len(file[entry].data) :
               /\ file'[entry].data = SubSeq(file[entry].data, 1, n)
               /\ file'[entry].synced = n
         /\ \A f \in Files \ {entry} : file'[f] = file[f]
         /\ \A c \in Calls : pc'[c] = IF pc[c] \in Ended \cup {"start"} THEN pc[c] ELSE "dead"
<1>1. TypeOK /\ OwnOK /\ TextOK /\ OverlapOK /\ Calls \subseteq Files /\ entry \in Files
  BY DEF BaseInv, Files, TypeOK, StorageOK
<1>2. PICK n \in file[entry].synced..Len(file[entry].data) :
         file' = [file EXCEPT ![entry] = [data |-> SubSeq(@.data, 1, n), synced |-> n]]
  BY DEF PowerLoss
<1>3. /\ named' = entry /\ entry' = entry /\ fd' = fd /\ text' = [c \in Calls |-> <<>>]
      /\ pc' = [c \in Calls |-> IF pc[c] \in Ended \cup {"start"} THEN pc[c] ELSE "dead"]
  BY DEF PowerLoss
<1> DEFINE d == SubSeq(file[entry].data, 1, n)
<1>4. n \in Nat /\ n \in 0..Len(file[entry].data) /\ file[entry].data \in Seq(Chunk)
  BY <1>1, LenProperties DEF TypeOK, StorageOK
<1>5. d \in Seq(Chunk) /\ Len(d) = n
  BY <1>4, Parts
<1> HIDE DEF d
<1>6. file' = [file EXCEPT ![entry] = [data |-> d, synced |-> n]]
  BY <1>1, <1>2 DEF d, TypeOK, StorageOK
<1>7. TypeOK'
  <2>1. <<>> \in Seq(Chunk)
    BY EmptySeq
  <2>2. /\ file' \in [Files -> [data : Seq(Chunk), synced : Nat]]
        /\ \A f \in Files : file'[f].synced <= Len(file'[f].data)
    BY <1>1, <1>4, <1>5, <1>6 DEF TypeOK, StorageOK
  <2>3. pc' \in [Calls -> Steps]
    BY <1>1, <1>3 DEF TypeOK, StorageOK, Steps, Ended
  <2>4. text' \in [Calls -> Seq(Chunk)]
    BY <1>3, <2>1
  <2> QED
    BY <1>1, <1>3, <2>2, <2>3, <2>4 DEF TypeOK, StorageOK
<1>8. OwnOK' /\ TextOK'
  BY <1>1, <1>3, <1>6 DEF TypeOK, StorageOK, OwnOK, TextOK, Ended
<1>9. OverlapOK' /\ Active' = {}
  <2>1. Active' = {}
    BY <1>3 DEF Active, Ended
  <2> QED
    BY <1>1, <1>3, <2>1, NoneBegins DEF Ended
<1> QED
  BY <1>1, <1>2, <1>3, <1>5, <1>6, <1>7, <1>8, <1>9 DEF BaseInv, TypeOK, StorageOK, d

\* What a capture that begins decides on.
LEMMA BeginEffect ==
  ASSUME BaseInv, NEW c \in Calls, Begin(c)
  PROVE  /\ pc[c] = "start" /\ UNCHANGED <<file, named, entry>>
         /\ overlapped' = IF Active = {} THEN overlapped ELSE overlapped \cup Active \cup {c}
         /\ \/ /\ pc' = [pc EXCEPT ![c] = "open"] /\ text' = [text EXCEPT ![c] = Record(c)]
               /\ fd' = fd
               /\ Len(Content) <= 4 * MaxBytes /\ Retained(Content) = Content
               /\ Ends(Content) < MaxRecords /\ Len(Content) + Size(c) <= MaxBytes
            \/ \E kept \in {Retained(Content), <<>>} :
                  /\ kept = Retained(Content) \/ Len(Content) > 4 * MaxBytes
                  /\ pc' = [pc EXCEPT ![c] = "stage"] /\ fd' = [fd EXCEPT ![c] = c]
                  /\ text' = [text EXCEPT ![c] = kept \o Record(c)]
<1> DEFINE readable == Len(Content) <= 4 * MaxBytes
           retained == IF readable THEN Retained(Content) ELSE <<>>
           compact  == \/ ~readable
                       \/ retained # Content
                       \/ Cardinality(LineEnds(Content)) >= MaxRecords
                       \/ Len(retained) + Size(c) > MaxBytes
<1>1. /\ pc[c] = "start"
      /\ \/ (compact \/ Absent) /\ StartReplace(c, retained \o Record(c))
         \/ ~compact /\ StartAppend(c, Record(c))
      /\ overlapped' = IF Active = {} THEN overlapped ELSE overlapped \cup Active \cup {c}
  BY DEF Begin, At
<1>2. Content \in Seq(Chunk) /\ Len(Content) \in Nat /\ Ends(Content) \in Nat
      /\ MaxRecords \in Nat /\ MaxBytes \in Nat /\ Size(c) \in Nat
  <2>1. Content \in Seq(Chunk)
    BY DEF BaseInv, TypeOK, StorageOK, Content
  <2> QED
    BY <2>1, LenProperties, LineTypes, RecordFacts, HistoryAssumption DEF HistoryAssumption
<1>3. CASE StartReplace(c, retained \o Record(c))
  <2>1. retained \in {Retained(Content), <<>>} /\ (retained = Retained(Content) \/ Len(Content) > 4 * MaxBytes)
    BY <1>2
  <2> HIDE DEF retained
  <2>2. /\ pc' = [pc EXCEPT ![c] = "stage"] /\ fd' = [fd EXCEPT ![c] = c]
        /\ text' = [text EXCEPT ![c] = retained \o Record(c)] /\ UNCHANGED <<file, named, entry>>
    BY <1>3 DEF StartReplace, Goto
  <2> QED
    BY <1>1, <2>1, <2>2
<1>4. CASE ~compact /\ StartAppend(c, Record(c))
  <2>1. readable /\ retained = Content /\ Ends(Content) < MaxRecords /\ Len(retained) + Size(c) <= MaxBytes
    <3> HIDE DEF readable, retained
    <3>1. Len(retained) \in Nat \/ retained # Content
      BY <1>2
    <3> QED
      BY <1>2, <1>4, <3>1 DEF Ends
  <2>2. retained = Retained(Content)
    BY <2>1
  <2> HIDE DEF retained
  <2>3. /\ pc' = [pc EXCEPT ![c] = "open"] /\ text' = [text EXCEPT ![c] = Record(c)]
        /\ UNCHANGED <<file, named, entry, fd>>
    BY <1>4 DEF StartAppend, Goto
  <2> QED
    BY <1>1, <2>1, <2>2, <2>3
<1> QED
  BY <1>1, <1>3, <1>4

\* A capture begins.
LEMMA BeginBase ==
  ASSUME BaseInv, NEW c \in Calls, Begin(c)
  PROVE  BaseInv' /\ Active' = Active \cup {c} /\ overlapped \subseteq overlapped'
         /\ c \notin overlapped
         /\ overlapped' = IF Active = {} THEN overlapped ELSE overlapped \cup Active \cup {c}
<1>1. TypeOK /\ OwnOK /\ TextOK /\ OverlapOK /\ Calls \subseteq Files
  BY DEF BaseInv, Files
<1>2. /\ pc[c] = "start" /\ UNCHANGED <<file, named, entry>>
      /\ overlapped' = IF Active = {} THEN overlapped ELSE overlapped \cup Active \cup {c}
  BY BeginEffect
<1>3. \E step \in {"open", "stage"}, t \in Seq(Chunk) :
         /\ pc' = [pc EXCEPT ![c] = step] /\ text' = [text EXCEPT ![c] = t]
         /\ fd' = IF step = "open" THEN fd ELSE [fd EXCEPT ![c] = c]
         /\ step = "open" => t = Record(c)
  <2>1. Content \in Seq(Chunk)
    BY <1>1 DEF TypeOK, StorageOK, Content
  <2>2. Record(c) \in Seq(Chunk) /\ Retained(Content) \o Record(c) \in Seq(Chunk)
        /\ <<>> \o Record(c) \in Seq(Chunk)
    BY <2>1, RecordFacts, RetainedFits, ConcatProperties, EmptySeq
  <2>3. CASE /\ pc' = [pc EXCEPT ![c] = "open"] /\ text' = [text EXCEPT ![c] = Record(c)]
             /\ fd' = fd
    BY <2>2, <2>3
  <2>4. CASE \E kept \in {Retained(Content), <<>>} :
                /\ pc' = [pc EXCEPT ![c] = "stage"] /\ fd' = [fd EXCEPT ![c] = c]
                /\ text' = [text EXCEPT ![c] = kept \o Record(c)]
    BY <2>2, <2>4
  <2> QED
    BY <2>3, <2>4, BeginEffect
<1>4. PICK step \in {"open", "stage"}, t \in Seq(Chunk) :
         /\ pc' = [pc EXCEPT ![c] = step] /\ text' = [text EXCEPT ![c] = t]
         /\ fd' = IF step = "open" THEN fd ELSE [fd EXCEPT ![c] = c]
         /\ step = "open" => t = Record(c)
  BY <1>3
<1>5. Active \subseteq Calls /\ overlapped \subseteq Calls
  BY <1>1 DEF Active, TypeOK
<1>6. TypeOK'
  BY <1>1, <1>2, <1>4, <1>5 DEF TypeOK, StorageOK, Steps, Ended
<1>7. OwnOK'
  BY <1>1, <1>2, <1>4 DEF TypeOK, StorageOK, OwnOK
<1>8. TextOK'
  <2>1. pc'[c] = "open" => text'[c] = Record(c)
    BY <1>1, <1>4 DEF TypeOK, StorageOK
  <2>2. \A e \in Calls \ {c} : pc'[e] = pc[e] /\ text'[e] = text[e]
    BY <1>1, <1>4 DEF TypeOK, StorageOK
  <2>3. Len(Record(c)) = Size(c) /\ Size(c) \in Nat
        /\ \A i \in 1..Size(c) : Record(c)[i] = <<c, Size(c) - Size(c) + i>>
    <3>1. Size(c) \in Nat /\ \A i \in 1..Size(c) : Size(c) - Size(c) + i = i
      BY RecordFacts, HistoryAssumption DEF HistoryAssumption
    <3> QED
      BY <3>1, RecordFacts
  <2>4. pc'[c] # "write"
    BY <1>1, <1>4 DEF TypeOK, StorageOK
  <2> QED
    BY <1>1, <2>1, <2>2, <2>3, <2>4 DEF TextOK
<1>9. Active' = Active \cup {c}
  BY <1>1, <1>4 DEF TypeOK, StorageOK, Active, Ended
<1>10. OverlapOK' /\ overlapped \subseteq overlapped' /\ c \notin overlapped
  <2>1. IsFiniteSet(Active') /\ IsFiniteSet(overlapped')
    BY <1>1, <1>2, <1>9, FS_AddElement, FS_Union DEF OverlapOK
  <2>2. \A e \in overlapped' : pc'[e] # "start"
    BY <1>1, <1>2, <1>4, <1>5 DEF TypeOK, StorageOK, OverlapOK, Active
  <2> QED
    BY <1>1, <1>2, <2>1, <2>2 DEF OverlapOK
<1> QED
  BY <1>2, <1>6, <1>7, <1>8, <1>9, <1>10 DEF BaseInv

-----------------------------------------------------------------------------
(* The excess. *)

\* What is measured of a file is a number.
LEMMA Measures ==
  ASSUME BaseInv, NEW f \in Files
  PROVE  /\ Whole(f) \in Seq(Chunk) /\ Len(Whole(f)) \in Nat /\ Ends(Whole(f)) \in Nat
         /\ Due(f) \subseteq Active /\ IsFiniteSet(Due(f)) /\ Cardinality(Due(f)) \in Nat
         /\ IsFiniteSet(Left(f)) /\ Cardinality(Left(f)) \in Nat
         /\ Size(f) \in Nat /\ LongSize \in Nat /\ MaxRecords \in Nat /\ MaxBytes \in Nat
         /\ IsFiniteSet(overlapped) /\ Cardinality(overlapped) \in Nat
<1>1. TypeOK /\ OverlapOK
  BY DEF BaseInv
<1>2. Whole(f) \in Seq(Chunk)
  <2>1. /\ file[f].data \in Seq(Chunk)
        /\ f \in Calls => text[f] \in Seq(Chunk) /\ file[f].data \o text[f] \in Seq(Chunk)
    BY <1>1, ConcatProperties DEF TypeOK, StorageOK
  <2> QED
    BY <2>1 DEF Whole
<1>3. Due(f) \subseteq Active
  BY DEF Due, Active, Ended
<1>4. IsFiniteSet(Due(f)) /\ Cardinality(Due(f)) \in Nat
  BY <1>1, <1>3, Larger DEF OverlapOK
<1>5. LongSize \in Nat /\ MaxRecords \in Nat /\ MaxBytes \in Nat /\ Size(f) \in Nat
  BY HistoryAssumption DEF HistoryAssumption, Size
<1>6. IsFiniteSet(Left(f)) /\ Cardinality(Left(f)) \in Nat
  <2>1. IsFiniteSet(Due(f) \X (1..LongSize))
    <3>1. IsFiniteSet(1..LongSize)
      BY <1>5, FS_Interval
    <3> QED
      BY <1>4, <3>1, FS_Product
  <2>2. Left(f) \subseteq Due(f) \X (1..LongSize)
    BY DEF Left
  <2> QED
    BY <2>1, <2>2, Larger
<1>7. IsFiniteSet(overlapped) /\ Cardinality(overlapped) \in Nat
  BY <1>1, FS_CardinalityType DEF OverlapOK
<1> QED
  BY <1>2, <1>3, <1>4, <1>5, <1>6, <1>7, LenProperties, LineTypes

\* Multiples.
LEMMA Times ==
  ASSUME NEW k \in Nat, NEW m \in Nat, NEW n \in Nat, m <= n
  PROVE  k * m \in Nat /\ k * n \in Nat /\ k * m <= k * n
  OBVIOUS

\* A step that adds nothing to a file.
LEMMA Fewer ==
  ASSUME BaseInv, NEW f \in Files, Excess(f),
         overlapped \subseteq overlapped', IsFiniteSet(overlapped'),
         Whole(f)' \in Seq(Chunk), Len(Whole(f)') <= Len(Whole(f)), Ends(Whole(f)') <= Ends(Whole(f)),
         Due(f)' \subseteq Due(f), \A c \in Due(f)' : text'[c] = text[c]
  PROVE  Excess(f)'
<1>1. Left(f)' \subseteq Left(f)
  BY DEF Left
<1>2. /\ Cardinality(Due(f)') \in Nat /\ Cardinality(Due(f)') <= Cardinality(Due(f))
      /\ Cardinality(Left(f)') \in Nat /\ Cardinality(Left(f)') <= Cardinality(Left(f))
      /\ Cardinality(overlapped') \in Nat /\ Cardinality(overlapped) <= Cardinality(overlapped')
  BY <1>1, Measures, Larger
<1>3. LongSize * Cardinality(overlapped) <= LongSize * Cardinality(overlapped')
      /\ LongSize * Cardinality(overlapped) \in Nat /\ LongSize * Cardinality(overlapped') \in Nat
  BY <1>2, Measures, Times
<1>4. Len(Whole(f)') \in Nat /\ Ends(Whole(f)') \in Nat
  BY LenProperties, LineTypes
<1> DEFINE w == Len(Whole(f))  w2 == Len(Whole(f)')  e == Ends(Whole(f))  e2 == Ends(Whole(f)')
           d == Cardinality(Due(f))  d2 == Cardinality(Due(f)')
           l == Cardinality(Left(f))  l2 == Cardinality(Left(f)')
           o == Cardinality(overlapped)  o2 == Cardinality(overlapped')
<1>7. /\ w \in Nat /\ e \in Nat /\ d \in Nat /\ l \in Nat /\ o \in Nat /\ MaxRecords \in Nat
      /\ w2 <= w /\ e2 <= e /\ d2 <= d /\ l2 <= l /\ o <= o2
      /\ w2 \in Nat /\ e2 \in Nat /\ d2 \in Nat /\ l2 \in Nat /\ o2 \in Nat
      /\ MaxBytes \in Nat /\ Size(f) \in Nat
      /\ e + d <= MaxRecords + o
  <2>1. e + d <= MaxRecords + o
    BY DEF Excess
  <2>2. /\ w \in Nat /\ e \in Nat /\ d \in Nat /\ l \in Nat /\ o \in Nat
        /\ MaxRecords \in Nat /\ MaxBytes \in Nat /\ Size(f) \in Nat
    BY Measures
  <2>3. /\ w2 <= w /\ e2 <= e /\ d2 <= d /\ l2 <= l /\ o <= o2
        /\ w2 \in Nat /\ e2 \in Nat /\ d2 \in Nat /\ l2 \in Nat /\ o2 \in Nat
    BY <1>2, <1>4
  <2> QED
    BY <2>1, <2>2, <2>3
<1>5. e2 + d2 <= MaxRecords + o2
  <2>1. /\ e \in Nat /\ e2 \in Nat /\ d \in Nat /\ d2 \in Nat /\ o \in Nat /\ o2 \in Nat
        /\ MaxRecords \in Nat /\ e2 <= e /\ d2 <= d /\ o <= o2 /\ e + d <= MaxRecords + o
    BY <1>7
  <2> HIDE DEF e, e2, d, d2, o, o2
  <2> QED
    BY <2>1
<1>6. w2 + l2 <= MaxBytes + Size(f) + LongSize * o2
  <2> DEFINE a == LongSize * o
             b == LongSize * o2
  <2>1. a \in Nat /\ b \in Nat /\ a <= b
    BY <1>3
  <2>2. w + l <= MaxBytes + Size(f) + a
    BY DEF Excess
  <2> HIDE DEF a, b, w, w2, e, e2, d, d2, l, l2, o, o2
  <2>3. w2 + l2 <= MaxBytes + Size(f) + b
    BY <1>7, <2>1, <2>2
  <2> QED
    BY <2>3 DEF b
<1> QED
  BY <1>5, <1>6 DEF Excess, Ends

\* Opening, syncing and renaming add nothing.
LEMMA QuietExcess ==
  ASSUME BaseInv, ExcessOK, NEW c \in Calls, overlapped' = overlapped,
         Open(c) \/ SyncFile(c) \/ Rename(c) \/ SyncDirectory(c)
  PROVE  ExcessOK'
<1>1. TypeOK /\ OwnOK /\ Calls \subseteq Files /\ IsFiniteSet(overlapped)
  BY DEF BaseInv, OverlapOK, Files
<1>2. /\ text' = text
      /\ \A f \in Files : file'[f].data = file[f].data
      /\ \A e \in Calls \ {c} : pc'[e] = pc[e] /\ fd'[e] = fd[e]
      /\ \/ pc[c] = "open" /\ pc'[c] = "write" /\ fd'[c] = named /\ named' = named /\ entry' = entry
         \/ pc[c] = "write" /\ pc'[c] = "ok" /\ named' = named /\ entry' \in {named, entry}
         \/ pc[c] = "stage" /\ pc'[c] = "rename" /\ text[c] = <<>>
            /\ named' = named /\ entry' \in {named, entry}
         \/ pc[c] = "rename" /\ pc'[c] = "syncdir" /\ named' = c /\ entry' = entry
         \/ pc[c] = "syncdir" /\ pc'[c] = "ok" /\ named' = named /\ entry' = named
  <2> USE <1>1 DEF TypeOK, StorageOK, At, Goto
  <2>1. CASE Open(c)
    BY <2>1 DEF Open
  <2>2. CASE SyncFile(c)
    <3>1. file' = [file EXCEPT ![fd[c]] = Flushed(@)] /\ entry' \in {named, entry}
          /\ UNCHANGED <<named, fd, text>>
      BY <2>2 DEF SyncFile
    <3>2. \A f \in Files : file'[f].data = file[f].data
      BY <3>1 DEF Flushed
    <3> QED
      BY <2>2, <3>1, <3>2 DEF SyncFile
  <2>3. CASE Rename(c)
    BY <2>3 DEF Rename, RenameDue
  <2>4. CASE SyncDirectory(c)
    BY <2>4 DEF SyncDirectory
  <2> QED
    BY <2>1, <2>2, <2>3, <2>4
<1>3. ASSUME NEW f \in (Calls \cap Live)' PROVE Excess(f)'
  <2>1. f \in Calls \cap Live
    BY <1>1, <1>2, <1>3 DEF Live, Staged
  <2>2. Whole(f)' = Whole(f)
    <3>1. CASE f = c /\ pc[c] = "stage"
      <4>1. file[f].data \in Seq(Chunk)
        BY <1>1, <2>1 DEF TypeOK, StorageOK
      <4>2. file[f].data \o text[f] = file[f].data
        BY <1>2, <3>1, <4>1, ConcatEmptySeq
      <4> QED
        BY <1>1, <1>2, <2>1, <3>1, <4>2 DEF Whole
    <3>2. CASE ~(f = c /\ pc[c] = "stage")
      BY <1>1, <1>2, <2>1, <3>2 DEF Whole
    <3> QED
      BY <3>1, <3>2
  <2>3. Due(f)' \subseteq Due(f)
    <3>1. ASSUME NEW e \in Due(f)' PROVE e \in Due(f)
      <4>1. e \in Calls /\ text[e] # <<>>
            /\ \/ pc'[e] = "open" /\ f \in {named'} \cup Staged'
               \/ pc'[e] = "write" /\ fd'[e] = f
        BY <1>2 DEF Due
      <4>2. f \in {named'} \cup Staged' => f \in {named} \cup Staged
        BY <1>2 DEF Staged
      <4>3. CASE e # c
        BY <1>2, <4>1, <4>2, <4>3 DEF Due
      <4>4. CASE e = c
        <5>1. pc[c] = "open" /\ f = named
          BY <1>2, <4>1, <4>4
        <5> QED
          BY <4>1, <4>4, <5>1 DEF Due
      <4> QED
        BY <4>3, <4>4
    <3> QED
      BY <3>1
  <2>4. Excess(f) /\ f \in Files
    BY <1>1, <2>1 DEF ExcessOK
  <2>5. Whole(f) \in Seq(Chunk) /\ Len(Whole(f)) \in Nat /\ Ends(Whole(f)) \in Nat
    BY <2>4, Measures
  <2> QED
    BY <1>1, <1>2, <2>2, <2>3, <2>4, <2>5, Fewer
<1> QED
  BY <1>3 DEF ExcessOK

\* Nor does a call that fails or is killed.
LEMMA EndExcess ==
  ASSUME BaseInv, ExcessOK, NEW c \in Calls, overlapped' = overlapped, Fail(c) \/ Crash(c)
  PROVE  ExcessOK'
<1>1. TypeOK /\ OwnOK /\ Calls \subseteq Files /\ IsFiniteSet(overlapped)
  BY DEF BaseInv, OverlapOK, Files
<1>2. /\ pc'[c] \in {"failed", "dead"} /\ \A e \in Calls \ {c} : pc'[e] = pc[e] /\ text'[e] = text[e]
      /\ text'[c] = <<>> /\ UNCHANGED <<named, entry, fd>>
      /\ \A f \in Files \ {c} : file'[f] = file[f]
      /\ pc[c] \in {"stage", "rename"} \/ file' = file
  BY <1>1 DEF Fail, Crash, Goto, TypeOK, StorageOK
<1>3. ASSUME NEW f \in (Calls \cap Live)' PROVE Excess(f)'
  <2>1. f \in Calls \cap Live /\ (f = c => pc[c] \notin {"stage", "rename"})
    BY <1>1, <1>2, <1>3 DEF Live, Staged, OwnOK
  <2>2. Whole(f)' = Whole(f)
    BY <1>1, <1>2, <2>1 DEF Whole
  <2>3. Due(f)' \subseteq Due(f) /\ \A e \in Due(f)' : text'[e] = text[e]
    BY <1>2 DEF Due, Staged
  <2>4. Excess(f) /\ f \in Files
    BY <1>1, <2>1 DEF ExcessOK
  <2>5. Whole(f) \in Seq(Chunk) /\ Len(Whole(f)) \in Nat /\ Ends(Whole(f)) \in Nat
    BY <2>4, Measures
  <2> QED
    BY <1>1, <2>2, <2>3, <2>4, <2>5, Fewer
<1> QED
  BY <1>3 DEF ExcessOK

\* A power loss leaves the beginning of one file.
LEMMA PowerExcess ==
  ASSUME BaseInv, ExcessOK, overlapped' = overlapped, PowerLoss
  PROVE  ExcessOK'
<1>1. TypeOK /\ OwnOK /\ Calls \subseteq Files /\ IsFiniteSet(overlapped) /\ entry \in Files
  BY DEF BaseInv, OverlapOK, Files, TypeOK, StorageOK
<1>2. /\ named' = entry /\ entry' = entry
      /\ \A c \in Calls : pc'[c] \in Ended \cup {"start"}
  BY PowerBase DEF Ended
<1>3. PICK n \in file[entry].synced..Len(file[entry].data) :
         file'[entry].data = SubSeq(file[entry].data, 1, n)
  BY PowerBase
<1>4. file[entry].data \in Seq(Chunk) /\ n \in 0..Len(file[entry].data)
  BY <1>1, LenProperties DEF TypeOK, StorageOK
<1>5. ASSUME NEW f \in (Calls \cap Live)' PROVE Excess(f)'
  <2>1. f = entry /\ f \in Calls
    BY <1>2, <1>5 DEF Live, Staged, Ended
  <2>2. Whole(f) = file[f].data /\ Whole(f)' = SubSeq(file[f].data, 1, n)
    <3>1. pc[f] # "stage" /\ pc'[f] # "stage"
      BY <1>1, <1>2, <2>1 DEF OwnOK, Ended
    <3> QED
      BY <1>3, <2>1, <3>1 DEF Whole
  <2>3. /\ SubSeq(file[f].data, 1, n) \in Seq(Chunk) /\ Len(SubSeq(file[f].data, 1, n)) = n
        /\ Ends(SubSeq(file[f].data, 1, n)) <= Ends(file[f].data)
        /\ n <= Len(file[f].data)
    BY <1>4, <2>1, Parts, PrefixEnds, LenProperties
  <2>4. Due(f)' = {}
    BY <1>2 DEF Due, Ended
  <2>5. Excess(f)
    BY <2>1 DEF ExcessOK, Live
  <2> QED
    BY <1>1, <2>1, <2>2, <2>3, <2>4, <2>5, Fewer
<1> QED
  BY <1>5 DEF ExcessOK

\* What an appending capture writes it no longer has to write.
LEMMA AppendExcess ==
  ASSUME BaseInv, NEW c \in Calls, Write(c), overlapped' = overlapped, pc[c] = "write",
         NEW f \in Calls, fd[c] = f, Excess(f)
  PROVE  Excess(f)'
<1> DEFINE t == text[c]
           d == file[f].data
<1>1. /\ UNCHANGED <<named, entry, pc, fd>> /\ f \in Files
      /\ \A e \in Calls \ {c} : text'[e] = text[e]
  BY WriteEffect DEF BaseInv, TypeOK, StorageOK
<1>2. PICK n \in 1..Len(t) :
         file'[f].data = d \o SubSeq(t, 1, n) /\ text'[c] = SubSeq(t, n + 1, Len(t))
  BY WriteEffect
<1> DEFINE u == SubSeq(t, 1, n)
<1>3. /\ t \in Seq(Chunk) /\ Len(t) \in Nat /\ Len(t) <= LongSize /\ LongSize \in Nat
      /\ \A i \in 1..Len(t) : EndsLine(t[i]) <=> i = Len(t)
  BY TextLeft, LenProperties, HistoryAssumption DEF HistoryAssumption
<1>4. /\ u \in Seq(Chunk) /\ Len(u) = n /\ \A i \in 1..n : u[i] = t[i]
      /\ Len(text'[c]) = Len(t) - n /\ text'[c] \in Seq(Chunk) /\ n \in 1..Len(t)
  BY <1>2, <1>3, Parts
<1>5. d \in Seq(Chunk) /\ Whole(f) = d /\ Whole(f)' = d \o u
  <2>1. pc[f] # "stage"
    BY <1>1 DEF BaseInv, OwnOK
  <2> QED
    BY <1>1, <1>2, <2>1 DEF Whole, BaseInv, TypeOK, StorageOK
<1>6. c \in Due(f) /\ IsFiniteSet(Due(f)) /\ IsFiniteSet(Left(f))
  <2>1. t # <<>>
    BY <1>2, <1>3, EmptySeq
  <2> QED
    BY <1>1, <2>1, Measures DEF Due
<1> HIDE DEF t, d, u
<1>7. Len(d \o u) = Len(d) + n
  BY <1>4, <1>5, Joined
<1>8. Cardinality(Left(f)') = Cardinality(Left(f)) - n
  <2> DEFINE G == {c} \X ((Len(t) - n + 1)..Len(t))
  <2>1. IsFiniteSet(G) /\ Cardinality(G) = n
    <3>1. /\ IsFiniteSet((Len(t) - n + 1)..Len(t))
          /\ Cardinality((Len(t) - n + 1)..Len(t)) = n
      <4>1. /\ Len(t) - n + 1 \in Int /\ Len(t) \in Int /\ ~(Len(t) - n + 1 > Len(t))
            /\ Len(t) - (Len(t) - n + 1) + 1 = n
        BY <1>3, <1>4
      <4> QED
        BY <4>1, FS_Interval
    <3>2. IsFiniteSet({c}) /\ Cardinality({c}) = 1
      BY FS_Singleton
    <3>3. IsFiniteSet(G) /\ Cardinality(G) = 1 * n
      BY <3>1, <3>2, FS_Product
    <3> QED
      BY <1>4, <3>3
  <2>2. G \subseteq Left(f)
    BY <1>3, <1>4, <1>6 DEF Left, t
  <2>3. Left(f)' = Left(f) \ G
    <3>1. \A e \in Calls : e \in Due(f)' <=> e \in Due(f) /\ text'[e] # <<>>
      <4>1. \A e \in Calls : text'[e] # <<>> => text[e] # <<>>
        <5>1. text[c] # <<>>
          BY <1>6 DEF Due
        <5> QED
          BY <1>1, <5>1
      <4> QED
        BY <1>1, <4>1 DEF Due, Staged
    <3>2. text'[c] # <<>> <=> n # Len(t)
      BY <1>3, <1>4, EmptySeq
    <3>3. ASSUME NEW r \in Calls \X (1..LongSize)
          PROVE  r \in Left(f)' <=> r \in Left(f) /\ r \notin G
      <4>1. CASE r[1] # c
        BY <1>1, <3>1, <4>1 DEF Left, Due
      <4>2. CASE r[1] = c
        <5>1. r \in Left(f) <=> r[2] <= Len(t)
          BY <1>6, <4>2 DEF Left, t
        <5>2. r \in Left(f)' <=> r[2] <= Len(t) - n
          BY <1>1, <1>3, <1>4, <1>6, <3>1, <3>2, <4>2 DEF Left
        <5>3. r \in G <=> r[2] \in (Len(t) - n + 1)..Len(t)
          BY <4>2
        <5> QED
          BY <1>3, <1>4, <5>1, <5>2, <5>3
      <4> QED
        BY <4>1, <4>2
    <3>4. /\ Left(f) \subseteq Calls \X (1..LongSize) /\ Left(f)' \subseteq Calls \X (1..LongSize)
      BY DEF Left, Due
    <3> HIDE DEF G
    <3> QED
      BY <3>3, <3>4
  <2> HIDE DEF G
  <2>4. Left(f) \cap G = G
    BY <2>2
  <2>5. Cardinality(Left(f) \ G) = Cardinality(Left(f)) - Cardinality(Left(f) \cap G)
    BY <1>6, FS_Difference
  <2> QED
    BY <2>1, <2>3, <2>4, <2>5
<1>9. Ends(d \o u) + Cardinality(Due(f)') <= Ends(d) + Cardinality(Due(f))
      /\ Ends(d \o u) \in Nat /\ Cardinality(Due(f)') \in Nat
  <2>1. d \o u \in Seq(Chunk) /\ Ends(d \o u) \in Nat /\ Ends(d) \in Nat
    BY <1>4, <1>5, Joined, LineTypes
  <2>2. \A i \in 1..Len(u) : EndsLine(u[i]) => i = Len(u)
    <3>1. \A i \in 1..n : EndsLine(u[i]) <=> i = Len(t)
      BY <1>3, <1>4
    <3> QED
      BY <1>3, <1>4, <3>1
  <2>3. CASE n = Len(t)
    <3>1. Due(f)' = Due(f) \ {c}
      <4>1. text'[c] = <<>>
        BY <1>3, <1>4, <2>3, EmptySeq
      <4> QED
        BY <1>1, <4>1 DEF Due, Staged
    <3>2. Cardinality(Due(f)') = Cardinality(Due(f)) - 1 /\ Cardinality(Due(f)') \in Nat
      BY <1>6, <3>1, FS_RemoveElement, FS_CardinalityType
    <3>3. Ends(d \o u) <= Ends(d) + 1
      BY <1>4, <1>5, <2>2, JoinedEnds
    <3>4. Cardinality(Due(f)) \in Nat
      BY <1>6, FS_CardinalityType
    <3> QED
      BY <2>1, <3>2, <3>3, <3>4
  <2>4. CASE n # Len(t)
    <3>1. Due(f)' = Due(f)
      <4>1. text'[c] # <<>> /\ text[c] # <<>>
        BY <1>3, <1>4, <1>6, <2>4, EmptySeq DEF Due
      <4> QED
        BY <1>1, <4>1 DEF Due, Staged
    <3>2. ~EndsLine(u[Len(u)])
      BY <1>3, <1>4, <2>4
    <3>3. Ends(d \o u) <= Ends(d)
      BY <1>4, <1>5, <2>2, <3>2, JoinedEnds
    <3>4. Cardinality(Due(f)) \in Nat
      BY <1>6, FS_CardinalityType
    <3> QED
      BY <2>1, <3>1, <3>3, <3>4
  <2> QED
    BY <2>3, <2>4
<1>10. Ends(Whole(f)') + Cardinality(Due(f)') <= MaxRecords + Cardinality(overlapped')
  <2>1. Ends(d) + Cardinality(Due(f)) <= MaxRecords + Cardinality(overlapped)
        /\ Ends(d) \in Nat /\ Cardinality(Due(f)) \in Nat
        /\ MaxRecords \in Nat /\ Cardinality(overlapped) \in Nat
    BY <1>1, <1>5, Measures DEF Excess
  <2> QED
    BY <1>5, <1>9, <2>1
<1>11. Len(Whole(f)') + Cardinality(Left(f)')
          <= MaxBytes + Size(f) + LongSize * Cardinality(overlapped')
  <2>1. Len(d) + Cardinality(Left(f)) <= MaxBytes + Size(f) + LongSize * Cardinality(overlapped)
        /\ Len(d) \in Nat /\ Cardinality(Left(f)) \in Nat
    BY <1>1, <1>5, Measures DEF Excess
  <2>2. Len(Whole(f)') + Cardinality(Left(f)') = Len(d) + Cardinality(Left(f))
    BY <1>4, <1>5, <1>7, <1>8, <2>1
  <2> QED
    BY <2>1, <2>2
<1> QED
  BY <1>1, <1>10, <1>11 DEF Excess, Ends

\* A write adds nothing to what files will hold.
LEMMA WriteExcess ==
  ASSUME BaseInv, ExcessOK, NEW c \in Calls, Write(c), overlapped' = overlapped
  PROVE  ExcessOK'
<1>1. TypeOK /\ OwnOK /\ Calls \subseteq Files /\ IsFiniteSet(overlapped) /\ fd[c] \in Files
  BY DEF BaseInv, OverlapOK, Files, TypeOK, StorageOK
<1>2. /\ pc[c] \in {"write", "stage"} /\ UNCHANGED <<named, entry, pc, fd>>
      /\ \A g \in Files \ {fd[c]} : file'[g] = file[g]
      /\ \A e \in Calls \ {c} : text'[e] = text[e]
  BY WriteEffect
<1>3. PICK n \in 1..Len(text[c]) :
         /\ file'[fd[c]].data = file[fd[c]].data \o SubSeq(text[c], 1, n)
         /\ text'[c] = SubSeq(text[c], n + 1, Len(text[c]))
  BY WriteEffect
<1>4. ASSUME NEW f \in (Calls \cap Live)' PROVE Excess(f)'
  <2>1. f \in Calls \cap Live /\ f \in Files
    BY <1>1, <1>2, <1>4 DEF Live, Staged
  <2>2. Excess(f)
    BY <2>1 DEF ExcessOK
  <2>3. CASE pc[c] = "write" /\ f = fd[c]
    BY <2>1, <2>2, <2>3, AppendExcess
  <2>4. CASE ~(pc[c] = "write" /\ f = fd[c])
    <3>1. Whole(f)' = Whole(f)
      <4>1. CASE pc[c] = "stage" /\ f = c
        <5>1. fd[c] = c
          BY <1>1, <4>1 DEF OwnOK
        <5>2. file[c].data \in Seq(Chunk) /\ text[c] \in Seq(Chunk) /\ n \in 0..Len(text[c])
          BY <1>1, LenProperties DEF TypeOK, StorageOK
        <5>3. file'[c].data \o text'[c] = file[c].data \o text[c]
          <6>1. (file[c].data \o SubSeq(text[c], 1, n)) \o SubSeq(text[c], n + 1, Len(text[c]))
                   = file[c].data \o text[c]
            BY <5>2, SameWhole
          <6> QED
            BY <1>3, <5>1, <6>1
        <5> QED
          BY <1>2, <4>1, <5>3 DEF Whole
      <4>2. CASE ~(pc[c] = "stage" /\ f = c)
        <5>1. f # fd[c] /\ (f = c => pc[f] # "stage")
          BY <1>1, <1>2, <2>4, <4>2 DEF OwnOK
        <5> QED
          BY <1>2, <2>1, <5>1 DEF Whole
      <4> QED
        BY <4>1, <4>2
    <3>2. c \notin Due(f)'
      BY <1>2, <2>4 DEF Due
    <3>3. Due(f)' \subseteq Due(f) /\ \A e \in Due(f)' : text'[e] = text[e]
      BY <1>2, <3>2 DEF Due, Staged
    <3>4. Whole(f) \in Seq(Chunk) /\ Len(Whole(f)) \in Nat /\ Ends(Whole(f)) \in Nat
      BY <2>1, Measures
    <3> QED
      BY <1>1, <2>1, <2>2, <3>1, <3>3, <3>4, Fewer
  <2> QED
    BY <2>3, <2>4
<1> QED
  BY <1>4 DEF ExcessOK

\* One more capture, and its record, for a history that has room for them.
LEMMA OneMore ==
  ASSUME BaseInv, NEW f \in Files, NEW c \in Calls,
         Due(f)' \subseteq Due(f) \cup {c}, \A e \in Due(f)' \ {c} : text'[e] = text[e],
         c \in Due(f)' => Len(text'[c]) = Size(c)
  PROVE  /\ Cardinality(Due(f)') \in Nat /\ Cardinality(Due(f)') <= Cardinality(Due(f)) + 1
         /\ Cardinality(Left(f)') \in Nat /\ Cardinality(Left(f)') <= Cardinality(Left(f)) + Size(c)
<1>1. Size(c) \in 1..LongSize /\ LongSize \in Nat
  BY RecordFacts, HistoryAssumption DEF HistoryAssumption
<1>2. Cardinality(Due(f)') \in Nat /\ Cardinality(Due(f)') <= Cardinality(Due(f)) + 1
  <2>1. /\ IsFiniteSet(Due(f) \cup {c})
        /\ Cardinality(Due(f) \cup {c}) \in {Cardinality(Due(f)), Cardinality(Due(f)) + 1}
        /\ Cardinality(Due(f)) \in Nat
    BY Measures, FS_AddElement
  <2>2. /\ Cardinality(Due(f)') \in Nat
        /\ Cardinality(Due(f)') <= Cardinality(Due(f) \cup {c})
    BY <2>1, Larger
  <2> QED
    BY <2>1, <2>2
<1>3. Cardinality(Left(f)') \in Nat /\ Cardinality(Left(f)') <= Cardinality(Left(f)) + Size(c)
  <2> DEFINE G == {c} \X (1..Size(c))
  <2>1. IsFiniteSet(G) /\ Cardinality(G) = Size(c)
    <3>1. IsFiniteSet(1..Size(c)) /\ Cardinality(1..Size(c)) = Size(c)
      BY <1>1, FS_Interval
    <3>2. IsFiniteSet({c}) /\ Cardinality({c}) = 1
      BY FS_Singleton
    <3>3. IsFiniteSet({c} \X (1..Size(c)))
          /\ Cardinality({c} \X (1..Size(c))) = Cardinality({c}) * Cardinality(1..Size(c))
      BY <3>1, <3>2, FS_Product
    <3>4. 1 * Size(c) = Size(c)
      BY <1>1
    <3> QED
      BY <3>1, <3>2, <3>3, <3>4
  <2>2. Left(f)' \subseteq Left(f) \cup G
    <3>1. ASSUME NEW r \in Left(f)' PROVE r \in Left(f) \cup G
      <4>1. r \in (Due(f)') \X (1..LongSize) /\ r[2] <= Len(text'[r[1]])
        BY DEF Left
      <4>2. CASE r[1] = c
        BY <1>1, <4>1, <4>2
      <4>3. CASE r[1] # c
        BY <4>1, <4>3 DEF Left
      <4> QED
        BY <4>2, <4>3
    <3> QED
      BY <3>1
  <2> HIDE DEF G
  <2>3. IsFiniteSet(Left(f)) /\ Cardinality(Left(f)) \in Nat
    BY Measures
  <2>4. /\ IsFiniteSet(Left(f) \cup G)
        /\ Cardinality(Left(f) \cup G) = Cardinality(Left(f)) + Cardinality(G) - Cardinality(Left(f) \cap G)
    BY <2>1, <2>3, FS_Union
  <2>5. Cardinality(Left(f) \cap G) \in Nat
    BY <2>3, FS_Intersection, FS_CardinalityType
  <2>6. /\ Cardinality(Left(f)') \in Nat
        /\ Cardinality(Left(f)') <= Cardinality(Left(f) \cup G)
    BY <2>2, <2>4, Larger
  <2> QED
    BY <1>1, <2>1, <2>3, <2>4, <2>5, <2>6
<1> QED
  BY <1>2, <1>3

\* A capture that begins to append finds room, or overlaps.
LEMMA AppendBegins ==
  ASSUME BaseInv, ExcessOK, NEW c \in Calls, Begin(c),
         pc' = [pc EXCEPT ![c] = "open"], text' = [text EXCEPT ![c] = Record(c)], fd' = fd,
         Ends(Content) < MaxRecords, Len(Content) + Size(c) <= MaxBytes
  PROVE  ExcessOK'
<1>1. TypeOK /\ OwnOK /\ Calls \subseteq Files /\ IsFiniteSet(overlapped)
  BY DEF BaseInv, OverlapOK, Files
<1>2. /\ pc[c] = "start" /\ UNCHANGED <<file, named, entry>> /\ overlapped \subseteq overlapped'
      /\ overlapped' = IF Active = {} THEN overlapped ELSE overlapped \cup Active \cup {c}
      /\ c \notin overlapped /\ IsFiniteSet(overlapped')
  BY BeginEffect, BeginBase DEF BaseInv, OverlapOK
<1>3. /\ pc'[c] = "open" /\ text'[c] = Record(c)
      /\ \A e \in Calls \ {c} : pc'[e] = pc[e] /\ text'[e] = text[e]
  BY <1>1 DEF TypeOK, StorageOK
<1>4. Size(c) \in 1..LongSize /\ Len(Record(c)) = Size(c) /\ LongSize \in Nat
  BY RecordFacts, HistoryAssumption DEF HistoryAssumption
<1>5. Staged' = Staged /\ Live' = Live
  BY <1>2, <1>3 DEF Staged, Live
<1>6. ASSUME NEW f \in (Calls \cap Live)' PROVE Excess(f)'
  <2>1. f \in Calls \cap Live /\ f \in Files
    BY <1>1, <1>5, <1>6
  <2>2. Excess(f)
    BY <2>1 DEF ExcessOK
  <2>3. Whole(f)' = Whole(f)
    BY <1>2, <1>3, <2>1 DEF Whole
  <2>4. Due(f)' \subseteq Due(f) \cup {c} /\ \A e \in Due(f)' \ {c} : text'[e] = text[e]
    BY <1>2, <1>3, <1>5 DEF Due
  <2>5. c \in Due(f)' => f \in {named} \cup Staged
    BY <1>2, <1>3, <1>5 DEF Due
  <2> DEFINE w == Len(Whole(f))  e == Ends(Whole(f))
             d == Cardinality(Due(f))  d2 == Cardinality(Due(f)')
             l == Cardinality(Left(f))  l2 == Cardinality(Left(f)')
             o == Cardinality(overlapped)  o2 == Cardinality(overlapped')
  <2>6. /\ w \in Nat /\ e \in Nat /\ d \in Nat /\ l \in Nat /\ o \in Nat /\ MaxRecords \in Nat
        /\ MaxBytes \in Nat /\ Size(f) \in Nat /\ Whole(f) \in Seq(Chunk)
    BY <2>1, Measures
  <2>7. /\ d2 \in Nat /\ d2 <= d + 1 /\ l2 \in Nat /\ l2 <= l + Size(c)
    BY <1>3, <1>4, <2>1, <2>4, OneMore
  <2>8. o2 \in Nat /\ o <= o2
    BY <1>2, Larger
  <2>9. CASE c \notin Due(f)'
    <3>1. Due(f)' \subseteq Due(f) /\ \A x \in Due(f)' : text'[x] = text[x]
      BY <2>4, <2>9
    <3>2. Len(Whole(f)') <= Len(Whole(f)) /\ Ends(Whole(f)') <= Ends(Whole(f)) /\ Whole(f)' \in Seq(Chunk)
      BY <2>3, <2>6
    <3> QED
      BY <1>2, <2>1, <2>2, <3>1, <3>2, Fewer
  <2>10. CASE c \in Due(f)' /\ Active # {}
    <3>1. o + 1 <= o2
      <4>1. overlapped \cup {c} \subseteq overlapped' /\ Cardinality(overlapped \cup {c}) = o + 1
        BY <1>1, <1>2, <2>10, FS_AddElement
      <4>2. Cardinality(overlapped \cup {c}) <= o2
        BY <1>2, <4>1, Larger
      <4> QED
        BY <4>1, <4>2
    <3>2. e + d2 <= MaxRecords + o2
      <4>1. e + d <= MaxRecords + o
        BY <2>2 DEF Excess
      <4> HIDE DEF w, e, d, d2, l, l2, o, o2
      <4> QED
        BY <2>6, <2>7, <2>8, <3>1, <4>1
    <3>3. w + l2 <= MaxBytes + Size(f) + LongSize * o2
      <4> DEFINE a == LongSize * o  b == LongSize * o2
      <4>1. w + l <= MaxBytes + Size(f) + a
        BY <2>2 DEF Excess
      <4>2. a \in Nat /\ b \in Nat /\ a + LongSize <= b
        <5> HIDE DEF o, o2
        <5>1. o + 1 \in Nat
          BY <2>6
        <5>2. LongSize * (o + 1) = LongSize * o + LongSize
          BY <1>4, <2>6
        <5>3. LongSize * o \in Nat /\ LongSize * o2 \in Nat /\ LongSize * (o + 1) <= LongSize * o2
          BY <1>4, <2>6, <2>8, <3>1, <5>1, Times
        <5> QED
          BY <5>2, <5>3
      <4>3. w \in Nat /\ l \in Nat /\ l2 \in Nat /\ l2 <= l + LongSize
            /\ MaxBytes \in Nat /\ Size(f) \in Nat
        BY <1>4, <2>6, <2>7
      <4> HIDE DEF a, b, w, e, d, d2, l, l2, o, o2
      <4>4. w + l2 <= MaxBytes + Size(f) + b
        BY <1>4, <4>1, <4>2, <4>3
      <4> QED
        BY <4>4 DEF b
    <3> QED
      BY <2>3, <3>2, <3>3 DEF Excess, Ends
  <2>11. CASE c \in Due(f)' /\ Active = {}
    <3>1. f = named /\ Due(f) = {} /\ Left(f) = {}
      <4>1. Staged = {}
        BY <2>11 DEF Staged, Active, Ended
      <4>2. Due(f) = {}
        BY <2>1, <2>11, Measures
      <4> QED
        BY <2>5, <2>11, <4>1, <4>2 DEF Left
    <3>2. Whole(f) = Content
      <4>1. pc[f] # "stage"
        BY <1>1, <2>1, <3>1 DEF OwnOK
      <4> QED
        BY <3>1, <4>1 DEF Whole, Content
    <3>3. d = 0 /\ l = 0
      BY <3>1, FS_EmptySet
    <3>4. e + d2 <= MaxRecords + o2
      <4>1. e < MaxRecords
        BY <3>2
      <4> HIDE DEF w, e, d, d2, l, l2, o, o2
      <4> QED
        BY <2>6, <2>7, <2>8, <3>3, <4>1
    <3>5. w + l2 <= MaxBytes + Size(f) + LongSize * o2
      <4> DEFINE b == LongSize * o2
      <4>1. b \in Nat
        BY <1>4, <2>8
      <4>2. w + Size(c) <= MaxBytes
        BY <3>2
      <4> HIDE DEF b, w, e, d, d2, l, l2, o, o2
      <4>3. w + l2 <= MaxBytes + Size(f) + b
        BY <1>4, <2>6, <2>7, <3>3, <4>1, <4>2
      <4> QED
        BY <4>3 DEF b
    <3> QED
      BY <2>3, <3>4, <3>5 DEF Excess, Ends
  <2> QED
    BY <2>9, <2>10, <2>11
<1> QED
  BY <1>6 DEF ExcessOK

\* A capture that begins to replace writes what fits, and the captures that may
\* yet append to its file overlap.
LEMMA ReplaceBegins ==
  ASSUME BaseInv, ExcessOK, NEW c \in Calls, Begin(c), NEW kept \in Seq(Chunk),
         Len(kept) <= MaxBytes, Ends(kept) < MaxRecords,
         pc' = [pc EXCEPT ![c] = "stage"], fd' = [fd EXCEPT ![c] = c],
         text' = [text EXCEPT ![c] = kept \o Record(c)]
  PROVE  ExcessOK'
<1>1. TypeOK /\ OwnOK /\ Calls \subseteq Files /\ IsFiniteSet(overlapped)
  BY DEF BaseInv, OverlapOK, Files
<1>2. /\ pc[c] = "start" /\ UNCHANGED <<file, named, entry>> /\ overlapped \subseteq overlapped'
      /\ overlapped' = IF Active = {} THEN overlapped ELSE overlapped \cup Active \cup {c}
      /\ IsFiniteSet(overlapped')
  BY BeginEffect, BeginBase DEF BaseInv, OverlapOK
<1>3. /\ pc'[c] = "stage" /\ fd'[c] = c /\ text'[c] = kept \o Record(c)
      /\ \A e \in Calls \ {c} : pc'[e] = pc[e] /\ text'[e] = text[e] /\ fd'[e] = fd[e]
  BY <1>1 DEF TypeOK, StorageOK
<1>4. Staged' = Staged \cup {c} /\ Live' = Live \cup {c} /\ named' = named
  BY <1>2, <1>3 DEF Staged, Live
<1>5. Excess(c)'
  <2>1. /\ Whole(c)' = kept \o Record(c) /\ Record(c) \in Seq(Chunk)
        /\ Len(kept \o Record(c)) = Len(kept) + Size(c) /\ Len(kept) \in Nat
    <3>1. file[c].data = <<>>
      BY <1>1, <1>2 DEF OwnOK
    <3>2. Record(c) \in Seq(Chunk) /\ Len(Record(c)) = Size(c)
      BY RecordFacts
    <3>3. /\ kept \o Record(c) \in Seq(Chunk) /\ Len(kept) \in Nat
          /\ Len(kept \o Record(c)) = Len(kept) + Size(c)
      BY <3>2, Joined
    <3>4. <<>> \o (kept \o Record(c)) = kept \o Record(c)
      BY <3>3, ConcatEmptySeq
    <3> QED
      BY <1>2, <1>3, <3>1, <3>2, <3>3, <3>4 DEF Whole
  <2>2. Ends(kept \o Record(c)) <= Ends(kept) + 1 /\ Ends(kept \o Record(c)) \in Nat
        /\ Ends(kept) \in Nat
    <3>1. \A i \in 1..Len(Record(c)) : EndsLine(Record(c)[i]) => i = Len(Record(c))
      BY RecordFacts
    <3>2. Ends(kept \o Record(c)) <= Ends(kept) + 1
      BY <2>1, <3>1, JoinedEnds
    <3>3. kept \o Record(c) \in Seq(Chunk)
      BY <2>1, Joined
    <3> QED
      BY <3>2, <3>3, LineTypes
  <2>3. Due(c)' \subseteq Active
    BY <1>1, <1>2, <1>3 DEF Due, OwnOK, Active, Ended
  <2>4. Due(c)' \subseteq overlapped'
    BY <1>2, <2>3
  <2>5. /\ IsFiniteSet(Due(c)') /\ Cardinality(Due(c)') \in Nat /\ Cardinality(overlapped') \in Nat
        /\ Cardinality(Due(c)') <= Cardinality(overlapped')
    BY <1>2, <2>4, Larger
  <2>6. LongSize \in Nat /\ Size(c) \in Nat /\ MaxRecords \in Nat /\ MaxBytes \in Nat
    BY <1>1, Measures
  <2>7. Cardinality(Left(c)') \in Nat
        /\ Cardinality(Left(c)') <= LongSize * Cardinality(overlapped')
        /\ LongSize * Cardinality(overlapped') \in Nat
    <3>1. IsFiniteSet(1..LongSize) /\ Cardinality(1..LongSize) = LongSize
      <4>1. 1 \in Int /\ LongSize \in Int /\ LongSize >= 1 /\ LongSize - 1 + 1 = LongSize
        BY HistoryAssumption DEF HistoryAssumption
      <4> QED
        BY <4>1, FS_Interval
    <3>2. IsFiniteSet((Due(c)') \X (1..LongSize))
          /\ Cardinality((Due(c)') \X (1..LongSize)) = Cardinality(Due(c)') * Cardinality(1..LongSize)
      BY <2>5, <3>1, FS_Product
    <3>3. Left(c)' \subseteq (Due(c)') \X (1..LongSize)
      BY DEF Left
    <3>4. Cardinality(Left(c)') \in Nat
          /\ Cardinality(Left(c)') <= Cardinality((Due(c)') \X (1..LongSize))
      BY <3>2, <3>3, Larger
    <3> DEFINE d == Cardinality(Due(c)')  o == Cardinality(overlapped')
    <3>5. LongSize * d <= LongSize * o /\ LongSize * d \in Nat /\ LongSize * o \in Nat
      BY <2>5, <2>6, Times
    <3>6. d * LongSize = LongSize * d
      <4>1. d \in Nat
        BY <2>5
      <4> HIDE DEF d
      <4> QED
        BY <4>1, <2>6
    <3>7. Cardinality((Due(c)') \X (1..LongSize)) = LongSize * d
      BY <3>1, <3>2, <3>6
    <3>8. Cardinality(Left(c)') <= LongSize * o
      <4> DEFINE x == LongSize * d  y == LongSize * o
      <4>1. x \in Nat /\ y \in Nat /\ x <= y /\ Cardinality(Left(c)') <= x
        BY <3>4, <3>5, <3>7
      <4> HIDE DEF x, y
      <4>2. Cardinality(Left(c)') <= y
        BY <3>4, <4>1
      <4> QED
        BY <4>2 DEF y
    <3> QED
      BY <3>4, <3>5, <3>8
  <2> DEFINE w == Len(kept \o Record(c))  e == Ends(kept \o Record(c))
             d2 == Cardinality(Due(c)')  l2 == Cardinality(Left(c)')
             o2 == Cardinality(overlapped')  b == LongSize * o2
  <2>8. /\ w \in Nat /\ e \in Nat /\ d2 \in Nat /\ l2 \in Nat /\ o2 \in Nat /\ b \in Nat
        /\ w <= MaxBytes + Size(c) /\ e <= MaxRecords /\ d2 <= o2 /\ l2 <= b
    BY <2>1, <2>2, <2>5, <2>6, <2>7
  <2>9. e + d2 <= MaxRecords + o2 /\ w + l2 <= MaxBytes + Size(c) + b
    <3> HIDE DEF w, e, d2, l2, o2, b
    <3> QED
      BY <2>6, <2>8
  <2> QED
    BY <2>1, <2>9 DEF Excess, Ends
<1>6. ASSUME NEW f \in (Calls \cap Live)', f # c PROVE Excess(f)'
  <2>1. f \in Calls \cap Live /\ f \in Files
    BY <1>1, <1>4, <1>6
  <2>2. Excess(f)
    BY <2>1 DEF ExcessOK
  <2>3. Whole(f)' = Whole(f)
    BY <1>2, <1>3, <1>6, <2>1 DEF Whole
  <2>4. Due(f)' \subseteq Due(f) /\ \A e \in Due(f)' : text'[e] = text[e]
    BY <1>3, <1>4, <1>6 DEF Due
  <2>5. Whole(f) \in Seq(Chunk) /\ Len(Whole(f)) \in Nat /\ Ends(Whole(f)) \in Nat
    BY <2>1, Measures
  <2> QED
    BY <1>2, <2>1, <2>2, <2>3, <2>4, <2>5, Fewer
<1> QED
  BY <1>5, <1>6 DEF ExcessOK

\* A capture begins.
LEMMA BeginExcess ==
  ASSUME BaseInv, ExcessOK, NEW c \in Calls, Begin(c)
  PROVE  ExcessOK'
<1>1. CASE /\ pc' = [pc EXCEPT ![c] = "open"] /\ text' = [text EXCEPT ![c] = Record(c)]
           /\ fd' = fd /\ Ends(Content) < MaxRecords /\ Len(Content) + Size(c) <= MaxBytes
  BY <1>1, AppendBegins
<1>2. CASE \E kept \in {Retained(Content), <<>>} :
              /\ pc' = [pc EXCEPT ![c] = "stage"] /\ fd' = [fd EXCEPT ![c] = c]
              /\ text' = [text EXCEPT ![c] = kept \o Record(c)]
  <2>1. PICK kept \in {Retained(Content), <<>>} :
              /\ pc' = [pc EXCEPT ![c] = "stage"] /\ fd' = [fd EXCEPT ![c] = c]
              /\ text' = [text EXCEPT ![c] = kept \o Record(c)]
    BY <1>2
  <2>2. Content \in Seq(Chunk)
    BY DEF BaseInv, TypeOK, StorageOK, Content
  <2>3. <<>> \in Seq(Chunk) /\ Len(<<>>) = 0 /\ Ends(<<>>) = 0
    <3>1. LineEnds(<<>>) = {}
      BY EmptySeq DEF LineEnds
    <3> QED
      BY <3>1, EmptySeq, FS_EmptySet DEF Ends
  <2>4. kept \in Seq(Chunk) /\ Len(kept) <= MaxBytes /\ Ends(kept) < MaxRecords
    <3>1. CASE kept = Retained(Content)
      BY <2>2, <3>1, RetainedFits
    <3>2. CASE kept = <<>>
      <4>1. 0 <= MaxBytes /\ 0 < MaxRecords
        BY HistoryAssumption DEF HistoryAssumption
      <4> QED
        BY <2>3, <3>2, <4>1
    <3> QED
      BY <2>1, <3>1, <3>2
  <2> QED
    BY <2>1, <2>4, ReplaceBegins
<1> QED
  BY <1>1, <1>2, BeginEffect

-----------------------------------------------------------------------------
(* The specification. *)

\* No capture has a file at first.
LEMMA InitHistory == Init => HistoryInv
<1> SUFFICES ASSUME Init PROVE HistoryInv
  OBVIOUS
<1>1. BaseInv
  BY InitBase
<1>2. Calls \cap Live = {}
  BY StorageAssumption DEF Init, StorageInit, Live, Staged, StorageAssumption
<1> QED
  BY <1>1, <1>2 DEF BaseInv, HistoryInv, ExcessOK

\* Every step keeps the invariant.
LEMMA HistoryStep == HistoryInv /\ [Next]_vars => HistoryInv'
<1> SUFFICES ASSUME HistoryInv, [Next]_vars PROVE BaseInv' /\ ExcessOK'
  BY DEF HistoryInv, BaseInv
<1>1. BaseInv /\ ExcessOK
  BY DEF HistoryInv, BaseInv
<1>2. ASSUME NEW c \in Calls, Begin(c) PROVE BaseInv' /\ ExcessOK'
  BY <1>1, <1>2, BeginBase, BeginExcess
<1>3. ASSUME NEW c \in Calls, Proceed(c) PROVE BaseInv' /\ ExcessOK'
  <2>1. overlapped' = overlapped /\ Step(c)
    BY <1>3 DEF Proceed
  <2>2. CASE Write(c)
    BY <1>1, <2>1, <2>2, WriteBase, WriteExcess
  <2>3. CASE Fail(c)
    BY <1>1, <2>1, <2>3, EndBase, EndExcess
  <2>4. CASE Open(c) \/ SyncFile(c) \/ Rename(c) \/ SyncDirectory(c)
    BY <1>1, <2>1, <2>4, QuietBase, QuietExcess
  <2> QED
    BY <2>1, <2>2, <2>3, <2>4 DEF Step
<1>4. CASE Die
  <2>1. overlapped' = overlapped
    BY <1>4 DEF Die
  <2>2. CASE PowerLoss
    BY <1>1, <2>1, <2>2, PowerBase, PowerExcess
  <2>3. ASSUME NEW c \in Calls, Crash(c) PROVE BaseInv' /\ ExcessOK'
    BY <1>1, <2>1, <2>3, EndBase, EndExcess
  <2> QED
    BY <1>4, <2>2, <2>3 DEF Die
<1>5. CASE UNCHANGED vars
  <2>1. UNCHANGED <<file, named, entry, pc, fd, text, overlapped>>
    BY <1>5 DEF vars, storage
  <2>2. TypeOK' = TypeOK
    BY <2>1 DEF TypeOK, StorageOK
  <2>3. OwnOK' = OwnOK /\ TextOK' = TextOK
    BY <2>1 DEF OwnOK, TextOK
  <2>4. OverlapOK' = OverlapOK
    BY <2>1 DEF OverlapOK, Active
  <2>5. Live' = Live /\ \A f \in Calls : Due(f)' = Due(f) /\ Whole(f)' = Whole(f)
    BY <2>1 DEF Live, Due, Staged, Whole
  <2>6. \A f \in Calls : Left(f)' = Left(f)
    BY <2>1, <2>5 DEF Left
  <2>7. ASSUME NEW f \in (Calls \cap Live)' PROVE Excess(f)'
    <3>1. f \in Calls /\ Excess(f)
      BY <1>1, <2>5, <2>7 DEF ExcessOK
    <3> QED
      BY <2>1, <2>5, <2>6, <3>1 DEF Excess, Ends
  <2> QED
    BY <1>1, <2>2, <2>3, <2>4, <2>7 DEF BaseInv, ExcessOK
<1> QED
  BY <1>2, <1>3, <1>4, <1>5 DEF Next, Finished

\* The inductive invariant holds, and with it TypeOK.
THEOREM HistoryTypes == Spec => []TypeOK
<1>1. HistoryInv => TypeOK
  BY DEF HistoryInv
<1> QED
  BY <1>1, InitHistory, HistoryStep, PTL DEF Spec

\* A compacted history exceeds its bounds by no more than the captures that
\* overlapped and the record that compaction added (network_history.cpp:30-38, 82-84),
\* whatever fails, crashes or loses power, for any number of captures and any bounds.
THEOREM ExcessAlwaysBounded == Spec => []ExcessBounded
<1>1. HistoryInv => ExcessBounded
  <2> SUFFICES ASSUME HistoryInv, named # Original
               PROVE  /\ Ends(Content) <= MaxRecords + Cardinality(overlapped)
                      /\ Len(Content) <= MaxBytes + Size(named) + LongSize * Cardinality(overlapped)
    BY DEF ExcessBounded, Ends
  <2>1. BaseInv /\ ExcessOK /\ OwnOK /\ named \in Files
    BY DEF HistoryInv, BaseInv, TypeOK, StorageOK
  <2>2. named \in Calls \cap Live
    BY <2>1 DEF Files, Live
  <2>3. Whole(named) = Content
    <3>1. pc[named] # "stage"
      BY <2>1, <2>2 DEF OwnOK
    <3> QED
      BY <3>1 DEF Whole, Content
  <2> DEFINE w == Len(Whole(named))  e == Ends(Whole(named))
             d == Cardinality(Due(named))  l == Cardinality(Left(named))
             o == Cardinality(overlapped)  b == LongSize * o
  <2>4. /\ w \in Nat /\ e \in Nat /\ d \in Nat /\ l \in Nat /\ o \in Nat
        /\ LongSize \in Nat /\ MaxRecords \in Nat /\ MaxBytes \in Nat /\ Size(named) \in Nat
    BY <2>1, Measures
  <2>5. b \in Nat
    BY <2>4
  <2>6. e + d <= MaxRecords + o /\ w + l <= MaxBytes + Size(named) + b
    BY <2>1, <2>2 DEF ExcessOK, Excess
  <2>7. e <= MaxRecords + o /\ w <= MaxBytes + Size(named) + b
    <3> HIDE DEF w, e, d, l, o, b
    <3> QED
      BY <2>4, <2>5, <2>6
  <2> QED
    BY <2>3, <2>7
<1> QED
  BY <1>1, InitHistory, HistoryStep, PTL DEF Spec

-----------------------------------------------------------------------------
(* Records that stand in a text. *)

Behind(s, p) == {i \in LineEnds(s) : i > p}

\* The record of c is in s, behind p chunks and within the first m, and begins
\* a line; s can be read; and it takes no more to retain all that is behind p
\* than what k captures may have written.
StandsAt(c, s, m, p, k) ==
    /\ Len(s) <= 2 * MaxBytes
    /\ p + Size(c) <= m /\ \A i \in 1..Size(c) : s[p + i] = <<c, i>>
    /\ p \in LineEnds(s) \cup {0}
    /\ Len(Closed(s)) - p <= LongSize * k
    /\ Cardinality(Behind(Closed(s), p)) <= k

\* The line ends behind p chunks are counted by a number.
LEMMA BehindTypes ==
  ASSUME NEW s \in Seq(Chunk), NEW p
  PROVE  IsFiniteSet(Behind(s, p)) /\ Cardinality(Behind(s, p)) \in Nat
<1>1. IsFiniteSet(LineEnds(s)) /\ Behind(s, p) \subseteq LineEnds(s)
  BY LineTypes DEF Behind
<1> QED
  BY <1>1, Larger

\* A text is closed, or closing it adds one chunk.
LEMMA ClosedCases ==
  ASSUME NEW s \in Seq(Chunk)
  PROVE  \/ Closed(s) = s /\ (s = <<>> \/ EndsLine(s[Len(s)]))
         \/ Len(Closed(s)) = Len(s) + 1 /\ s # <<>> /\ ~EndsLine(s[Len(s)])
<1>1. CASE s = <<>> \/ EndsLine(s[Len(s)])
  BY <1>1 DEF Closed
<1>2. CASE ~(s = <<>> \/ EndsLine(s[Len(s)]))
  <2>1. Closed(s) = Append(s, Break)
    BY <1>2 DEF Closed
  <2> QED
    BY <1>2, <2>1
<1> QED
  BY <1>1, <1>2

\* Closing a text keeps its line ends, and an open text gets one behind them.
LEMMA ClosedEnds ==
  ASSUME NEW s \in Seq(Chunk)
  PROVE  /\ LineEnds(s) \subseteq LineEnds(Closed(s))
         /\ LineEnds(Closed(s)) \subseteq LineEnds(s) \cup {Len(Closed(s))}
<1>1. /\ Closed(s) \in Seq(Chunk) /\ Len(s) \in Nat /\ Len(Closed(s)) \in {Len(s), Len(s) + 1}
      /\ \A i \in 1..Len(s) : Closed(s)[i] = s[i]
  BY ClosedFacts
<1> DEFINE z == Closed(s)
<1> HIDE DEF z
<1>2. Len(z) \in {Len(s), Len(s) + 1} /\ \A i \in 1..Len(s) : z[i] = s[i]
  BY <1>1 DEF z
<1>3. LineEnds(s) \subseteq LineEnds(z) /\ LineEnds(z) \subseteq LineEnds(s) \cup {Len(z)}
  BY <1>1, <1>2 DEF LineEnds
<1> QED
  BY <1>3 DEF z

\* A record behind a text that is closed.
LEMMA RecordBehind ==
  ASSUME NEW s \in Seq(Chunk), NEW c \in Calls
  PROVE  /\ s \o Record(c) \in Seq(Chunk) /\ Len(s) \in Nat
         /\ Len(s \o Record(c)) = Len(s) + Size(c)
         /\ \A i \in 1..Len(s) : (s \o Record(c))[i] = s[i]
         /\ \A i \in 1..Size(c) : (s \o Record(c))[Len(s) + i] = <<c, i>>
         /\ Closed(s \o Record(c)) = s \o Record(c)
         /\ LineEnds(s) \subseteq LineEnds(s \o Record(c))
         /\ LineEnds(s \o Record(c)) \subseteq LineEnds(s) \cup {Len(s) + Size(c)}
<1> DEFINE t == s \o Record(c)
<1>1. /\ Size(c) \in Nat /\ Size(c) >= 1 /\ Record(c) \in Seq(Chunk) /\ Len(Record(c)) = Size(c)
      /\ \A i \in 1..Size(c) : Record(c)[i] = <<c, i>> /\ (EndsLine(<<c, i>>) <=> i = Size(c))
  BY RecordFacts
<1>2. /\ t \in Seq(Chunk) /\ Len(s) \in Nat /\ Len(t) = Len(s) + Size(c)
      /\ \A i \in 1..Len(s) : t[i] = s[i]
      /\ \A i \in 1..Size(c) : t[Len(s) + i] = Record(c)[i]
  <2> DEFINE r == Record(c)
  <2>1. r \in Seq(Chunk) /\ Len(r) = Size(c) /\ t = s \o r
    BY <1>1
  <2> HIDE DEF r
  <2>2. /\ s \o r \in Seq(Chunk) /\ Len(s) \in Nat /\ Len(s \o r) = Len(s) + Len(r)
        /\ \A i \in 1..Len(s) : (s \o r)[i] = s[i]
        /\ \A i \in 1..Len(r) : (s \o r)[Len(s) + i] = r[i]
    BY <2>1, Joined
  <2> QED
    BY <2>1, <2>2 DEF r
<1> HIDE DEF t
<1>3. \A i \in 1..Size(c) : t[Len(s) + i] = <<c, i>>
  BY <1>1, <1>2
<1>4. EndsLine(t[Len(t)])
  <2>1. Size(c) \in 1..Size(c) /\ Len(t) = Len(s) + Size(c)
    BY <1>1, <1>2
  <2>2. t[Len(t)] = <<c, Size(c)>> /\ EndsLine(<<c, Size(c)>>)
    BY <1>1, <1>3, <2>1
  <2> QED
    BY <2>2
<1>5. Closed(t) = t
  BY <1>4 DEF Closed
<1>6. LineEnds(s) \subseteq LineEnds(t)
  BY <1>1, <1>2 DEF LineEnds
<1>7. ASSUME NEW i \in LineEnds(t), i \notin LineEnds(s) PROVE i = Len(s) + Size(c)
  <2>1. i \in 1..Len(s) + Size(c) /\ EndsLine(t[i])
    BY <1>2 DEF LineEnds
  <2>2. ~(i <= Len(s))
    BY <1>2, <1>7, <2>1 DEF LineEnds
  <2>3. i - Len(s) \in 1..Size(c) /\ Len(s) + (i - Len(s)) = i
    BY <1>1, <1>2, <2>1, <2>2
  <2>4. t[i] = <<c, i - Len(s)>>
    BY <1>3, <2>3
  <2>5. i - Len(s) = Size(c)
    BY <1>1, <2>1, <2>3, <2>4
  <2> QED
    BY <1>1, <1>2, <2>1, <2>5
<1> QED
  BY <1>2, <1>3, <1>5, <1>6, <1>7 DEF t

\* What is retained is closed.
LEMMA RetainedClosed ==
  ASSUME NEW content \in Seq(Chunk)
  PROVE  Closed(Retained(content)) = Retained(content)
<1> DEFINE s == Closed(content)  r == Retained(content)
<1>1. s \in Seq(Chunk) /\ Len(s) \in Nat /\ (s = <<>> \/ (Len(s) >= 1 /\ EndsLine(s[Len(s)])))
  BY ClosedFacts, LenProperties
<1>2. PICK n \in 0..Len(s) : r = SubSeq(s, n + 1, Len(s))
  BY RetainedFacts
<1> HIDE DEF s, r
<1>3. r \in Seq(Chunk) /\ Len(r) = Len(s) - n /\ \A i \in 1..Len(s) - n : r[i] = s[n + i]
  BY <1>1, <1>2, Parts
<1>4. CASE n = Len(s)
  <2>1. Len(r) = 0
    BY <1>1, <1>3, <1>4
  <2>2. r = <<>>
    BY <1>3, <2>1, EmptySeq
  <2> QED
    BY <2>2 DEF Closed, r
<1>5. CASE n # Len(s)
  <2>1. Len(r) \in 1..Len(s) - n /\ n + Len(r) = Len(s)
    BY <1>1, <1>3, <1>5
  <2>2. r[Len(r)] = s[Len(s)] /\ s # <<>>
    BY <1>3, <2>1, EmptySeq
  <2>3. EndsLine(r[Len(r)])
    BY <1>1, <2>2
  <2> QED
    BY <2>3 DEF Closed, r
<1> QED
  BY <1>4, <1>5

\* More may be written, and more be durable.
LEMMA StandsMore ==
  ASSUME NEW c \in Calls, NEW s, NEW m \in Nat, NEW n \in Nat, m <= n,
         NEW p \in Nat, NEW k \in Nat, NEW l \in Nat, k <= l,
         Closed(s) \in Seq(Chunk), StandsAt(c, s, m, p, k)
  PROVE  StandsAt(c, s, n, p, l)
<1>1. LongSize \in Nat /\ Size(c) \in Nat
  BY RecordFacts, HistoryAssumption DEF HistoryAssumption
<1> DEFINE a == LongSize * k  b == LongSize * l  z == Len(Closed(s))
           e == Cardinality(Behind(Closed(s), p))
<1>2. a \in Nat /\ b \in Nat /\ a <= b
  BY <1>1, Times
<1>3. z \in Nat /\ e \in Nat
  BY LenProperties, BehindTypes
<1>4. z - p <= a /\ e <= k /\ p + Size(c) <= m
  BY DEF StandsAt
<1> HIDE DEF a, b, z, e
<1>5. z - p <= b /\ e <= l /\ p + Size(c) <= n
  BY <1>1, <1>2, <1>3, <1>4
<1> QED
  BY <1>5 DEF StandsAt, b, z, e

\* A record stands in every part of a text that reaches behind it.
LEMMA StandsPrefix ==
  ASSUME NEW c \in Calls, NEW s \in Seq(Chunk), NEW m \in Nat, NEW n \in m..Len(s),
         NEW p \in Nat, NEW k \in Nat, StandsAt(c, s, m, p, k)
  PROVE  StandsAt(c, SubSeq(s, 1, n), m, p, k)
<1> DEFINE u == SubSeq(s, 1, n)  x == Closed(u)  z == Closed(s)
<1>1. /\ Len(s) \in Nat /\ n \in 0..Len(s) /\ p + Size(c) <= m /\ Size(c) >= 1 /\ Size(c) \in Nat
      /\ Len(s) <= 2 * MaxBytes /\ MaxBytes \in Nat
      /\ \A i \in 1..Size(c) : s[p + i] = <<c, i>>
      /\ p \in LineEnds(s) \cup {0} /\ LongSize * k \in Nat
      /\ Len(z) - p <= LongSize * k /\ Cardinality(Behind(z, p)) <= k
  BY LenProperties, RecordFacts, Times, HistoryAssumption DEF HistoryAssumption, StandsAt
<1>2. u \in Seq(Chunk) /\ Len(u) = n /\ \A i \in 1..n : u[i] = s[i]
  BY <1>1, Parts
<1>3. /\ z \in Seq(Chunk) /\ Len(z) \in {Len(s), Len(s) + 1} /\ LineEnds(s) \subseteq LineEnds(z)
      /\ z = <<>> \/ EndsLine(z[Len(z)])
  BY ClosedFacts, ClosedEnds
<1>4. /\ x \in Seq(Chunk) /\ LineEnds(x) \subseteq LineEnds(u) \cup {Len(x)}
      /\ \/ x = u
         \/ Len(x) = n + 1 /\ ~EndsLine(u[n]) /\ u # <<>>
  BY <1>2, ClosedFacts, ClosedEnds, ClosedCases
<1>5. LineEnds(u) \subseteq LineEnds(s) /\ LineEnds(u) \subseteq 1..n
  BY <1>1, <1>2 DEF LineEnds
<1>6. n = Len(s) => u = s
  <2>1. ASSUME n = Len(s) PROVE u = s
    BY <1>2, <2>1, SeqEqual
  <2> QED
    BY <2>1
<1>7. CASE n = Len(s)
  BY <1>6, <1>7
<1>8. CASE n # Len(s)
  <2>1. Len(x) <= Len(z) /\ Len(x) \in Nat /\ Len(z) \in Nat /\ n >= 1
    <3> HIDE DEF u, x, z
    <3>1. Len(x) \in {n, n + 1}
      BY <1>2, <1>4
    <3> QED
      BY <1>1, <1>3, <1>8, <3>1
  <2>2. Cardinality(Behind(x, p)) <= k /\ Cardinality(Behind(x, p)) \in Nat
    <3>1. IsFiniteSet(Behind(x, p)) /\ IsFiniteSet(Behind(z, p)) /\ Cardinality(Behind(z, p)) \in Nat
      BY <1>3, <1>4, BehindTypes
    <3>2. Len(z) \in Behind(z, p) /\ Len(z) \notin LineEnds(u)
      <4> HIDE DEF u, x, z
      <4>1. z # <<>> /\ Len(z) \in 1..Len(z) /\ Len(z) > n /\ Len(z) > p
        BY <1>1, <1>3, <1>8, <2>1, EmptySeq
      <4> QED
        BY <1>3, <1>5, <4>1 DEF Behind, LineEnds
    <3>3. Behind(u, p) \subseteq Behind(z, p) \ {Len(z)}
      BY <1>3, <1>5, <3>2 DEF Behind
    <3> HIDE DEF u, x, z
    <3>4. IsFiniteSet(Behind(z, p) \ {Len(z)})
          /\ Cardinality(Behind(z, p) \ {Len(z)}) = Cardinality(Behind(z, p)) - 1
      BY <3>1, <3>2, FS_RemoveElement
    <3>5. IsFiniteSet(Behind(u, p)) /\ Cardinality(Behind(u, p)) \in Nat
          /\ Cardinality(Behind(u, p)) <= Cardinality(Behind(z, p)) - 1
      BY <3>3, <3>4, Larger
    <3>6. Behind(x, p) \subseteq Behind(u, p) \cup {Len(x)}
      BY <1>4 DEF Behind
    <3>7. /\ IsFiniteSet(Behind(u, p) \cup {Len(x)})
          /\ Cardinality(Behind(u, p) \cup {Len(x)}) \in {Cardinality(Behind(u, p)), Cardinality(Behind(u, p)) + 1}
      BY <3>5, FS_AddElement
    <3>8. Cardinality(Behind(x, p)) \in Nat
          /\ Cardinality(Behind(x, p)) <= Cardinality(Behind(u, p) \cup {Len(x)})
      BY <3>6, <3>7, Larger
    <3> QED
      BY <1>1, <3>1, <3>5, <3>7, <3>8
  <2> DEFINE a == LongSize * k
  <2>3. a \in Nat /\ Len(z) - p <= a
    BY <1>1
  <2> HIDE DEF u, x, z, a
  <2>4. Len(x) - p <= a
    BY <2>1, <2>3
  <2>5. p \in LineEnds(u) \cup {0} /\ Len(u) <= 2 * MaxBytes
    BY <1>1, <1>2 DEF LineEnds
  <2>6. \A i \in 1..Size(c) : u[p + i] = <<c, i>>
    <3>1. \A i \in 1..Size(c) : p + i \in 1..n
      BY <1>1
    <3> QED
      BY <1>1, <1>2, <3>1
  <2> QED
    BY <1>1, <2>2, <2>4, <2>5, <2>6 DEF StandsAt, u, x, a
<1> QED
  BY <1>7, <1>8

\* A record stands where it is put, behind a text that is closed.
LEMMA StandsOwn ==
  ASSUME NEW c \in Calls, NEW s \in Seq(Chunk), Closed(s) = s, Len(s) + Size(c) <= 2 * MaxBytes
  PROVE  StandsAt(c, s \o Record(c), Len(s \o Record(c)), Len(s), 1)
<1> DEFINE t == s \o Record(c)
<1>1. /\ t \in Seq(Chunk) /\ Len(s) \in Nat /\ Len(t) = Len(s) + Size(c) /\ Closed(t) = t
      /\ \A i \in 1..Size(c) : t[Len(s) + i] = <<c, i>>
      /\ LineEnds(s) \subseteq LineEnds(t) /\ LineEnds(t) \subseteq LineEnds(s) \cup {Len(s) + Size(c)}
  BY RecordBehind
<1>2. Size(c) \in Nat /\ Size(c) <= LongSize /\ LongSize \in Nat
  BY RecordFacts, HistoryAssumption DEF HistoryAssumption
<1>3. Len(s) \in LineEnds(s) \cup {0}
  BY <1>1, ClosedFacts DEF LineEnds
<1>4. LineEnds(s) \subseteq 1..Len(s)
  BY LineTypes
<1> HIDE DEF t
<1>5. Behind(t, Len(s)) \subseteq {Len(t)}
  BY <1>1, <1>4 DEF Behind
<1>6. Cardinality(Behind(t, Len(s))) <= 1
  <2>1. IsFiniteSet({Len(t)}) /\ Cardinality({Len(t)}) = 1
    BY FS_Singleton
  <2> QED
    BY <1>5, <2>1, Larger
<1>7. Len(t) - Len(s) <= LongSize * 1
  BY <1>1, <1>2
<1> QED
  <2>1. Len(s) \in LineEnds(t) \cup {0} /\ Len(s) + Size(c) <= Len(t) /\ Len(t) <= 2 * MaxBytes
    BY <1>1, <1>2, <1>3
  <2>2. StandsAt(c, t, Len(t), Len(s), 1)
    BY <1>1, <1>6, <1>7, <2>1 DEF StandsAt
  <2> QED
    BY <2>2 DEF t

\* It stands when another record is put behind it.
LEMMA StandsBehind ==
  ASSUME NEW c \in Calls, NEW d \in Calls, NEW s \in Seq(Chunk), NEW m \in Nat, NEW p \in Nat,
         NEW k \in Nat, m <= Len(s), Closed(s) = s, Len(s) + Size(d) <= 2 * MaxBytes,
         StandsAt(c, s, m, p, k)
  PROVE  StandsAt(c, s \o Record(d), m, p, k + 1)
<1> DEFINE t == s \o Record(d)
<1>1. /\ t \in Seq(Chunk) /\ Len(s) \in Nat /\ Len(t) = Len(s) + Size(d) /\ Closed(t) = t
      /\ \A i \in 1..Len(s) : t[i] = s[i]
      /\ LineEnds(s) \subseteq LineEnds(t) /\ LineEnds(t) \subseteq LineEnds(s) \cup {Len(s) + Size(d)}
  BY RecordBehind
<1>2. Size(d) \in Nat /\ Size(d) <= LongSize /\ LongSize \in Nat /\ Size(c) \in Nat
  BY RecordFacts, HistoryAssumption DEF HistoryAssumption
<1>3. /\ p + Size(c) <= m /\ \A i \in 1..Size(c) : s[p + i] = <<c, i>>
      /\ p \in LineEnds(s) \cup {0} /\ Len(s) - p <= LongSize * k
      /\ Cardinality(Behind(s, p)) <= k
  BY DEF StandsAt
<1> HIDE DEF t
<1>4. Cardinality(Behind(t, p)) <= k + 1
  <2>1. Behind(t, p) \subseteq Behind(s, p) \cup {Len(t)}
    BY <1>1 DEF Behind
  <2>2. IsFiniteSet(Behind(s, p)) /\ Cardinality(Behind(s, p)) \in Nat
    BY BehindTypes
  <2>3. /\ IsFiniteSet(Behind(s, p) \cup {Len(t)})
        /\ Cardinality(Behind(s, p) \cup {Len(t)}) \in {Cardinality(Behind(s, p)), Cardinality(Behind(s, p)) + 1}
    BY <2>2, FS_AddElement
  <2>4. Cardinality(Behind(t, p)) \in Nat
        /\ Cardinality(Behind(t, p)) <= Cardinality(Behind(s, p) \cup {Len(t)})
    BY <2>1, <2>3, Larger
  <2> QED
    BY <1>3, <2>2, <2>3, <2>4
<1>5. Len(t) - p <= LongSize * (k + 1)
  <2> DEFINE a == LongSize * k
  <2>1. a \in Nat /\ LongSize * (k + 1) = a + LongSize
    BY <1>2
  <2>2. Len(s) - p <= a
    BY <1>3
  <2> HIDE DEF a
  <2>3. Len(t) - p <= a + LongSize
    BY <1>1, <1>2, <2>1, <2>2
  <2> QED
    BY <2>1, <2>3
<1>6. \A i \in 1..Size(c) : t[p + i] = <<c, i>>
  <2>1. \A i \in 1..Size(c) : p + i \in 1..Len(s)
    BY <1>1, <1>2, <1>3
  <2> QED
    BY <1>1, <1>3, <2>1
<1> QED
  BY <1>1, <1>3, <1>4, <1>5, <1>6 DEF StandsAt, t

\* What is retained has it when few captures have begun.
LEMMA StandsRetained ==
  ASSUME NEW c \in Calls, NEW s \in Seq(Chunk), NEW m \in 0..Len(s), NEW p \in Nat, NEW k \in Nat,
         k < MaxRecords, LongSize * k <= MaxBytes, StandsAt(c, s, m, p, k)
  PROVE  \E q \in Nat : StandsAt(c, Retained(s), Len(Retained(s)), q, k)
<1> DEFINE z == Closed(s)  r == Retained(s)
<1>1. /\ p + Size(c) <= m /\ \A i \in 1..Size(c) : s[p + i] = <<c, i>>
      /\ p \in LineEnds(s) \cup {0}
      /\ Len(z) - p <= LongSize * k /\ Cardinality(Behind(z, p)) <= k
  BY DEF StandsAt
<1>2. /\ z \in Seq(Chunk) /\ Len(s) \in Nat /\ Len(z) \in {Len(s), Len(s) + 1}
      /\ \A i \in 1..Len(s) : z[i] = s[i]
      /\ LineEnds(s) \subseteq LineEnds(z)
  BY ClosedFacts, ClosedEnds
<1>3. Size(c) \in Nat /\ Size(c) >= 1 /\ MaxRecords \in Nat /\ MaxBytes \in Nat /\ LongSize * k \in Nat
  BY RecordFacts, Times, HistoryAssumption DEF HistoryAssumption
<1>4. PICK n \in 0..Len(z) : /\ \A j \in LineEnds(z) \cup {0} : Retainable(z, j) => n <= j
                             /\ r = SubSeq(z, n + 1, Len(z))
  BY RetainedFacts
<1>5. Closed(r) = r /\ r \in Seq(Chunk) /\ Len(r) <= MaxBytes
  BY RetainedClosed, RetainedFits
<1>6. IsFiniteSet(Behind(z, p)) /\ Cardinality(Behind(z, p)) \in Nat
  BY <1>2, BehindTypes
<1> DEFINE a == LongSize * k
<1>7. a \in Nat /\ a <= MaxBytes /\ Len(z) - p <= a
  BY <1>1, <1>3
<1> HIDE DEF z, r, a
<1>8. Len(r) = Len(z) - n /\ \A i \in 1..Len(z) - n : r[i] = z[n + i]
  BY <1>2, <1>4, Parts
<1>9. n <= p
  <2>1. p \in LineEnds(z) \cup {0}
    BY <1>1, <1>2
  <2>2. Len(z) - p <= MaxBytes /\ Cardinality({i \in LineEnds(z) : i > p}) < MaxRecords
    <3>1. Len(z) - p <= MaxBytes
      BY <1>2, <1>3, <1>7
    <3>2. Cardinality(Behind(z, p)) < MaxRecords
      BY <1>1, <1>3, <1>6 DEF z
    <3> QED
      BY <3>1, <3>2 DEF Behind
  <2> QED
    BY <1>4, <2>1, <2>2 DEF Retainable
<1> DEFINE q == p - n
<1>10. q \in Nat /\ n + q = p /\ q + Size(c) <= Len(r) /\ Len(r) - q = Len(z) - p /\ Len(r) \in Nat
       /\ n \in Nat /\ Len(z) \in Nat
  <2>1. n \in Nat /\ n <= p /\ Len(z) \in Nat /\ Len(s) <= Len(z) /\ n <= Len(z) /\ Len(r) = Len(z) - n
    BY <1>2, <1>4, <1>8, <1>9
  <2>2. p + Size(c) <= Len(s) /\ Size(c) \in Nat /\ Len(s) \in Nat
    BY <1>1, <1>2, <1>3
  <2> QED
    BY <2>1, <2>2
<1> HIDE DEF q
<1>11. \A i \in 1..Size(c) : r[q + i] = <<c, i>>
  <2>1. \A i \in 1..Size(c) : q + i \in 1..Len(z) - n /\ n + (q + i) = p + i /\ p + i \in 1..Len(s)
    <3>1. ASSUME NEW i \in 1..Size(c)
          PROVE  q + i \in 1..Len(z) - n /\ n + (q + i) = p + i
      <4>1. q + Size(c) <= Len(z) - n
        BY <1>8, <1>10
      <4> QED
        BY <1>3, <1>10, <4>1
    <3>2. ASSUME NEW i \in 1..Size(c) PROVE p + i \in 1..Len(s)
      BY <1>1, <1>2, <1>3
    <3> QED
      BY <3>1, <3>2
  <2>2. \A i \in 1..Size(c) : r[q + i] = z[n + (q + i)]
    BY <1>8, <2>1
  <2> QED
    BY <1>1, <1>2, <2>1, <2>2
<1>12. q \in LineEnds(r) \cup {0}
  <2>1. CASE q # 0
    <3>1. q \in 1..Len(r) /\ q \in 1..Len(z) - n /\ p # 0
      BY <1>3, <1>8, <1>10, <2>1
    <3>2. EndsLine(z[p]) /\ r[q] = z[p]
      BY <1>1, <1>2, <1>8, <1>10, <3>1 DEF LineEnds
    <3> QED
      BY <3>1, <3>2 DEF LineEnds
  <2> QED
    BY <2>1
<1>13. Cardinality(Behind(r, q)) <= k
  <2>1. \A i \in Behind(r, q) : i \in Int /\ n + i \in Behind(z, p)
    <3>1. ASSUME NEW i \in Behind(r, q) PROVE i \in Int /\ n + i \in Behind(z, p)
      <4>1. i \in 1..Len(r) /\ EndsLine(r[i]) /\ i > q
        BY DEF Behind, LineEnds
      <4>2. n + i \in 1..Len(z) /\ i \in 1..Len(z) - n /\ n + i > p
        <5>1. i \in 1..Len(z) - n
          BY <1>8, <4>1
        <5> QED
          BY <1>10, <4>1, <5>1
      <4>3. EndsLine(z[n + i])
        BY <1>8, <4>1, <4>2
      <4> QED
        BY <4>1, <4>2, <4>3 DEF Behind, LineEnds
    <3> QED
      BY <3>1
  <2> DEFINE S == Behind(r, q)  T == Behind(z, p)
  <2> HIDE DEF S, T
  <2>2. [i \in S |-> n + i] \in Injection(S, T)
    <3>1. \A i \in S : i \in Int /\ n + i \in T
      BY <2>1 DEF S, T
    <3>2. \A i \in S, j \in S : n + i = n + j => i = j
      BY <1>10, <3>1
    <3> QED
      BY <3>1, <3>2, Fun_IsInj
  <2>3. IsFiniteSet(T)
    BY <1>6 DEF T
  <2>4. IsFiniteSet(S) /\ Cardinality(S) <= Cardinality(T)
    BY <2>2, <2>3, FS_Injection
  <2>5. Cardinality(S) \in Nat
    BY <2>4, FS_CardinalityType
  <2> QED
    BY <1>1, <1>6, <2>4, <2>5 DEF S, T, z
<1>14. Len(r) - q <= LongSize * k /\ Len(r) <= 2 * MaxBytes
  BY <1>3, <1>5, <1>7, <1>10 DEF a
<1> QED
  BY <1>5, <1>10, <1>11, <1>12, <1>13, <1>14 DEF StandsAt, r

\* A record that stands in the history is held by it.
LEMMA StandsHeld ==
  ASSUME NEW c \in Calls, NEW p \in Nat, NEW k, NEW m \in Nat, Content \in Seq(Chunk),
         m <= Len(Content), StandsAt(c, Content, m, p, k)
  PROVE  Held(c)
<1> DEFINE s == Content  n == Size(c)
<1>1. /\ p + n <= m /\ n \in Nat /\ n >= 1 /\ Len(s) \in Nat
      /\ \A i \in 1..n : s[p + i] = <<c, i>>
      /\ Record(c) \in Seq(Chunk) /\ Len(Record(c)) = n /\ \A i \in 1..n : Record(c)[i] = <<c, i>>
      /\ \A i \in 1..Len(s) : s[i] \in Chunk
  <2>1. /\ n \in Nat /\ n >= 1 /\ Record(c) \in Seq(Chunk) /\ Len(Record(c)) = n
        /\ \A i \in 1..n : Record(c)[i] = <<c, i>>
    <3>1. Size(c) \in Nat /\ Size(c) >= 1 /\ Record(c) \in Seq(Chunk) /\ Len(Record(c)) = Size(c)
      BY RecordFacts
    <3>2. \A i \in 1..Size(c) : Record(c)[i] = <<c, i>>
      BY DEF Record
    <3> QED
      BY <3>1, <3>2
  <2>2. p + n <= m /\ \A i \in 1..n : s[p + i] = <<c, i>>
    BY DEF StandsAt
  <2>3. Len(s) \in Nat /\ \A i \in 1..Len(s) : s[i] \in Chunk
    <3> HIDE DEF s
    <3>1. s \in Seq(Chunk)
      BY DEF s
    <3> QED
      BY <3>1, LenProperties, ElementOfSeq
  <2> QED
    BY <2>1, <2>2, <2>3
<1> DEFINE u == SubSeq(s, p + 1, p + n)
<1> HIDE DEF s, n
<1>2. /\ u \in Seq(Chunk) /\ Len(u) = IF p + 1 <= p + n THEN (p + n) - (p + 1) + 1 ELSE 0
      /\ \A i \in 1..(p + n) - (p + 1) + 1 : u[i] = s[(p + 1) + i - 1]
  <2>1. p + n <= Len(s)
    BY <1>1 DEF s
  <2>2. \A i \in (p + 1)..(p + n) : s[i] \in Chunk
    BY <1>1, <2>1
  <2>3. p + 1 \in Int /\ p + n \in Int
    BY <1>1
  <2> QED
    BY <2>2, <2>3, SubSeqProperties
<1>3. Len(u) = n /\ (p + n) - (p + 1) + 1 = n /\ \A i \in 1..n : (p + 1) + i - 1 = p + i
  BY <1>1, <1>2
<1>4. \A i \in 1..n : u[i] = Record(c)[i]
  BY <1>1, <1>2, <1>3
<1> HIDE DEF u
<1>5. u = Record(c)
  BY <1>1, <1>2, <1>3, <1>4, SeqEqual
<1>6. p \in 0..Len(s) /\ p + n <= Len(s)
  BY <1>1 DEF s
<1> QED
  BY <1>5, <1>6 DEF Held, s, n, u

-----------------------------------------------------------------------------
(* The records of captures that did not overlap. *)

\* The bounds leave room for the records of all captures.
Room == /\ IsFiniteSet(Calls) /\ Cardinality(Calls) <= MaxRecords
        /\ LongSize * Cardinality(Calls) <= MaxBytes

Begun == {c \in Calls : pc[c] # "start"}
Count == Cardinality(Begun)

Stands(c, s, m, k) == \E p \in Nat : StandsAt(c, s, m, p, k)

\* What of a file outlives what may happen: all, or what is durable of the one
\* that the path leads to after a power loss.
Safe(f) == IF f = entry THEN file[f].synced ELSE Len(file[f].data)

\* What the file that c writes holds once c has written it.
Working    == {c \in Calls : pc[c] \in {"open", "write", "stage", "rename", "syncdir"}}
Planned(c) == file[IF pc[c] = "open" THEN named ELSE fd[c]].data \o text[c]
Mark(c)    == IF pc[c] \in {"open", "write"} THEN Safe(named) ELSE Len(Planned(c))

Ordered(c) ==
    /\ pc[c] = "write" => fd[c] = named
    /\ pc[c] \in {"rename", "syncdir"} =>
          text[c] = <<>> /\ fd[c] = c /\ file[c].synced = Len(file[c].data)
    /\ pc[c] = "syncdir" => named = c

Alone == \A c, d \in Active : c = d

Kept == \A c \in Calls : pc[c] = "ok" =>
           \A f \in {named, entry} : Stands(c, file[f].data, Safe(f), Count)

Coming == \A d \in Working :
    /\ Stands(d, Planned(d), Len(Planned(d)), Count)
    /\ \A c \in Calls : pc[c] = "ok" => Stands(c, Planned(d), Mark(d), Count)
    /\ Ordered(d)

SavedInv == overlapped = {} => Alone /\ Kept /\ Coming

\* A record that stands goes on standing when more is durable and more have begun.
LEMMA StandsOn ==
  ASSUME NEW c \in Calls, NEW s \in Seq(Chunk), NEW m \in Nat, NEW n \in Nat, m <= n,
         NEW k \in Nat, NEW l \in Nat, k <= l, Stands(c, s, m, k)
  PROVE  Stands(c, s, n, l)
<1>1. PICK p \in Nat : StandsAt(c, s, m, p, k)
  BY DEF Stands
<1>2. Closed(s) \in Seq(Chunk)
  BY ClosedFacts
<1> QED
  BY <1>1, <1>2, StandsMore DEF Stands

\* It stands in what is there of the text so far, or still.
LEMMA StandsIn ==
  ASSUME NEW c \in Calls, NEW s \in Seq(Chunk), NEW m \in Nat, NEW n \in m..Len(s),
         NEW k \in Nat, Stands(c, s, m, k)
  PROVE  Stands(c, SubSeq(s, 1, n), m, k)
BY StandsPrefix DEF Stands

\* The beginning of two texts that ends in the second.
LEMMA Beginning ==
  ASSUME NEW s \in Seq(Chunk), NEW t \in Seq(Chunk), NEW n \in 0..Len(t)
  PROVE  /\ Len(s) + n \in 0..Len(s \o t)
         /\ SubSeq(s \o t, 1, Len(s) + n) = s \o SubSeq(t, 1, n)
<1> DEFINE u == SubSeq(t, 1, n)  v == s \o t  x == s \o u  y == SubSeq(v, 1, Len(s) + n)
<1>1. /\ u \in Seq(Chunk) /\ Len(u) = n /\ \A i \in 1..n : u[i] = t[i]
      /\ Len(t) \in Nat /\ Len(s) \in Nat /\ n \in Nat /\ n <= Len(t)
  BY Parts, LenProperties
<1>2. /\ v \in Seq(Chunk) /\ Len(v) = Len(s) + Len(t)
      /\ \A i \in 1..Len(s) : v[i] = s[i]
      /\ \A i \in 1..Len(t) : v[Len(s) + i] = t[i]
  BY Joined
<1> HIDE DEF u
<1>3. /\ x \in Seq(Chunk) /\ Len(x) = Len(s) + n
      /\ \A i \in 1..Len(s) : x[i] = s[i]
      /\ \A i \in 1..n : x[Len(s) + i] = u[i]
  BY <1>1, Joined
<1> HIDE DEF v, x
<1>4. Len(s) + n \in 0..Len(v)
  BY <1>1, <1>2
<1>5. y \in Seq(Chunk) /\ Len(y) = Len(s) + n /\ \A i \in 1..Len(s) + n : y[i] = v[i]
  BY <1>2, <1>4, Parts
<1> HIDE DEF y
<1>6. \A i \in 1..Len(s) + n : x[i] = y[i]
  <2>1. ASSUME NEW i \in 1..Len(s) + n PROVE x[i] = v[i]
    <3>1. CASE i <= Len(s)
      BY <1>1, <1>2, <1>3, <3>1
    <3>2. CASE ~(i <= Len(s))
      <4>1. i - Len(s) \in 1..n /\ i - Len(s) \in 1..Len(t) /\ Len(s) + (i - Len(s)) = i
        BY <1>1, <3>2
      <4> QED
        BY <1>1, <1>2, <1>3, <4>1
    <3> QED
      BY <3>1, <3>2
  <2> QED
    BY <1>5, <2>1
<1>7. x = y
  BY <1>3, <1>5, <1>6, SeqEqual
<1> QED
  BY <1>4, <1>7 DEF v, x, y, u

\* How many have begun.
LEMMA BegunGrows ==
  ASSUME Room, \A c \in Calls : pc'[c] = "start" => pc[c] = "start"
  PROVE  Count \in Nat /\ Count' \in Nat /\ Count <= Count' /\ Count <= Cardinality(Calls)
<1>1. Begun \subseteq Begun' /\ Begun' \subseteq Calls
  BY DEF Begun
<1>2. IsFiniteSet(Begun')
  BY <1>1, FS_Subset DEF Room
<1>3. /\ Cardinality(Begun) \in Nat /\ Cardinality(Begun') \in Nat
      /\ Cardinality(Begun) <= Cardinality(Begun')
  BY <1>1, <1>2, Larger
<1>4. Begun \subseteq Calls
  BY DEF Begun
<1>5. Cardinality(Begun) <= Cardinality(Calls)
  BY <1>4, Larger DEF Room
<1> QED
  BY <1>3, <1>5 DEF Count

\* Files, and what of them is safe.
LEMMA SafeTypes ==
  ASSUME TypeOK, NEW f \in Files
  PROVE  /\ file[f].data \in Seq(Chunk) /\ Len(file[f].data) \in Nat /\ file[f].synced \in Nat
         /\ Safe(f) \in Nat /\ Safe(f) <= Len(file[f].data)
<1>1. file[f].data \in Seq(Chunk) /\ file[f].synced \in Nat /\ file[f].synced <= Len(file[f].data)
  BY DEF TypeOK, StorageOK
<1>2. Len(file[f].data) \in Nat
  BY <1>1, LenProperties
<1> QED
  BY <1>1, <1>2 DEF Safe

\* What a working capture writes.
LEMMA PlannedTypes ==
  ASSUME TypeOK, NEW d \in Working
  PROVE  /\ Planned(d) \in Seq(Chunk) /\ Len(Planned(d)) \in Nat
         /\ Mark(d) \in Nat /\ named \in Files /\ entry \in Files /\ fd[d] \in Files
         /\ text[d] \in Seq(Chunk) /\ d \in Calls
<1>1. /\ named \in Files /\ entry \in Files /\ fd[d] \in Files /\ text[d] \in Seq(Chunk) /\ d \in Calls
  BY DEF TypeOK, StorageOK, Working
<1>2. Planned(d) \in Seq(Chunk)
  <2>1. (IF pc[d] = "open" THEN named ELSE fd[d]) \in Files
    BY <1>1
  <2>2. file[IF pc[d] = "open" THEN named ELSE fd[d]].data \in Seq(Chunk)
    BY <2>1 DEF TypeOK, StorageOK
  <2> QED
    BY <1>1, <2>2, ConcatProperties DEF Planned
<1>3. Len(Planned(d)) \in Nat
  BY <1>2, LenProperties
<1>4. Safe(named) \in Nat
  BY <1>1, SafeTypes
<1> QED
  BY <1>1, <1>2, <1>3, <1>4 DEF Mark

\* Nothing that is kept is lost by a step that leaves the files that count.
LEMMA KeptStep ==
  ASSUME Room, TypeOK, Kept,
         \A c \in Calls : /\ pc'[c] = "ok" => pc[c] = "ok"
                          /\ pc'[c] = "start" => pc[c] = "start",
         \A f \in {named', entry'} :
            f \in {named, entry} /\ file'[f].data = file[f].data /\ Safe(f)' \in Nat /\ Safe(f) <= Safe(f)'
  PROVE  Kept'
<1>1. Count \in Nat /\ Count' \in Nat /\ Count <= Count'
  BY BegunGrows
<1>2. ASSUME NEW c \in Calls, pc'[c] = "ok", NEW f \in {named', entry'}
      PROVE  Stands(c, file'[f].data, Safe(f)', Count')
  <2>1. f \in {named, entry} /\ file'[f].data = file[f].data /\ Safe(f)' \in Nat /\ Safe(f) <= Safe(f)'
    BY <1>2
  <2>2. f \in Files
    BY <2>1 DEF TypeOK, StorageOK
  <2>3. file[f].data \in Seq(Chunk) /\ Safe(f) \in Nat
    BY <2>2, SafeTypes
  <2>4. Stands(c, file[f].data, Safe(f), Count)
    BY <1>2, <2>1 DEF Kept
  <2>5. Stands(c, file[f].data, Safe(f)', Count')
    BY <1>1, <2>1, <2>3, <2>4, StandsOn
  <2> QED
    BY <2>1, <2>5
<1> QED
  BY <1>2 DEF Kept

\* Nor is what is coming, by a step that leaves what is planned.
LEMMA ComingStep ==
  ASSUME Room, TypeOK, Coming,
         \A c \in Calls : /\ pc'[c] = "ok" => pc[c] = "ok"
                          /\ pc'[c] = "start" => pc[c] = "start",
         NEW d \in Working, Planned(d)' = Planned(d), Mark(d)' \in Nat, Mark(d) <= Mark(d)'
  PROVE  /\ Stands(d, Planned(d), Len(Planned(d)), Count)'
         /\ \A c \in Calls : pc'[c] = "ok" => Stands(c, Planned(d), Mark(d), Count)'
<1>1. Count \in Nat /\ Count' \in Nat /\ Count <= Count'
  BY BegunGrows
<1>2. Planned(d) \in Seq(Chunk) /\ Len(Planned(d)) \in Nat /\ Mark(d) \in Nat /\ d \in Calls
  BY PlannedTypes
<1>3. Stands(d, Planned(d), Len(Planned(d)), Count')
  <2>1. Stands(d, Planned(d), Len(Planned(d)), Count)
    BY DEF Coming
  <2> QED
    BY <1>1, <1>2, <2>1, StandsOn
<1>4. ASSUME NEW c \in Calls, pc'[c] = "ok" PROVE Stands(c, Planned(d), Mark(d)', Count')
  <2>1. Stands(c, Planned(d), Mark(d), Count)
    BY <1>4 DEF Coming
  <2> QED
    BY <1>1, <1>2, <2>1, StandsOn
<1> QED
  BY <1>3, <1>4

\* Opening keeps everything.
LEMMA OpenSaved ==
  ASSUME Room, BaseInv, SavedInv, NEW d \in Calls, Open(d), overlapped' = overlapped
  PROVE  SavedInv'
<1> SUFFICES ASSUME overlapped' = {} PROVE Alone' /\ Kept' /\ Coming'
  BY DEF SavedInv
<1>1. TypeOK /\ OwnOK /\ Alone /\ Kept /\ Coming /\ Active' \subseteq Active
  BY QuietBase DEF BaseInv, SavedInv
<1>2. /\ pc[d] = "open" /\ pc'[d] = "write" /\ fd'[d] = named /\ d \in Working /\ d \in Working'
      /\ UNCHANGED <<file, named, entry, text>>
      /\ \A c \in Calls \ {d} : pc'[c] = pc[c] /\ fd'[c] = fd[c]
  BY <1>1 DEF Open, At, Goto, TypeOK, StorageOK, Working
<1>3. Alone'
  BY <1>1 DEF Alone
<1>4. \A f \in Files : file'[f] = file[f] /\ Safe(f)' = Safe(f) /\ Safe(f) \in Nat
  BY <1>1, <1>2, SafeTypes DEF Safe
<1>5. Kept'
  BY <1>1, <1>2, <1>4, KeptStep DEF TypeOK, StorageOK
<1>6. Planned(d)' = Planned(d)
  BY <1>2 DEF Planned
<1>7. Mark(d)' = Mark(d) /\ Mark(d) \in Nat
  BY <1>1, <1>2, <1>4, PlannedTypes DEF Mark, TypeOK, StorageOK
<1>8. /\ Stands(d, Planned(d), Len(Planned(d)), Count)'
      /\ \A c \in Calls : pc'[c] = "ok" => Stands(c, Planned(d), Mark(d), Count)'
  BY <1>1, <1>2, <1>6, <1>7, ComingStep
<1>9. Ordered(d)'
  BY <1>2 DEF Ordered
<1>10. \A e \in Working' : e = d
  BY <1>1, <1>2 DEF Working, Active, Alone, Ended
<1> QED
  BY <1>3, <1>5, <1>8, <1>9, <1>10 DEF Coming

\* So does writing.
LEMMA WriteSaved ==
  ASSUME Room, BaseInv, SavedInv, NEW d \in Calls, Write(d), overlapped' = overlapped
  PROVE  SavedInv'
<1> SUFFICES ASSUME overlapped' = {} PROVE Alone' /\ Kept' /\ Coming'
  BY DEF SavedInv
<1>1. TypeOK /\ TypeOK' /\ OwnOK /\ Alone /\ Kept /\ Coming /\ Active' = Active
  BY WriteBase DEF BaseInv, SavedInv
<1>2. /\ pc[d] \in {"write", "stage"} /\ UNCHANGED <<named, entry, pc, fd>>
      /\ file'[fd[d]].synced = file[fd[d]].synced
      /\ \A g \in Files \ {fd[d]} : file'[g] = file[g]
  BY WriteEffect
<1>3. PICK n \in 1..Len(text[d]) :
         /\ file'[fd[d]].data = file[fd[d]].data \o SubSeq(text[d], 1, n)
         /\ text'[d] = SubSeq(text[d], n + 1, Len(text[d]))
  BY WriteEffect
<1>4. /\ d \in Working /\ d \in Working' /\ fd[d] \in Files /\ text[d] \in Seq(Chunk)
      /\ n \in 0..Len(text[d]) /\ Len(text[d]) \in Nat
      /\ file[fd[d]].data \in Seq(Chunk) /\ Len(file[fd[d]].data) \in Nat
      /\ named \in Files /\ entry \in Files
  BY <1>1, <1>2, LenProperties DEF TypeOK, StorageOK, Working
<1>5. Planned(d) = file[fd[d]].data \o text[d] /\ Planned(d)' = Planned(d)
  <2>1. (file[fd[d]].data \o SubSeq(text[d], 1, n)) \o SubSeq(text[d], n + 1, Len(text[d]))
           = file[fd[d]].data \o text[d]
    BY <1>4, SameWhole
  <2>2. pc[d] # "open" /\ pc'[d] # "open" /\ fd'[d] = fd[d]
    BY <1>2
  <2> QED
    BY <1>3, <2>1, <2>2 DEF Planned
<1>6. Alone' /\ Working' = Working
  BY <1>1, <1>2 DEF Alone, Working
<1>7. /\ Len(file'[fd[d]].data) = Len(file[fd[d]].data) + n
      /\ Len(file[fd[d]].data) <= Len(file'[fd[d]].data) /\ Len(file'[fd[d]].data) \in Nat
  <2>1. SubSeq(text[d], 1, n) \in Seq(Chunk) /\ Len(SubSeq(text[d], 1, n)) = n
    BY <1>4, Parts
  <2>2. Len(file[fd[d]].data \o SubSeq(text[d], 1, n)) = Len(file[fd[d]].data) + n
    BY <1>4, <2>1, Joined
  <2> QED
    BY <1>3, <1>4, <2>2
<1>8. \A f \in Files : Safe(f) \in Nat /\ Safe(f)' \in Nat /\ Safe(f) <= Safe(f)'
  <2>1. ASSUME NEW f \in Files PROVE Safe(f)' \in Nat /\ Safe(f) <= Safe(f)'
    <3>1. CASE f = fd[d]
      <4>1. Safe(f)' = IF f = entry THEN file[f].synced ELSE Len(file'[f].data)
        BY <1>2, <3>1 DEF Safe
      <4>2. file[f].synced \in Nat
        BY <1>1, SafeTypes
      <4> QED
        BY <1>7, <3>1, <4>1, <4>2 DEF Safe
    <3>2. CASE f # fd[d]
      <4>1. Safe(f)' = Safe(f)
        BY <1>2, <3>2 DEF Safe
      <4>2. Safe(f) \in Nat
        BY <1>1, SafeTypes
      <4> QED
        BY <4>1, <4>2
    <3> QED
      BY <3>1, <3>2
  <2>2. \A f \in Files : Safe(f) \in Nat
    BY <1>1, SafeTypes
  <2> QED
    BY <2>1, <2>2
<1>9. Safe(named)' \in Nat /\ Safe(named) <= Safe(named)' /\ Safe(named) \in Nat
  <2>1. PICK g \in Files : g = named
    BY <1>4
  <2>2. Safe(named)' = Safe(g)' /\ Safe(named) = Safe(g)
    BY <1>2, <2>1 DEF Safe
  <2> QED
    BY <1>8, <2>2
<1>10. Safe(entry)' \in Nat /\ Safe(entry) <= Safe(entry)' /\ Safe(entry) \in Nat
  <2>1. PICK g \in Files : g = entry
    BY <1>4
  <2>2. Safe(entry)' = Safe(g)' /\ Safe(entry) = Safe(g)
    BY <1>2, <2>1 DEF Safe
  <2> QED
    BY <1>8, <2>2
<1>11. Count \in Nat /\ Count' \in Nat /\ Count <= Count'
  BY <1>2, BegunGrows
<1>12. Kept'
  <2>1. CASE pc[d] = "write"
    <3>1. fd[d] = named
      BY <1>1, <1>4, <2>1 DEF Coming, Ordered
    <3>2. ASSUME NEW c \in Calls, pc'[c] = "ok" PROVE Stands(c, file'[named].data, Safe(named)', Count')
      <4>1. Stands(c, Planned(d), Safe(named), Count)
        BY <1>1, <1>2, <1>4, <2>1, <3>2 DEF Coming, Mark
      <4>2. /\ Planned(d) \in Seq(Chunk) /\ Len(file[named].data) + n \in 0..Len(Planned(d))
            /\ SubSeq(Planned(d), 1, Len(file[named].data) + n) = file'[named].data
        <5>1. Planned(d) \in Seq(Chunk) /\ Planned(d) = file[named].data \o text[d]
          BY <1>1, <1>4, <1>5, <3>1, PlannedTypes
        <5>2. file'[named].data = file[named].data \o SubSeq(text[d], 1, n)
          BY <1>3, <3>1
        <5>3. file[named].data \in Seq(Chunk)
          BY <1>4, <3>1
        <5>4. /\ Len(file[named].data) + n \in 0..Len(file[named].data \o text[d])
              /\ SubSeq(file[named].data \o text[d], 1, Len(file[named].data) + n)
                   = file[named].data \o SubSeq(text[d], 1, n)
          BY <1>4, <5>3, Beginning
        <5> QED
          BY <5>1, <5>2, <5>4
      <4>3. Safe(named) <= Len(file[named].data) /\ Safe(named) \in Nat
        BY <1>1, <1>4, SafeTypes
      <4>4. Len(file[named].data) + n \in Safe(named)..Len(Planned(d))
        BY <1>4, <3>1, <4>2, <4>3
      <4>5. Stands(c, file'[named].data, Safe(named), Count)
        BY <1>11, <4>1, <4>2, <4>3, <4>4, StandsIn
      <4>6. file'[named].data \in Seq(Chunk)
        BY <1>1, <1>4 DEF TypeOK, StorageOK
      <4> QED
        BY <1>11, <1>9, <4>5, <4>6, StandsOn
    <3>3. ASSUME NEW c \in Calls, pc'[c] = "ok", entry # named
          PROVE  Stands(c, file'[entry].data, Safe(entry)', Count')
      <4>1. Stands(c, file[entry].data, Safe(entry), Count)
        BY <1>1, <1>2, <3>3 DEF Kept
      <4>2. file'[entry] = file[entry] /\ file[entry].data \in Seq(Chunk)
        BY <1>1, <1>2, <1>4, <3>1, <3>3 DEF TypeOK, StorageOK
      <4> QED
        BY <1>11, <1>10, <4>1, <4>2, StandsOn
    <3> QED
      BY <1>2, <3>2, <3>3 DEF Kept
  <2>2. CASE pc[d] = "stage"
    <3>1. fd[d] = d /\ d \notin {named, entry}
      BY <1>1, <2>2 DEF OwnOK
    <3>2. \A f \in {named', entry'} : f \in {named, entry} /\ file'[f].data = file[f].data
      BY <1>2, <1>4, <3>1
    <3> QED
      BY <1>1, <1>2, <1>4, <1>8, <3>2, KeptStep
  <2> QED
    BY <1>2, <2>1, <2>2
<1>13. Mark(d)' \in Nat /\ Mark(d) <= Mark(d)'
  <2>1. Mark(d) \in Nat /\ Len(Planned(d)) \in Nat
    BY <1>1, <1>4, PlannedTypes
  <2>2. Mark(d)' = IF pc[d] \in {"open", "write"} THEN Safe(named)' ELSE Len(Planned(d))
    BY <1>2, <1>5 DEF Mark
  <2> QED
    BY <1>9, <2>1, <2>2 DEF Mark
<1>14. /\ Stands(d, Planned(d), Len(Planned(d)), Count)'
       /\ \A c \in Calls : pc'[c] = "ok" => Stands(c, Planned(d), Mark(d), Count)'
  BY <1>1, <1>2, <1>4, <1>5, <1>13, ComingStep
<1>15. Ordered(d)'
  BY <1>1, <1>2, <1>4 DEF Coming, Ordered
<1>16. \A e \in Working' : e = d
  BY <1>1, <1>4, <1>6 DEF Working, Active, Alone, Ended
<1> QED
  BY <1>6, <1>12, <1>14, <1>15, <1>16 DEF Coming

\* When no capture works, nothing is coming.
LEMMA NoneComing ==
  ASSUME Alone, Active' \subseteq Active, NEW d \in Working, d \notin Working'
  PROVE  Alone' /\ Coming'
<1>1. Alone'
  BY DEF Alone
<1>2. Working' = {}
  BY DEF Working, Active, Alone, Ended
<1> QED
  BY <1>1, <1>2 DEF Coming

\* A record that is durable is kept, and a replacement that is durable is complete.
LEMMA SyncSaved ==
  ASSUME Room, BaseInv, SavedInv, NEW d \in Calls, SyncFile(d), overlapped' = overlapped
  PROVE  SavedInv'
<1> SUFFICES ASSUME overlapped' = {} PROVE Alone' /\ Kept' /\ Coming'
  BY DEF SavedInv
<1>1. TypeOK /\ OwnOK /\ Alone /\ Kept /\ Coming /\ Active' \subseteq Active
  BY QuietBase DEF BaseInv, SavedInv
<1>2. /\ pc[d] \in {"write", "stage"} /\ text[d] = <<>> /\ UNCHANGED <<named, fd, text>>
      /\ pc'[d] = IF pc[d] = "write" THEN "ok" ELSE "rename"
      /\ entry' = IF fd[d] = named THEN named ELSE entry
      /\ \A c \in Calls \ {d} : pc'[c] = pc[c]
  BY <1>1 DEF SyncFile, At, Goto, TypeOK, StorageOK
<1>3. /\ fd[d] \in Files /\ named \in Files /\ entry \in Files /\ d \in Working
      /\ \A f \in Files : file'[f].data = file[f].data /\ Len(file[f].data) \in Nat
      /\ \A f \in Files \ {fd[d]} : file'[f] = file[f]
      /\ file'[fd[d]].synced = Len(file[fd[d]].data)
  <2>1. /\ fd[d] \in Files /\ named \in Files /\ entry \in Files /\ d \in Working
    BY <1>1, <1>2 DEF TypeOK, StorageOK, Working
  <2>2. file' = [file EXCEPT ![fd[d]] = Flushed(@)]
    BY DEF SyncFile
  <2>3. /\ \A f \in Files : file'[f].data = file[f].data
        /\ \A f \in Files \ {fd[d]} : file'[f] = file[f]
        /\ file'[fd[d]].synced = Len(file[fd[d]].data)
    BY <1>1, <2>1, <2>2 DEF TypeOK, StorageOK, Flushed
  <2>4. \A f \in Files : Len(file[f].data) \in Nat
    BY <1>1, SafeTypes
  <2> QED
    BY <2>1, <2>3, <2>4
<1>4. Planned(d) = file[fd[d]].data
  BY <1>1, <1>2, <1>3, SafeTypes, ConcatEmptySeq DEF Planned
<1>5. CASE pc[d] = "write"
  <2>1. fd[d] = named /\ entry' = named /\ named' = named
    BY <1>1, <1>2, <1>3, <1>5 DEF Coming, Ordered
  <2>2. d \notin Working' /\ d \in Active /\ pc'[d] = "ok"
    BY <1>2, <1>5 DEF Working, Active, Ended
  <2>3. Alone' /\ Coming'
    BY <1>1, <1>3, <2>2, NoneComing
  <2>4. Count \in Nat /\ Count' \in Nat /\ Count <= Count'
    BY <1>2, BegunGrows
  <2>5. /\ Safe(named)' = Len(file[named].data) /\ Safe(named) <= Len(file[named].data)
        /\ Safe(named) \in Nat /\ file[named].data \in Seq(Chunk) /\ Len(file[named].data) \in Nat
    BY <1>1, <1>3, <2>1, SafeTypes DEF Safe
  <2>6. ASSUME NEW c \in Calls, pc'[c] = "ok"
        PROVE  Stands(c, file'[named].data, Safe(named)', Count')
    <3>1. CASE c = d
      <4>1. Stands(c, file[named].data, Len(file[named].data), Count)
        BY <1>1, <1>3, <1>4, <2>1, <3>1 DEF Coming
      <4>2. Stands(c, file[named].data, Len(file[named].data), Count')
        BY <2>4, <2>5, <4>1, StandsOn
      <4> QED
        BY <1>3, <2>5, <4>2
    <3>2. CASE c # d
      <4>1. Stands(c, file[named].data, Safe(named), Count)
        BY <1>1, <1>2, <2>6, <3>2 DEF Kept
      <4>2. Stands(c, file[named].data, Len(file[named].data), Count')
        BY <2>4, <2>5, <4>1, StandsOn
      <4> QED
        BY <1>3, <2>5, <4>2
    <3> QED
      BY <3>1, <3>2
  <2>7. Kept'
    BY <2>1, <2>6 DEF Kept
  <2> QED
    BY <2>3, <2>7
<1>6. CASE pc[d] = "stage"
  <2>1. fd[d] = d /\ d \notin {named, entry} /\ entry' = entry /\ pc'[d] = "rename" /\ d \in Working'
    BY <1>1, <1>2, <1>6 DEF OwnOK, Working
  <2>2. \A f \in {named', entry'} : /\ f \in {named, entry} /\ f \in Files /\ file'[f] = file[f]
                                    /\ Safe(f)' = Safe(f) /\ Safe(f) \in Nat
    BY <1>1, <1>2, <1>3, <2>1, SafeTypes DEF Safe
  <2>3. \A f \in {named', entry'} : Safe(f)' \in Nat /\ Safe(f) <= Safe(f)'
    BY <2>2
  <2>4. Kept'
    BY <1>1, <1>2, <2>1, <2>2, <2>3, KeptStep
  <2>5. Planned(d)' = Planned(d)
    BY <1>2, <1>3, <1>6, <2>1 DEF Planned
  <2>6. Mark(d)' = Mark(d) /\ Mark(d) \in Nat
    BY <1>1, <1>3, <1>6, <2>1, <2>5, PlannedTypes DEF Mark
  <2>7. /\ Stands(d, Planned(d), Len(Planned(d)), Count)'
        /\ \A c \in Calls : pc'[c] = "ok" => Stands(c, Planned(d), Mark(d), Count)'
    BY <1>1, <1>2, <1>3, <2>1, <2>5, <2>6, ComingStep
  <2>8. Ordered(d)'
    BY <1>2, <1>3, <2>1 DEF Ordered
  <2>9. Alone' /\ \A e \in Working' : e = d
    BY <1>1, <1>3 DEF Working, Active, Alone, Ended
  <2> QED
    BY <2>4, <2>7, <2>8, <2>9 DEF Coming
<1> QED
  BY <1>2, <1>5, <1>6

\* A replacement has every record that is kept when it gets the path's name.
LEMMA RenameSaved ==
  ASSUME Room, BaseInv, SavedInv, NEW d \in Calls, Rename(d), overlapped' = overlapped
  PROVE  SavedInv'
<1> SUFFICES ASSUME overlapped' = {} PROVE Alone' /\ Kept' /\ Coming'
  BY DEF SavedInv
<1>1. TypeOK /\ OwnOK /\ Alone /\ Kept /\ Coming /\ Active' \subseteq Active
  BY QuietBase DEF BaseInv, SavedInv
<1>2. /\ pc[d] = "rename" /\ pc'[d] = "syncdir" /\ named' = d /\ UNCHANGED <<file, entry, fd, text>>
      /\ \A c \in Calls \ {d} : pc'[c] = pc[c]
      /\ d \in Working /\ d \in Working' /\ d # entry /\ d \in Files /\ entry \in Files
  BY <1>1 DEF Rename, RenameDue, At, Goto, TypeOK, StorageOK, OwnOK, Working, Files
<1>3. text[d] = <<>> /\ fd[d] = d /\ file[d].synced = Len(file[d].data)
  BY <1>1, <1>2 DEF Coming, Ordered
<1>4. file[d].data \in Seq(Chunk) /\ Len(file[d].data) \in Nat
  BY <1>1, <1>2, SafeTypes
<1>5. Planned(d) = file[d].data /\ Planned(d)' = Planned(d)
  BY <1>2, <1>3, <1>4, ConcatEmptySeq DEF Planned
<1>6. Mark(d) = Len(file[d].data) /\ Mark(d)' = Mark(d)
  BY <1>2, <1>5 DEF Mark
<1>7. Count \in Nat /\ Count' \in Nat /\ Count <= Count'
  BY <1>2, BegunGrows
<1>8. ASSUME NEW c \in Calls, pc'[c] = "ok"
      PROVE  /\ Stands(c, file'[named'].data, Safe(named)', Count')
             /\ Stands(c, file'[entry'].data, Safe(entry)', Count')
  <2>1. Stands(c, file[d].data, Len(file[d].data), Count)
    BY <1>1, <1>2, <1>5, <1>6, <1>8 DEF Coming
  <2>2. Stands(c, file[d].data, Len(file[d].data), Count')
    BY <1>4, <1>7, <2>1, StandsOn
  <2>3. Safe(named)' = Len(file[d].data) /\ file'[named'] = file[d]
    BY <1>2 DEF Safe
  <2>4. Stands(c, file[entry].data, Safe(entry), Count)
    BY <1>1, <1>2, <1>8 DEF Kept
  <2>5. file[entry].data \in Seq(Chunk) /\ Safe(entry) \in Nat
    BY <1>1, <1>2, SafeTypes
  <2>6. Stands(c, file[entry].data, Safe(entry), Count')
    BY <1>7, <2>4, <2>5, StandsOn
  <2>7. Safe(entry)' = Safe(entry) /\ file'[entry'] = file[entry]
    BY <1>2 DEF Safe
  <2> QED
    BY <2>2, <2>3, <2>6, <2>7
<1>9. Kept'
  BY <1>8 DEF Kept
<1>10. /\ Stands(d, Planned(d), Len(Planned(d)), Count)'
       /\ \A c \in Calls : pc'[c] = "ok" => Stands(c, Planned(d), Mark(d), Count)'
  BY <1>1, <1>2, <1>4, <1>5, <1>6, ComingStep
<1>11. Ordered(d)'
  BY <1>2, <1>3 DEF Ordered
<1>12. Alone' /\ \A e \in Working' : e = d
  BY <1>1, <1>2 DEF Working, Active, Alone, Ended
<1> QED
  BY <1>9, <1>10, <1>11, <1>12 DEF Coming

\* It is kept once the directory is durable.
LEMMA DirectorySaved ==
  ASSUME Room, BaseInv, SavedInv, NEW d \in Calls, SyncDirectory(d), overlapped' = overlapped
  PROVE  SavedInv'
<1> SUFFICES ASSUME overlapped' = {} PROVE Alone' /\ Kept' /\ Coming'
  BY DEF SavedInv
<1>1. TypeOK /\ Alone /\ Kept /\ Coming /\ Active' \subseteq Active
  BY QuietBase DEF BaseInv, SavedInv
<1>2. /\ pc[d] = "syncdir" /\ pc'[d] = "ok" /\ named' = named /\ entry' = named
      /\ UNCHANGED <<file, fd, text>> /\ \A c \in Calls \ {d} : pc'[c] = pc[c]
      /\ d \in Working /\ d \notin Working' /\ d \in Files
  BY <1>1 DEF SyncDirectory, At, Goto, TypeOK, StorageOK, Working, Files
<1>3. text[d] = <<>> /\ fd[d] = d /\ named = d /\ file[d].synced = Len(file[d].data)
  BY <1>1, <1>2 DEF Coming, Ordered
<1>4. /\ file[d].data \in Seq(Chunk) /\ Len(file[d].data) \in Nat /\ Safe(d) \in Nat
      /\ Safe(d) <= Len(file[d].data)
  BY <1>1, <1>2, SafeTypes
<1>5. Planned(d) = file[d].data
  BY <1>2, <1>3, <1>4, ConcatEmptySeq DEF Planned
<1>6. Count \in Nat /\ Count' \in Nat /\ Count <= Count'
  BY <1>2, BegunGrows
<1>7. ASSUME NEW c \in Calls, pc'[c] = "ok"
      PROVE  Stands(c, file'[named'].data, Safe(named)', Count')
  <2>1. Stands(c, file[d].data, Len(file[d].data), Count')
    <3>1. CASE c = d
      <4>1. Stands(c, file[d].data, Len(file[d].data), Count)
        BY <1>1, <1>2, <1>5, <3>1 DEF Coming
      <4> QED
        BY <1>4, <1>6, <4>1, StandsOn
    <3>2. CASE c # d
      <4>1. Stands(c, file[d].data, Safe(d), Count)
        BY <1>1, <1>2, <1>3, <1>7, <3>2 DEF Kept
      <4> QED
        BY <1>4, <1>6, <4>1, StandsOn
    <3> QED
      BY <3>1, <3>2
  <2>2. Safe(named)' = Len(file[d].data) /\ file'[named'] = file[d]
    BY <1>2, <1>3 DEF Safe
  <2> QED
    BY <2>1, <2>2
<1>8. Kept'
  <2>1. entry' = named'
    BY <1>2
  <2> QED
    BY <1>7, <2>1 DEF Kept
<1>9. Alone' /\ Coming'
  BY <1>1, <1>2, NoneComing
<1> QED
  BY <1>8, <1>9

\* A call that fails or is killed takes nothing back.
LEMMA EndSaved ==
  ASSUME Room, BaseInv, SavedInv, NEW d \in Calls, Fail(d) \/ Crash(d), overlapped' = overlapped
  PROVE  SavedInv'
<1> SUFFICES ASSUME overlapped' = {} PROVE Alone' /\ Kept' /\ Coming'
  BY DEF SavedInv
<1>1. /\ TypeOK /\ OwnOK /\ Alone /\ Kept /\ Coming /\ Active' \subseteq Active
      /\ named \in Files /\ entry \in Files
  BY EndBase DEF BaseInv, SavedInv, TypeOK, StorageOK
<1>2. /\ pc[d] \notin Ended /\ pc'[d] \in {"failed", "dead"}
      /\ \A e \in Calls \ {d} : pc'[e] = pc[e] /\ text'[e] = text[e]
      /\ UNCHANGED <<named, entry, fd>>
      /\ \A f \in Files \ {d} : file'[f] = file[f]
      /\ pc[d] \in {"stage", "rename"} \/ file' = file
  BY <1>1 DEF Fail, Crash, Goto, TypeOK, StorageOK
<1>3. \A c \in Calls : /\ pc'[c] = "ok" => pc[c] = "ok"
                       /\ pc'[c] = "start" => pc[c] = "start"
  BY <1>2
<1>4. file'[named] = file[named] /\ file'[entry] = file[entry]
  BY <1>1, <1>2 DEF OwnOK
<1>5. /\ Safe(named) \in Nat /\ Safe(entry) \in Nat
      /\ Safe(named)' = Safe(named) /\ Safe(entry)' = Safe(entry)
  BY <1>1, <1>2, <1>4, SafeTypes DEF Safe
<1>6. Kept'
  <2>1. ASSUME NEW f \in {named', entry'}
        PROVE  /\ f \in {named, entry} /\ file'[f].data = file[f].data
               /\ Safe(f)' \in Nat /\ Safe(f) <= Safe(f)'
    <3>1. f \in {named, entry} /\ file'[f] = file[f] /\ f \in Files
      BY <1>1, <1>2, <1>4
    <3>2. Safe(f)' = Safe(f) /\ Safe(f) \in Nat
      BY <1>1, <1>2, <3>1, SafeTypes DEF Safe
    <3> QED
      BY <3>1, <3>2
  <2> QED
    BY <1>1, <1>3, <2>1, KeptStep
<1>7. Alone'
  BY <1>1 DEF Alone
<1>8. CASE pc[d] # "start"
  <2>1. d \in Active /\ d \notin Active'
    BY <1>2, <1>8 DEF Active, Ended
  <2>2. Working' = {}
    BY <1>1, <2>1 DEF Working, Active, Alone, Ended
  <2> QED
    BY <1>6, <1>7, <2>2 DEF Coming
<1>9. CASE pc[d] = "start"
  <2>1. file' = file
    BY <1>2, <1>9
  <2>2. ASSUME NEW e \in Working'
        PROVE  /\ Stands(e, Planned(e), Len(Planned(e)), Count)'
               /\ \A c \in Calls : pc'[c] = "ok" => Stands(c, Planned(e), Mark(e), Count)'
               /\ Ordered(e)'
    <3>1. e \in Working /\ e # d /\ pc'[e] = pc[e] /\ text'[e] = text[e] /\ e \in Calls
      BY <1>2 DEF Working
    <3>2. Planned(e)' = Planned(e)
      BY <1>2, <2>1, <3>1 DEF Planned
    <3>3. Mark(e)' = Mark(e) /\ Mark(e) \in Nat
      BY <1>1, <1>5, <3>1, <3>2, PlannedTypes DEF Mark
    <3>4. Mark(e)' \in Nat /\ Mark(e) <= Mark(e)'
      BY <3>3
    <3>5. Ordered(e)'
      <4>1. Ordered(e)
        BY <1>1, <3>1 DEF Coming
      <4> QED
        BY <1>2, <2>1, <3>1, <4>1 DEF Ordered
    <3> QED
      BY <1>1, <1>3, <3>1, <3>2, <3>4, <3>5, ComingStep
  <2> QED
    BY <1>6, <1>7, <2>2 DEF Coming
<1> QED
  BY <1>8, <1>9

\* What is kept outlives a power loss.
LEMMA PowerSaved ==
  ASSUME Room, BaseInv, SavedInv, PowerLoss, overlapped' = overlapped
  PROVE  SavedInv'
<1> SUFFICES ASSUME overlapped' = {} PROVE Alone' /\ Kept' /\ Coming'
  BY DEF SavedInv
<1>1. TypeOK /\ Kept /\ entry \in Files /\ file[entry].data \in Seq(Chunk)
      /\ Len(file[entry].data) \in Nat /\ file[entry].synced \in Nat
  BY SafeTypes DEF BaseInv, SavedInv, TypeOK, StorageOK
<1>2. /\ Active' = {} /\ named' = entry /\ entry' = entry
      /\ \A c \in Calls : pc'[c] = IF pc[c] \in Ended \cup {"start"} THEN pc[c] ELSE "dead"
  BY PowerBase
<1>3. PICK n \in file[entry].synced..Len(file[entry].data) :
         /\ file'[entry].data = SubSeq(file[entry].data, 1, n)
         /\ file'[entry].synced = n
  BY PowerBase
<1>4. Working' = {}
  BY <1>2 DEF Working, Active, Ended
<1>5. Alone' /\ Coming'
  BY <1>2, <1>4 DEF Alone, Coming
<1>6. Count \in Nat /\ Count' \in Nat /\ Count <= Count'
  <2>1. \A c \in Calls : pc'[c] = "start" => pc[c] = "start"
    BY <1>2
  <2> QED
    BY <2>1, BegunGrows
<1>7. ASSUME NEW c \in Calls, pc'[c] = "ok"
      PROVE  Stands(c, file'[entry'].data, Safe(entry)', Count')
  <2>1. pc[c] = "ok"
    BY <1>2, <1>7
  <2>2. Stands(c, file[entry].data, file[entry].synced, Count)
    BY <1>1, <2>1 DEF Kept, Safe
  <2>3. Stands(c, SubSeq(file[entry].data, 1, n), file[entry].synced, Count)
    BY <1>1, <1>6, <2>2, StandsIn
  <2>4. SubSeq(file[entry].data, 1, n) \in Seq(Chunk) /\ n \in Nat /\ file[entry].synced <= n
    BY <1>1, <1>3, Parts
  <2>5. Stands(c, SubSeq(file[entry].data, 1, n), n, Count')
    BY <1>1, <1>6, <2>3, <2>4, StandsOn
  <2>6. Safe(entry)' = n
    BY <1>2, <1>3 DEF Safe
  <2> QED
    BY <1>2, <1>3, <2>5, <2>6
<1>8. Kept'
  <2>1. entry' = named'
    BY <1>2
  <2> QED
    BY <1>7, <2>1 DEF Kept
<1> QED
  BY <1>5, <1>8

\* What a capture that begins puts behind what it keeps.
LEMMA PlansRecord ==
  ASSUME NEW c \in Calls, NEW s \in Seq(Chunk), Closed(s) = s, Len(s) + Size(c) <= 2 * MaxBytes,
         NEW k \in Nat
  PROVE  /\ s \o Record(c) \in Seq(Chunk) /\ Len(s) \in Nat /\ Len(s \o Record(c)) \in Nat
         /\ Len(s) <= Len(s \o Record(c))
         /\ Stands(c, s \o Record(c), Len(s \o Record(c)), k + 1)
         /\ \A e \in Calls, m \in 0..Len(s) :
               Stands(e, s, m, k) => Stands(e, s \o Record(c), m, k + 1)
<1> DEFINE t == s \o Record(c)
<1>1. t \in Seq(Chunk) /\ Len(s) \in Nat /\ Len(t) = Len(s) + Size(c) /\ Size(c) \in Nat
  BY RecordBehind, RecordFacts
<1>2. StandsAt(c, t, Len(t), Len(s), 1)
  BY StandsOwn
<1> HIDE DEF t
<1>3. Len(t) \in Nat /\ Len(s) <= Len(t)
  BY <1>1
<1>4. Stands(c, t, Len(t), 1)
  BY <1>1, <1>2 DEF Stands
<1>5. Stands(c, t, Len(t), k + 1)
  BY <1>1, <1>3, <1>4, StandsOn
<1>6. ASSUME NEW e \in Calls, NEW m \in 0..Len(s), Stands(e, s, m, k)
      PROVE  Stands(e, t, m, k + 1)
  <2>1. PICK p \in Nat : StandsAt(e, s, m, p, k)
    BY <1>6 DEF Stands
  <2>2. m \in Nat /\ m <= Len(s)
    BY <1>1
  <2>3. StandsAt(e, t, m, p, k + 1)
    BY <2>1, <2>2, StandsBehind DEF t
  <2> QED
    BY <2>3 DEF Stands
<1> QED
  BY <1>1, <1>3, <1>5, <1>6 DEF t

\* A capture that begins alone loses nothing.
LEMMA BeginSaved ==
  ASSUME Room, BaseInv, SavedInv, NEW c \in Calls, Begin(c)
  PROVE  SavedInv'
<1> SUFFICES ASSUME overlapped' = {} PROVE Alone' /\ Kept' /\ Coming'
  BY DEF SavedInv
<1>1. /\ TypeOK /\ Active = {} /\ overlapped = {} /\ Active' = {c} /\ pc[c] = "start"
      /\ UNCHANGED <<file, named, entry>>
  BY BeginEffect, BeginBase DEF BaseInv
<1>2. Kept /\ named \in Files /\ entry \in Files
  BY <1>1 DEF SavedInv, TypeOK, StorageOK
<1>3. /\ Content \in Seq(Chunk) /\ Len(Content) \in Nat /\ Safe(named) \in Nat
      /\ Safe(named) <= Len(Content)
  BY <1>1, <1>2, SafeTypes DEF Content
<1>4. /\ LongSize \in Nat /\ MaxBytes \in Nat /\ MaxRecords \in Nat /\ Size(c) \in Nat
      /\ Size(c) <= LongSize
  BY RecordFacts, HistoryAssumption DEF HistoryAssumption
<1>5. /\ pc'[c] \in {"open", "stage"} /\ \A e \in Calls \ {c} : pc'[e] = pc[e]
  BY <1>1, BeginEffect DEF TypeOK, StorageOK
<1>6. Count \in Nat /\ Count' = Count + 1 /\ Count + 1 <= Cardinality(Calls) /\ Cardinality(Calls) \in Nat
  <2>1. Begun' = Begun \cup {c} /\ c \notin Begun /\ Begun \subseteq Calls /\ Begun' \subseteq Calls
    BY <1>1, <1>5 DEF Begun
  <2>2. IsFiniteSet(Begun) /\ Cardinality(Begun) \in Nat
    BY <2>1, Larger DEF Room
  <2>3. Cardinality(Begun') = Cardinality(Begun) + 1
    BY <2>1, <2>2, FS_AddElement
  <2>4. Cardinality(Begun') <= Cardinality(Calls) /\ Cardinality(Calls) \in Nat
    BY <2>1, Larger DEF Room
  <2> QED
    BY <2>2, <2>3, <2>4 DEF Count
<1>7. Count < MaxRecords /\ LongSize * Count <= MaxBytes /\ LongSize <= MaxBytes
  <2> DEFINE n == Cardinality(Calls)
  <2>1. n \in Nat /\ Count <= n /\ 1 <= n /\ Count < n /\ n <= MaxRecords
    BY <1>6 DEF Room
  <2>2. LongSize * Count <= LongSize * n /\ LongSize * Count \in Nat /\ LongSize * n \in Nat
    BY <1>4, <1>6, <2>1, Times
  <2>3. LongSize * 1 <= LongSize * n /\ LongSize * 1 = LongSize
    BY <1>4, <2>1, Times
  <2>4. LongSize * n <= MaxBytes
    BY DEF Room
  <2> DEFINE a == LongSize * n  b == LongSize * Count
  <2>5. a \in Nat /\ b \in Nat /\ b <= a /\ a <= MaxBytes /\ LongSize <= a
    BY <2>2, <2>3, <2>4
  <2> HIDE DEF a, b, n
  <2>6. b <= MaxBytes /\ LongSize <= MaxBytes /\ Count < MaxRecords
    BY <1>4, <1>6, <2>1, <2>5
  <2> QED
    BY <2>6 DEF b
<1>8. Alone'
  BY <1>1 DEF Alone
<1>9. Kept'
  <2>1. \A f \in Files : Safe(f)' = Safe(f) /\ Safe(f) \in Nat
    BY <1>1, SafeTypes DEF Safe
  <2>2. ASSUME NEW f \in {named', entry'}
        PROVE  /\ f \in {named, entry} /\ file'[f].data = file[f].data
               /\ Safe(f)' \in Nat /\ Safe(f) <= Safe(f)'
    BY <1>1, <1>2, <2>1
  <2> QED
    BY <1>1, <1>2, <1>5, <2>2, KeptStep
<1>10. Working' = {c} /\ Ordered(c)'
  BY <1>1, <1>5 DEF Working, Active, Ended, Ordered
<1>11. ASSUME pc' = [pc EXCEPT ![c] = "open"], text' = [text EXCEPT ![c] = Record(c)],
              Retained(Content) = Content, Len(Content) + Size(c) <= MaxBytes
       PROVE  /\ Stands(c, Planned(c), Len(Planned(c)), Count)'
              /\ \A e \in Calls : pc'[e] = "ok" => Stands(e, Planned(c), Mark(c), Count)'
  <2> DEFINE w == Content \o Record(c)
  <2>1. Planned(c)' = w /\ Mark(c)' = Safe(named)
    BY <1>1, <1>11 DEF TypeOK, StorageOK, Planned, Mark, Content, Safe
  <2>2. Closed(Content) = Content /\ Len(Content) + Size(c) <= 2 * MaxBytes
    <3>1. Closed(Content) = Content
      BY <1>3, <1>11, RetainedClosed
    <3> QED
      BY <1>3, <1>4, <1>11, <3>1
  <2>3. /\ Stands(c, w, Len(w), Count + 1)
        /\ \A e \in Calls, m \in 0..Len(Content) :
              Stands(e, Content, m, Count) => Stands(e, w, m, Count + 1)
    BY <1>3, <1>6, <2>2, PlansRecord
  <2>4. \A e \in Calls : pc'[e] = "ok" => Stands(e, w, Safe(named), Count + 1)
    BY <1>2, <1>3, <1>5, <2>3 DEF Kept, Content
  <2> HIDE DEF w
  <2> QED
    BY <1>6, <2>1, <2>3, <2>4
<1>12. ASSUME NEW kept \in {Retained(Content), <<>>},
              kept = Retained(Content) \/ Len(Content) > 4 * MaxBytes,
              pc' = [pc EXCEPT ![c] = "stage"], fd' = [fd EXCEPT ![c] = c],
              text' = [text EXCEPT ![c] = kept \o Record(c)]
       PROVE  /\ Stands(c, Planned(c), Len(Planned(c)), Count)'
              /\ \A e \in Calls : pc'[e] = "ok" => Stands(e, Planned(c), Mark(c), Count)'
  <2> DEFINE w == kept \o Record(c)
  <2>1. Closed(kept) = kept /\ kept \in Seq(Chunk) /\ Len(kept) <= MaxBytes /\ Len(kept) \in Nat
    <3>1. CASE kept = Retained(Content)
      BY <1>3, <3>1, RetainedClosed, RetainedFits, LenProperties
    <3>2. CASE kept = <<>>
      BY <1>4, <3>2, EmptySeq DEF Closed
    <3> QED
      BY <3>1, <3>2
  <2>2. Len(kept) + Size(c) <= 2 * MaxBytes
    BY <1>4, <1>7, <2>1
  <2>3. /\ w \in Seq(Chunk) /\ Len(w) \in Nat /\ Len(kept) <= Len(w)
        /\ Stands(c, w, Len(w), Count + 1)
        /\ \A e \in Calls, m \in 0..Len(kept) :
              Stands(e, kept, m, Count) => Stands(e, w, m, Count + 1)
    BY <1>6, <2>1, <2>2, PlansRecord
  <2>4. Planned(c)' = w /\ Mark(c)' = Len(w)
    <3>1. file[c].data = <<>>
      BY <1>1 DEF BaseInv, OwnOK
    <3>2. <<>> \o w = w
      BY <2>3, ConcatEmptySeq
    <3>3. pc'[c] = "stage" /\ fd'[c] = c /\ text'[c] = w
      BY <1>1, <1>12 DEF TypeOK, StorageOK
    <3>4. Planned(c)' = w
      BY <1>1, <3>1, <3>2, <3>3 DEF Planned
    <3> QED
      BY <3>3, <3>4 DEF Mark
  <2> HIDE DEF w
  <2>5. ASSUME NEW e \in Calls, pc'[e] = "ok" PROVE Stands(e, w, Len(w), Count + 1)
    <3>1. Stands(e, Content, Safe(named), Count)
      BY <1>2, <1>5, <2>5 DEF Kept, Content
    <3>2. PICK p \in Nat : StandsAt(e, Content, Safe(named), p, Count)
      BY <3>1 DEF Stands
    <3>3. kept = Retained(Content)
      <4>1. Len(Content) <= 2 * MaxBytes
        BY <3>2 DEF StandsAt
      <4>2. ~(Len(Content) > 4 * MaxBytes)
        BY <1>3, <1>4, <4>1
      <4> QED
        BY <1>12, <4>2
    <3>4. Safe(named) \in 0..Len(Content)
      BY <1>3
    <3>5. PICK q \in Nat : StandsAt(e, kept, Len(kept), q, Count)
      BY <1>3, <1>6, <1>7, <3>2, <3>3, <3>4, StandsRetained
    <3>6. Stands(e, kept, Len(kept), Count)
      BY <3>5 DEF Stands
    <3>7. Stands(e, w, Len(kept), Count + 1)
      BY <2>1, <2>3, <3>6
    <3> QED
      BY <1>6, <2>1, <2>3, <3>7, StandsOn
  <2> QED
    BY <1>6, <2>3, <2>4, <2>5
<1>13. /\ Stands(c, Planned(c), Len(Planned(c)), Count)'
       /\ \A e \in Calls : pc'[e] = "ok" => Stands(e, Planned(c), Mark(c), Count)'
  BY <1>11, <1>12, BeginEffect
<1> QED
  BY <1>8, <1>9, <1>10, <1>13 DEF Coming

\* Nothing is saved at first.
LEMMA InitSaved == Init => SavedInv
  BY DEF Init, StorageInit, SavedInv, Alone, Kept, Coming, Active, Working

\* Every step keeps what is saved.
LEMMA SavedStep == ASSUME Room PROVE HistoryInv /\ SavedInv /\ [Next]_vars => SavedInv'
<1> SUFFICES ASSUME HistoryInv, SavedInv, [Next]_vars PROVE SavedInv'
  OBVIOUS
<1>1. BaseInv
  BY DEF HistoryInv, BaseInv
<1>2. ASSUME NEW c \in Calls, Begin(c) PROVE SavedInv'
  BY <1>1, <1>2, BeginSaved
<1>3. ASSUME NEW c \in Calls, Proceed(c) PROVE SavedInv'
  <2>1. overlapped' = overlapped /\ Step(c)
    BY <1>3 DEF Proceed
  <2>2. CASE Open(c)
    BY <1>1, <2>1, <2>2, OpenSaved
  <2>3. CASE Write(c)
    BY <1>1, <2>1, <2>3, WriteSaved
  <2>4. CASE SyncFile(c)
    BY <1>1, <2>1, <2>4, SyncSaved
  <2>5. CASE Rename(c)
    BY <1>1, <2>1, <2>5, RenameSaved
  <2>6. CASE SyncDirectory(c)
    BY <1>1, <2>1, <2>6, DirectorySaved
  <2>7. CASE Fail(c)
    BY <1>1, <2>1, <2>7, EndSaved
  <2> QED
    BY <2>1, <2>2, <2>3, <2>4, <2>5, <2>6, <2>7 DEF Step
<1>4. CASE Die
  <2>1. overlapped' = overlapped
    BY <1>4 DEF Die
  <2>2. CASE PowerLoss
    BY <1>1, <2>1, <2>2, PowerSaved
  <2>3. ASSUME NEW c \in Calls, Crash(c) PROVE SavedInv'
    BY <1>1, <2>1, <2>3, EndSaved
  <2> QED
    BY <1>4, <2>2, <2>3 DEF Die
<1>5. CASE UNCHANGED vars
  <2>1. UNCHANGED <<file, named, entry, pc, fd, text, overlapped>>
    BY <1>5 DEF vars, storage
  <2>2. Alone' = Alone /\ Count' = Count /\ Working' = Working
    BY <2>1 DEF Alone, Active, Count, Begun, Working
  <2>3. Kept' = Kept
    BY <2>1, <2>2 DEF Kept, Safe
  <2>4. Coming' = Coming
    BY <2>1, <2>2 DEF Coming, Planned, Mark, Safe, Ordered
  <2> QED
    BY <2>1, <2>2, <2>3, <2>4 DEF SavedInv
<1> QED
  BY <1>2, <1>3, <1>4, <1>5 DEF Next, Finished

\* When the bounds leave room for all records, each capture that was reported
\* saved and overlapped none is in the history (network_history.cpp:58-85),
\* whatever fails, crashes or loses power, for any number of captures.
THEOREM SavedAlwaysHeld == ASSUME Room PROVE Spec => []SavedHeld
<1>1. HistoryInv /\ SavedInv => SavedHeld
  <2> SUFFICES ASSUME HistoryInv, SavedInv, overlapped = {}, NEW c \in Calls, pc[c] = "ok"
               PROVE  Held(c)
    BY DEF SavedHeld
  <2>1. TypeOK /\ named \in Files
    BY DEF HistoryInv, TypeOK, StorageOK
  <2>2. /\ Content \in Seq(Chunk) /\ Safe(named) \in Nat /\ Safe(named) <= Len(Content)
    BY <2>1, SafeTypes DEF Content
  <2>3. PICK p \in Nat : StandsAt(c, Content, Safe(named), p, Count)
    BY DEF SavedInv, Kept, Content, Stands
  <2> QED
    BY <2>2, <2>3, StandsHeld
<1>2. HistoryInv /\ SavedInv /\ [Next]_vars => SavedInv'
  BY SavedStep
<1> QED
  BY <1>1, <1>2, InitHistory, InitSaved, HistoryStep, PTL DEF Spec

=============================================================================
