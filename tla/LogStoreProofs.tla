---------------------------- MODULE LogStoreProofs ----------------------------
(***************************************************************************)
(* Theorems about LogStore for any number of records, any entry size and   *)
(* any limit.  The lock is held by exactly the record that is storing      *)
(* something, and no record makes the log larger than its limit (IInv).    *)
(* What a record has in a file is the beginning of its text, what is not   *)
(* synced of a file is whole lines but for those of records that broke     *)
(* off, and what the path leads to, now or after a power loss, is whole    *)
(* (LinesInv): so lines whose record succeeded stay, and a rotated log is  *)
(* never seen half written.                                                *)
(***************************************************************************)
EXTENDS LogStore, SequenceTheorems, TLAPS

Earlier == <<"earlier", 1>>

\* What a file with data d may be: within the limit, or from an earlier version.
Within(d) == Len(d) > Limit => \A i \in 1..Len(d) : d[i] = Earlier

FilesOK == \A f \in Files : Within(file[f].data)

\* Room for what a record has yet to write was there when it decided, and the
\* lock kept it.
RoomOK ==
    \A c \in Calls :
       /\ pc[c] = "open" => Len(Content) + Len(text[c]) <= Limit
       /\ pc[c] \in {"write", "stage"} => Len(file[fd[c]].data) + Len(text[c]) <= Limit

\* Nobody touches the replacement of a record that has not decided.
FreshOK ==
    \A c \in Calls : pc[c] \in {"start", "ready"} =>
       /\ file[c].data = <<>> /\ named # c /\ entry # c
       /\ \A d \in Calls : fd[d] # c

IInv == TypeOK /\ FilesOK /\ RoomOK /\ FreshOK

\* Of the word that is being written behind n chunks of d, all but t stands there.
Written(d, n, word, t) ==
    /\ n <= Len(d) /\ Len(d) + Len(t) = n + Len(word)
    /\ \A i \in 1..Len(d) - n : d[n + i] = word[i]
    /\ \A i \in 1..Len(t) : t[i] = word[Len(d) - n + i]

\* The records that left what they wrote unfinished, and those that may do so yet.
Broken     == {c \in Calls : pc[c] \in {"failed", "dead"}}
Unfinished == {c \in Calls : pc[c] \in {"failed", "dead", "write"}}

\* Behind n chunks of d a line begins, unless one of these records broke off there.
LineAfter(d, n, calls) == n > 0 /\ ~EndsLine(d[n]) => d[n][1] \in calls

\* Whatever a power loss cuts off behind what is synced of a file, the last line is whole
\* or that of a record that has not succeeded.
TailOK(f) ==
    \A n \in file[f].synced..Len(file[f].data) : LineAfter(file[f].data, n, Unfinished)

\* The replacement by c is there and durable.
Settled(c) == LET d == file[c].data  r == Replacement(c) IN
    /\ Len(r) <= file[c].synced
    /\ \A i \in 1..Len(r) : d[i] = r[i]

\* The files that the path leads to, may lead to, or is about to.
Live == {named, entry} \cup {c \in Calls : pc[c] = "rename"}

\* A durable line of c.
Durable(c) == \E n \in 0..Len(Content) :
    /\ n + EntrySize <= file[named].synced
    /\ \A i \in 1..EntrySize : Content[n + i] = <<c, i>>
    /\ LineAfter(Content, n, Broken)

\* What a record that is storing something has in its file, and one that was kept in the log.
CallOK(c) ==
    /\ pc[c] = "open" => text[c] = Entry(c)
    /\ pc[c] = "write" => fd[c] = named /\ \E n \in 0..Len(Content) :
           Written(Content, n, Entry(c), text[c]) /\ LineAfter(Content, n, Broken)
    /\ pc[c] = "stage" => fd[c] = c /\ Written(file[c].data, 0, Replacement(c), text[c])
    /\ pc[c] \in {"stage", "rename"} => c \notin {named, entry}
    /\ pc[c] = "syncdir" => named = c
    /\ c \in kept => pc[c] = "ok" /\ entry = named /\ Durable(c)

\* The records and the files are in order.
LinesInv ==
    /\ \A c \in Calls : CallOK(c)
    /\ \A f \in Live : TailOK(f) /\ (f \in Calls => Settled(f))

-----------------------------------------------------------------------------
\* The text of a record and of a rotated log: chunks, and how many.
LEMMA TextTypes ==
  ASSUME NEW c \in Calls
  PROVE  /\ Entry(c) \in Seq(Chunk) /\ Len(Entry(c)) = EntrySize
         /\ Replacement(c) \in Seq(Chunk) /\ Len(Replacement(c)) = EntrySize + 1
<1> USE LogAssumption DEF LogAssumption
<1>1. Entry(c) \in [1..EntrySize -> Chunk]
  BY DEF Entry, Chunk
<1>2. Entry(c) \in Seq(Chunk) /\ Len(Entry(c)) = EntrySize
  BY <1>1
<1>3. <<Mark>> \in Seq(Chunk) /\ Len(<<Mark>>) = 1
  BY DEF Chunk
<1> QED
  BY <1>2, <1>3, ConcatProperties DEF Replacement

\* A prefix of what a file may be is something a file may be.
LEMMA PrefixWithin ==
  ASSUME NEW d \in Seq(Chunk), Within(d), NEW n \in 0..Len(d)
  PROVE  /\ SubSeq(d, 1, n) \in Seq(Chunk) /\ Len(SubSeq(d, 1, n)) = n
         /\ Within(SubSeq(d, 1, n))
<1>1. Len(d) \in Nat /\ \A i \in 1..n : d[i] \in Chunk
  BY LenProperties, ElementOfSeq
<1>2. /\ SubSeq(d, 1, n) \in Seq(Chunk) /\ Len(SubSeq(d, 1, n)) = n
      /\ \A i \in 1..n : SubSeq(d, 1, n)[i] = d[i]
  BY <1>1, SubSeqProperties
<1> QED
  BY <1>1, <1>2, LogAssumption DEF Within, LogAssumption

\* The files before the first record.
LEMMA InitInv == Init => IInv
<1> SUFFICES ASSUME Init PROVE IInv
  OBVIOUS
<1> USE StorageAssumption, LogAssumption DEF StorageAssumption, LogAssumption, Files
<1>1. PICK n \in 0..(Limit + 1) :
         file = [f \in Files |-> IF f = Original
                   THEN [data |-> [i \in 1..n |-> Earlier],
                         synced |-> Len([i \in 1..n |-> Earlier])]
                   ELSE Empty]
  BY DEF Init, StorageInit, Earlier
<1> DEFINE old == [i \in 1..n |-> Earlier]
<1>2. old \in Seq(Chunk) /\ Len(old) = n /\ \A i \in 1..n : old[i] = Earlier
  <2>1. old \in [1..n -> Chunk]
    BY DEF Chunk, Earlier
  <2> QED
    BY <2>1
<1>3. /\ named = Original /\ entry = Original /\ holder = Nobody /\ kept = {}
      /\ pc = [c \in Calls |-> "start"] /\ fd = [c \in Calls |-> Original]
      /\ text = [c \in Calls |-> <<>>]
  BY DEF Init, StorageInit
<1>4. file[Original] = [data |-> old, synced |-> n] /\ \A c \in Calls : file[c] = Empty
  BY <1>1, <1>2
<1>5. <<>> \in Seq(Chunk) /\ Len(<<>>) = 0
  BY EmptySeq
<1> HIDE DEF old
<1>6. StorageOK(Chunk)
  <2>1. file \in [Files -> [data : Seq(Chunk), synced : Nat]]
    BY <1>1, <1>2, <1>5 DEF old, Empty
  <2> QED
    BY <1>2, <1>3, <1>4, <1>5, <2>1 DEF StorageOK, Steps, Empty
<1>7. TypeOK
  BY <1>3, <1>6 DEF TypeOK
<1> QED
  BY <1>2, <1>3, <1>4, <1>5, <1>7 DEF IInv, FilesOK, RoomOK, FreshOK, Within, Empty

-----------------------------------------------------------------------------
\* While a record has the lock, no other one has begun or is still at it.
LEMMA Alone ==
  ASSUME TypeOK, NEW c \in Calls, pc[c] \notin Ended \cup {"start"}
  PROVE  holder = c /\ \A d \in Calls \ {c} : pc[d] \in Ended \cup {"start"}
BY LogAssumption DEF TypeOK, LogAssumption

\* What releases the lock, for a step of the record that holds it or waits.
LEMMA Release ==
  ASSUME TypeOK, NEW c \in Calls, NEW step \in Steps \ {"start"},
         pc' = [pc EXCEPT ![c] = step], holder' = Released,
         pc[c] \notin Ended, pc[c] = "start" => step = "failed"
  PROVE  /\ pc' \in [Calls -> Steps] /\ holder' \in Calls \cup {Nobody}
         /\ \A d \in Calls : holder' = d <=> pc'[d] \notin Ended \cup {"start"}
<1>1. pc' \in [Calls -> Steps] /\ pc'[c] = step /\ \A d \in Calls \ {c} : pc'[d] = pc[d]
  BY DEF TypeOK, StorageOK
<1>2. Nobody \notin Calls /\ holder \in Calls \cup {Nobody}
      /\ \A d \in Calls : holder = d <=> pc[d] \notin Ended \cup {"start"}
  BY LogAssumption DEF TypeOK, LogAssumption
<1>3. CASE holder = c
  <2>1. holder' = IF step \in Ended THEN Nobody ELSE c
    BY <1>1, <1>2, <1>3 DEF Released
  <2> QED
    BY <1>1, <1>2, <1>3, <2>1
<1>4. CASE holder # c
  <2>1. holder' = holder /\ (pc[c] \in Ended \/ pc[c] = "start")
    BY <1>1, <1>2, <1>4 DEF Released
  <2> QED
    BY <1>1, <1>2, <1>4, <2>1 DEF Ended
<1> QED
  BY <1>3, <1>4

\* A record takes the lock.
LEMMA LockStep ==
  ASSUME IInv, NEW c \in Calls, Lock(c) PROVE IInv'
<1> USE LogAssumption, StorageAssumption DEF LogAssumption, StorageAssumption
<1>1. UNCHANGED <<file, named, entry, fd, text>> /\ pc[c] = "start"
      /\ pc' = [pc EXCEPT ![c] = "ready"] /\ holder' = c /\ holder = Nobody /\ kept' = kept
  BY DEF Lock, At, Goto, Available
<1>2. TypeOK'
  BY <1>1 DEF IInv, TypeOK, StorageOK, Steps, Ended, Files
<1>3. FilesOK' /\ RoomOK' /\ FreshOK'
  BY <1>1 DEF IInv, TypeOK, StorageOK, FilesOK, RoomOK, FreshOK, Content
<1> QED
  BY <1>2, <1>3 DEF IInv

\* A record finds the log that is there and decides to append or to rotate.
LEMMA DecideStep ==
  ASSUME IInv, NEW c \in Calls, Decide(c) PROVE IInv'
<1> USE LogAssumption, StorageAssumption DEF LogAssumption, StorageAssumption, IInv
<1>1. UNCHANGED <<file, named, entry, holder, kept>> /\ pc[c] = "ready" /\ c \in Files
  BY DEF Decide, At, StartAppend, StartReplace, Files
<1>2. \A d \in Calls \ {c} : pc[d] \in Ended \cup {"start"}
  BY <1>1, Alone DEF Ended
<1>3. CASE ~Rotates /\ StartAppend(c, Entry(c))
  <2>1. pc' = [pc EXCEPT ![c] = "open"] /\ text' = [text EXCEPT ![c] = Entry(c)] /\ fd' = fd
    BY <1>3 DEF StartAppend, Goto
  <2>2. Len(Content) + EntrySize <= Limit /\ Len(Content') = Len(Content)
    <3>1. Len(Content) \in Nat
      BY LenProperties DEF TypeOK, StorageOK, Content
    <3> QED
      BY <1>1, <1>3, <3>1 DEF Rotates, Content
  <2>3. TypeOK'
    BY <1>1, <2>1, TextTypes DEF TypeOK, StorageOK, Steps, Ended
  <2>4. FilesOK' /\ FreshOK'
    BY <1>1, <2>1 DEF TypeOK, StorageOK, FilesOK, FreshOK
  <2>5. RoomOK'
    BY <1>1, <1>2, <2>1, <2>2, TextTypes DEF TypeOK, StorageOK, RoomOK, Ended
  <2> QED
    BY <2>3, <2>4, <2>5
<1>4. CASE StartReplace(c, Replacement(c))
  <2>1. pc' = [pc EXCEPT ![c] = "stage"] /\ text' = [text EXCEPT ![c] = Replacement(c)]
        /\ fd' = [fd EXCEPT ![c] = c]
    BY <1>4 DEF StartReplace, Goto
  <2>2. TypeOK'
    BY <1>1, <2>1, TextTypes DEF TypeOK, StorageOK, Steps, Ended
  <2>3. FilesOK' /\ FreshOK'
    BY <1>1, <2>1 DEF TypeOK, StorageOK, FilesOK, FreshOK
  <2>4. Len(file'[c].data) = 0
    BY <1>1, EmptySeq DEF FreshOK
  <2>5. RoomOK'
    <3>1. /\ \A d \in Calls \ {c} : pc'[d] \in Ended \cup {"start"}
          /\ pc'[c] = "stage" /\ fd'[c] = c /\ text'[c] = Replacement(c)
      BY <1>2, <2>1 DEF TypeOK, StorageOK
    <3>2. Len(file'[c].data) + Len(text'[c]) <= Limit
      BY <2>4, <3>1, TextTypes
    <3> QED
      BY <3>1, <3>2 DEF RoomOK, Ended
  <2> QED
    BY <2>2, <2>3, <2>5
<1> QED
  BY <1>3, <1>4 DEF Decide

-----------------------------------------------------------------------------
\* A write moves text into the file and leaves their common length alone.
LEMMA Moved ==
  ASSUME NEW d \in Seq(Chunk), NEW t \in Seq(Chunk), NEW n \in 1..Len(t)
  PROVE  LET d2 == d \o SubSeq(t, 1, n)
             t2 == SubSeq(t, n + 1, Len(t))
         IN  /\ d2 \in Seq(Chunk) /\ t2 \in Seq(Chunk)
             /\ Len(d2) = Len(d) + n /\ Len(t2) = Len(t) - n
<1>1. Len(t) \in Nat /\ Len(d) \in Nat /\ \A i \in 1..Len(t) : t[i] \in Chunk
  BY LenProperties, ElementOfSeq
<1>2. SubSeq(t, 1, n) \in Seq(Chunk) /\ Len(SubSeq(t, 1, n)) = n
  <2>1. \A i \in 1..n : t[i] \in Chunk
    BY <1>1
  <2> QED
    BY <1>1, <2>1, SubSeqProperties
<1>3. SubSeq(t, n + 1, Len(t)) \in Seq(Chunk) /\ Len(SubSeq(t, n + 1, Len(t))) = Len(t) - n
  <2>1. \A i \in (n + 1)..Len(t) : t[i] \in Chunk
    BY <1>1
  <2>2. /\ SubSeq(t, n + 1, Len(t)) \in Seq(Chunk)
        /\ Len(SubSeq(t, n + 1, Len(t))) = IF n + 1 <= Len(t) THEN Len(t) - (n + 1) + 1 ELSE 0
    BY <1>1, <2>1, SubSeqProperties
  <2> QED
    BY <1>1, <2>2
<1> QED
  BY <1>1, <1>2, <1>3, ConcatProperties

\* What one write does to the file and to the text that is left.
LEMMA WriteEffect ==
  ASSUME IInv, NEW c \in Calls, Write(c)
  PROVE  /\ pc[c] \in {"write", "stage"} /\ UNCHANGED <<named, entry, pc, fd>>
         /\ \E n \in 1..Len(text[c]) :
               /\ file'[fd[c]].data = file[fd[c]].data \o SubSeq(text[c], 1, n)
               /\ text'[c] = SubSeq(text[c], n + 1, Len(text[c]))
         /\ file'[fd[c]].synced = file[fd[c]].synced
         /\ \A g \in Files \ {fd[c]} : file'[g] = file[g]
         /\ \A e \in Calls \ {c} : text'[e] = text[e]
         /\ file' \in [Files -> [data : Seq(Chunk), synced : Nat]] /\ text' \in [Calls -> Seq(Chunk)]
<1> DEFINE f == fd[c]
           d == file[f].data
           t == text[c]
<1>1. PICK n \in 1..Len(t) :
         /\ file' = [file EXCEPT ![f].data = @ \o SubSeq(t, 1, n)]
         /\ text' = [text EXCEPT ![c] = SubSeq(@, n + 1, Len(@))]
  BY DEF Write
<1>2. pc[c] \in {"write", "stage"} /\ UNCHANGED <<named, entry, pc, fd>>
  BY DEF Write
<1>3. /\ f \in Files /\ d \in Seq(Chunk) /\ t \in Seq(Chunk)
      /\ file \in [Files -> [data : Seq(Chunk), synced : Nat]] /\ text \in [Calls -> Seq(Chunk)]
  BY DEF IInv, TypeOK, StorageOK
<1>4. f = fd[c] /\ d = file[f].data /\ t = text[c]
  OBVIOUS
<1> HIDE DEF f, d, t
<1> DEFINE d2 == d \o SubSeq(t, 1, n)
           t2 == SubSeq(t, n + 1, Len(t))
<1>5. d2 \in Seq(Chunk) /\ t2 \in Seq(Chunk)
  BY <1>3, Moved
<1>6. file' = [file EXCEPT ![f] = [data |-> d2, synced |-> file[f].synced]]
  <2>1. file[f] \in [data : Seq(Chunk), synced : Nat]
    BY <1>3
  <2>2. [file[f] EXCEPT !.data = d2] = [data |-> d2, synced |-> file[f].synced]
    <3> HIDE DEF d2
    <3> QED
      BY <2>1
  <2>3. file' = [file EXCEPT ![f] = [file[f] EXCEPT !.data = d2]]
    BY <1>1, <1>3, <1>4
  <2> QED
    BY <2>2, <2>3
<1>7. text' = [text EXCEPT ![c] = t2]
  BY <1>1, <1>3, <1>4
<1>8. /\ file'[f].data = d2 /\ file'[f].synced = file[f].synced /\ text'[c] = t2
      /\ \A g \in Files \ {f} : file'[g] = file[g]
      /\ \A e \in Calls \ {c} : text'[e] = text[e]
      /\ file' \in [Files -> [data : Seq(Chunk), synced : Nat]] /\ text' \in [Calls -> Seq(Chunk)]
  <2> HIDE DEF d2, t2
  <2> QED
    BY <1>3, <1>5, <1>6, <1>7
<1> QED
  BY <1>2, <1>4, <1>8

\* A write takes chunks from the text and appends them to one file.
LEMMA WriteStep ==
  ASSUME IInv, NEW c \in Calls, Write(c), holder' = Released, kept' \in SUBSET Calls
  PROVE  IInv'
<1> USE LogAssumption, StorageAssumption DEF LogAssumption, StorageAssumption, IInv
<1> DEFINE f == fd[c]
           d == file[f].data
           t == text[c]
<1>1. PICK n \in 1..Len(t) :
         file'[f].data = d \o SubSeq(t, 1, n) /\ text'[c] = SubSeq(t, n + 1, Len(t))
  BY WriteEffect
<1>2. pc[c] \in {"write", "stage"} /\ UNCHANGED <<named, entry, pc, fd>>
  BY DEF Write
<1>3. f \in Files /\ d \in Seq(Chunk) /\ t \in Seq(Chunk) /\ file[f].synced \in 0..Len(d)
      /\ Len(d) \in Nat /\ Len(t) \in Nat
  BY LenProperties DEF TypeOK, StorageOK
<1>4. Len(d) + Len(t) <= Limit
  BY <1>2 DEF RoomOK
<1>6. /\ file'[f].synced = file[f].synced
      /\ \A g \in Files \ {f} : file'[g] = file[g]
      /\ \A e \in Calls \ {c} : text'[e] = text[e]
      /\ file' \in [Files -> [data : Seq(Chunk), synced : Nat]] /\ text' \in [Calls -> Seq(Chunk)]
  BY WriteEffect
<1>0. f = fd[c] /\ d = file[f].data /\ t = text[c]
  OBVIOUS
<1> HIDE DEF f, d, t
<1> DEFINE d2 == d \o SubSeq(t, 1, n)
           t2 == SubSeq(t, n + 1, Len(t))
<1>5. d2 \in Seq(Chunk) /\ t2 \in Seq(Chunk) /\ Len(d2) = Len(d) + n /\ Len(t2) = Len(t) - n
  BY <1>3, Moved
<1>7. file'[f].data = d2 /\ text'[c] = t2
  BY <1>1
<1>8. holder' = holder
  BY <1>2 DEF TypeOK, Released, Ended
<1>9. \A e \in Calls \ {c} : pc[e] \in Ended \cup {"start"}
  BY <1>2, Alone DEF Ended
<1> HIDE DEF d2, t2
<1>10. TypeOK'
  <2>1. \A g \in Files : file'[g].synced <= Len(file'[g].data)
    <3>1. file'[f].synced <= Len(file'[f].data)
      BY <1>3, <1>5, <1>6, <1>7
    <3>2. \A g \in Files \ {f} : file'[g].synced <= Len(file'[g].data)
      BY <1>6, <1>7 DEF TypeOK, StorageOK
    <3> QED
      BY <3>1, <3>2
  <2> QED
    BY <1>2, <1>6, <1>7, <1>8, <2>1 DEF TypeOK, StorageOK
<1>11. FilesOK'
  <2>1. Len(d2) <= Limit
    BY <1>3, <1>4, <1>5
  <2> QED
    <3>1. Within(file'[f].data)
      BY <1>3, <1>5, <1>6, <1>7, <2>1 DEF Within
    <3>2. \A g \in Files \ {f} : Within(file'[g].data)
      BY <1>6, <1>7 DEF FilesOK
    <3> QED
      BY <3>1, <3>2 DEF FilesOK
<1>12. RoomOK'
  <2>1. Len(d2) + Len(t2) <= Limit
    BY <1>3, <1>4, <1>5
  <2> QED
    BY <1>2, <1>6, <1>7, <1>9, <1>0, <2>1 DEF RoomOK, Ended
<1>13. FreshOK'
  <2>1. \A e \in Calls : pc[e] \in {"start", "ready"} => e # f
    BY <1>0, <1>2 DEF FreshOK
  <2> QED
    BY <1>2, <1>6, <1>7, <2>1 DEF FreshOK, Files
<1> QED
  BY <1>10, <1>11, <1>12, <1>13

\* A record opens the log, or its replacement.
LEMMA OpenStep ==
  ASSUME IInv, NEW c \in Calls, Open(c), holder' = Released, kept' \in SUBSET Calls
  PROVE  IInv'
<1> USE LogAssumption, StorageAssumption DEF LogAssumption, StorageAssumption, IInv
<1>1. /\ pc[c] = "open" /\ UNCHANGED <<file, named, entry, text>>
      /\ pc' = [pc EXCEPT ![c] = "write"] /\ fd' = [fd EXCEPT ![c] = named]
  BY DEF Open, At, Goto
<1>2. \A e \in Calls \ {c} : pc[e] \in Ended \cup {"start"}
  BY <1>1, Alone DEF Ended
<1>3. TypeOK'
  BY <1>1, Release DEF TypeOK, StorageOK, Steps, Ended
<1>4. RoomOK'
  BY <1>1, <1>2 DEF TypeOK, StorageOK, RoomOK, Content, Ended
<1>5. FilesOK' /\ FreshOK'
  BY <1>1 DEF TypeOK, StorageOK, FilesOK, FreshOK
<1> QED
  BY <1>3, <1>4, <1>5

\* A sync changes what is durable of one file, and the content of none.
LEMMA SyncStep ==
  ASSUME IInv, NEW c \in Calls, SyncFile(c), holder' = Released, kept' \in SUBSET Calls
  PROVE  IInv'
<1> USE LogAssumption, StorageAssumption DEF LogAssumption, StorageAssumption, IInv
<1>1. PICK step \in {"ok", "rename"} :
         pc' = [pc EXCEPT ![c] = step] /\ pc[c] \in {"write", "stage"}
  BY DEF SyncFile, At, Goto
<1>2. /\ UNCHANGED <<named, fd, text>> /\ entry' \in {entry, named}
      /\ file' = [file EXCEPT ![fd[c]] = Flushed(@)] /\ fd[c] \in Files
  BY DEF SyncFile, TypeOK, StorageOK
<1>3. \A e \in Calls \ {c} : pc[e] \in Ended \cup {"start"}
  BY <1>1, Alone DEF Ended
<1>4. /\ \A g \in Files : file'[g].data = file[g].data /\ file'[g].synced <= Len(file'[g].data)
      /\ file' \in [Files -> [data : Seq(Chunk), synced : Nat]]
  <2>1. file \in [Files -> [data : Seq(Chunk), synced : Nat]]
    BY DEF TypeOK, StorageOK
  <2>2. \A g \in Files : Len(file[g].data) \in Nat /\ file[g].synced <= Len(file[g].data)
    BY <2>1, LenProperties DEF TypeOK, StorageOK
  <2>3. Len(file[fd[c]].data) \in Nat
    BY <1>2, <2>2
  <2>4. /\ Flushed(file[fd[c]]) \in [data : Seq(Chunk), synced : Nat]
        /\ Flushed(file[fd[c]]).data = file[fd[c]].data
        /\ Flushed(file[fd[c]]).synced = Len(file[fd[c]].data)
    BY ONLY <1>2, <2>1, <2>3 DEF Flushed
  <2>5. \A g \in Files : file'[g] = IF g = fd[c] THEN Flushed(file[fd[c]]) ELSE file[g]
    BY ONLY <1>2, <2>1
  <2>6. \A g \in Files : file'[g].data = file[g].data /\ file'[g].synced <= Len(file'[g].data)
    <3> TAKE g \in Files
    <3>1. CASE g = fd[c]
      BY ONLY <3>1, <2>3, <2>4, <2>5
    <3>2. CASE g # fd[c]
      BY ONLY <3>2, <2>1, <2>2, <2>5
    <3> QED
      BY ONLY <3>1, <3>2
  <2>7. file' \in [Files -> [data : Seq(Chunk), synced : Nat]]
    <3>1. fd[c] \in Files /\ file' = [file EXCEPT ![fd[c]] = Flushed(file[fd[c]])]
      BY ONLY <1>2
    <3> QED
      BY ONLY <3>1, <2>1, <2>4
  <2> QED
    BY ONLY <2>6, <2>7
<1>5. TypeOK'
  BY <1>1, <1>2, <1>4, Release DEF TypeOK, StorageOK, Steps, Ended
<1>6. FilesOK'
  BY <1>4 DEF FilesOK
<1>7. RoomOK'
  BY <1>1, <1>3 DEF TypeOK, StorageOK, RoomOK, Ended
<1>8. FreshOK'
  BY <1>1, <1>2, <1>4 DEF TypeOK, StorageOK, FreshOK, Files
<1> QED
  BY <1>5, <1>6, <1>7, <1>8

\* A replacement takes the log's name, in memory and then in the directory.
LEMMA RenameStep ==
  ASSUME IInv, NEW c \in Calls, Rename(c) \/ SyncDirectory(c), holder' = Released,
         kept' \in SUBSET Calls
  PROVE  IInv'
<1> USE LogAssumption, StorageAssumption DEF LogAssumption, StorageAssumption, IInv
<1>1. PICK step \in {"ok", "syncdir"} :
         pc' = [pc EXCEPT ![c] = step] /\ pc[c] \in {"rename", "syncdir"}
  BY DEF Rename, RenameDue, SyncDirectory, At, Goto
<1>2. /\ UNCHANGED <<file, fd, text>> /\ c \in Files
      /\ named' \in {named, c} /\ entry' \in {entry, named}
  BY DEF Rename, SyncDirectory, Files
<1>3. \A e \in Calls \ {c} : pc[e] \in Ended \cup {"start"}
  BY <1>1, Alone DEF Ended
<1>4. TypeOK'
  BY <1>1, <1>2, Release DEF TypeOK, StorageOK, Steps, Ended
<1>5. FilesOK' /\ RoomOK' /\ FreshOK'
  BY <1>1, <1>2, <1>3 DEF TypeOK, StorageOK, FilesOK, RoomOK, FreshOK, Ended
<1> QED
  BY <1>4, <1>5

\* What a failure or a kill leaves: no text, and no file but perhaps emptied.
LEMMA EndStep ==
  ASSUME IInv, NEW c \in Calls, NEW step \in {"failed", "dead"},
         pc' = [pc EXCEPT ![c] = step], text' = [text EXCEPT ![c] = <<>>],
         file' = file \/ (pc[c] # "start" /\ file' = [file EXCEPT ![c] = Empty]),
         UNCHANGED <<named, entry, fd>>, kept' \in SUBSET Calls,
         holder' \in Calls \cup {Nobody},
         \A d \in Calls : holder' = d <=> pc'[d] \notin Ended \cup {"start"},
         pc[c] \notin Ended
  PROVE  IInv'
<1> USE LogAssumption, StorageAssumption DEF LogAssumption, StorageAssumption, IInv
<1>1. /\ file \in [Files -> [data : Seq(Chunk), synced : Nat]] /\ text \in [Calls -> Seq(Chunk)]
      /\ \A g \in Files : file[g].synced <= Len(file[g].data)
  BY DEF TypeOK, StorageOK
<1>2. <<>> \in Seq(Chunk) /\ Len(<<>>) = 0
  BY EmptySeq
<1>3. /\ file' \in [Files -> [data : Seq(Chunk), synced : Nat]] /\ text' \in [Calls -> Seq(Chunk)]
      /\ \A g \in Files : file'[g] = file[g] \/ file'[g] = Empty
  <2> HIDE DEF IInv
  <2>1. text' \in [Calls -> Seq(Chunk)]
    BY <1>1, <1>2
  <2>2. Empty \in [data : Seq(Chunk), synced : Nat] /\ c \in Files
    BY <1>2 DEF Empty, Files
  <2>3. CASE file' = file
    BY <1>1, <2>1, <2>3
  <2>4. CASE file' = [file EXCEPT ![c] = Empty]
    BY <1>1, <2>1, <2>2, <2>4
  <2> QED
    BY <2>1, <2>3, <2>4
<1>4. /\ \A g \in Files : file'[g].synced <= Len(file'[g].data)
      /\ \A g \in Files : file'[g].data = file[g].data \/ file'[g].data = <<>>
  BY <1>1, <1>2, <1>3 DEF Empty
<1>5. pc' \in [Calls -> Steps] /\ \A d \in Calls \ {c} : pc'[d] = pc[d]
  BY DEF TypeOK, StorageOK, Steps, Ended
<1>6. TypeOK'
  BY <1>3, <1>4, <1>5 DEF TypeOK, StorageOK
<1>7. FilesOK'
  BY <1>2, <1>4 DEF FilesOK, Within
<1>8. RoomOK'
  <2>1. CASE pc[c] = "start"
    BY <1>5, <2>1 DEF TypeOK, StorageOK, RoomOK, Content
  <2>2. CASE pc[c] # "start"
    <3>1. \A d \in Calls : pc'[d] \in Ended \cup {"start"}
      BY <2>2, Alone, <1>5 DEF TypeOK, StorageOK, Ended
    <3> QED
      BY <3>1 DEF RoomOK, Ended
  <2> QED
    BY <2>1, <2>2
<1>9. FreshOK'
  BY <1>4, <1>5 DEF TypeOK, StorageOK, FreshOK, Files
<1> QED
  BY <1>6, <1>7, <1>8, <1>9

\* A call that fails releases the lock and leaves the files.
LEMMA FailStep ==
  ASSUME IInv, NEW c \in Calls, Fail(c), holder' = Released, kept' \in SUBSET Calls
  PROVE  IInv'
<1>1. /\ pc[c] \notin Ended /\ pc' = [pc EXCEPT ![c] = "failed"]
      /\ text' = [text EXCEPT ![c] = <<>>] /\ UNCHANGED <<named, entry, fd>>
      /\ file' = file \/ (pc[c] # "start" /\ file' = [file EXCEPT ![c] = Empty])
  BY DEF Fail, Goto
<1>2. /\ holder' \in Calls \cup {Nobody}
      /\ \A d \in Calls : holder' = d <=> pc'[d] \notin Ended \cup {"start"}
  BY <1>1, Release DEF IInv, Steps, Ended
<1> QED
  BY <1>1, <1>2, EndStep

\* A process that is killed leaves the files.
LEMMA DieStep ==
  ASSUME IInv, NEW c \in Calls, Die(c) PROVE IInv'
<1>1. /\ pc[c] \notin Ended /\ pc' = [pc EXCEPT ![c] = "dead"]
      /\ text' = [text EXCEPT ![c] = <<>>] /\ UNCHANGED <<file, named, entry, fd, kept>>
      /\ holder' = IF holder = c THEN Nobody ELSE holder
  BY DEF Die, Crash, Goto
<1>2. kept' \in SUBSET Calls /\ holder' \in Calls \cup {Nobody}
      /\ \A d \in Calls : holder' = d <=> pc'[d] \notin Ended \cup {"start"}
  BY <1>1, LogAssumption DEF IInv, TypeOK, StorageOK, LogAssumption, Ended
<1> QED
  BY <1>1, <1>2, EndStep

\* A power loss keeps of each file what is synced, and perhaps more.
LEMMA PowerStep ==
  ASSUME IInv, LosePower PROVE IInv'
<1> USE LogAssumption, StorageAssumption DEF LogAssumption, StorageAssumption, IInv
<1> DEFINE d == file[entry].data
<1>1. /\ file \in [Files -> [data : Seq(Chunk), synced : Nat]] /\ entry \in Files
      /\ d \in Seq(Chunk) /\ Len(d) \in Nat /\ Within(d) /\ file[entry].synced \in 0..Len(d)
  BY LenProperties DEF TypeOK, StorageOK, FilesOK
<1>2. PICK n \in file[entry].synced..Len(d) :
         file' = [file EXCEPT ![entry] = [data |-> SubSeq(@.data, 1, n), synced |-> n]]
  BY DEF LosePower, PowerLoss
<1>3. /\ named' = entry /\ UNCHANGED <<entry, fd, kept>> /\ holder' = Nobody
      /\ pc' = [c \in Calls |-> IF pc[c] \in Ended \cup {"start"} THEN pc[c] ELSE "dead"]
      /\ text' = [c \in Calls |-> <<>>]
  BY DEF LosePower, PowerLoss
<1> DEFINE d2 == SubSeq(d, 1, n)
<1>4. n \in Nat /\ d2 \in Seq(Chunk) /\ Len(d2) = n /\ Within(d2)
  BY <1>1, <1>2, PrefixWithin
<1>5. file' = [file EXCEPT ![entry] = [data |-> d2, synced |-> n]]
  BY <1>1, <1>2
<1>6. \A c \in Calls : pc'[c] \in Ended \cup {"start"} /\ (pc'[c] = "start" => pc[c] = "start")
  BY <1>3 DEF Ended
<1>7. <<>> \in Seq(Chunk)
  BY EmptySeq
<1> HIDE DEF d2
<1>8. TypeOK'
  BY <1>1, <1>3, <1>4, <1>5, <1>6, <1>7 DEF TypeOK, StorageOK, Steps, Ended
<1>9. FilesOK'
  BY <1>1, <1>4, <1>5 DEF FilesOK
<1>10. RoomOK' /\ FreshOK'
  BY <1>1, <1>3, <1>5, <1>6 DEF TypeOK, StorageOK, RoomOK, FreshOK, Ended, Files
<1> QED
  BY <1>8, <1>9, <1>10

\* Every step keeps the bound on the files, and the room it needs: one lemma above for each.
LEMMA StepInv == IInv /\ [Next]_vars => IInv'
<1> SUFFICES ASSUME IInv, [Next]_vars PROVE IInv'
  OBVIOUS
<1>1. ASSUME NEW c \in Calls, Proceed(c) PROVE IInv'
  <2>1. holder' = Released /\ kept' \in SUBSET Calls /\ Step(c)
    BY <1>1 DEF Proceed, Succeeded, IInv, TypeOK
  <2> QED
    BY <2>1, OpenStep, WriteStep, SyncStep, RenameStep, FailStep DEF Step
<1>2. CASE UNCHANGED vars
  BY <1>2 DEF vars, storage, IInv, TypeOK, StorageOK, FilesOK, RoomOK, FreshOK, Content
<1> QED
  BY <1>1, <1>2, LockStep, DecideStep, DieStep, PowerStep DEF Next, Record, Finished

\* The files have their types in every state.
LEMMA Invariance == Spec => []IInv
  BY InitInv, StepInv, PTL DEF Spec

\* The lock: exactly the record that has decided and not yet ended holds it,
\* whatever fails, is killed or loses power.
THEOREM LogTypeCorrect == Spec => []TypeOK
<1>1. IInv => TypeOK
  BY DEF IInv
<1> QED
  BY <1>1, Invariance, PTL

\* No interleaving of records, failures and crashes makes the log larger than
\* its limit.
THEOREM LogAlwaysBounded == Spec => []LogBounded
<1>1. IInv => LogBounded
  BY DEF IInv, TypeOK, StorageOK, FilesOK, Within, LogBounded, Content, Earlier
<1> QED
  BY <1>1, Invariance, PTL
-----------------------------------------------------------------------------
(* What is in the files. *)

\* The letters of what a record writes.
LEMMA TextLetters ==
  ASSUME NEW c \in Calls
  PROVE  /\ \A i \in 1..EntrySize : Entry(c)[i] = <<c, i>>
         /\ Replacement(c)[1] = Mark
         /\ \A i \in 1..EntrySize : Replacement(c)[i + 1] = <<c, i>>
<1> USE LogAssumption DEF LogAssumption
<1>1. \A i \in 1..EntrySize : Entry(c)[i] = <<c, i>>
  BY DEF Entry
<1>2. <<Mark>> \in Seq(Chunk) /\ Len(<<Mark>>) = 1 /\ <<Mark>>[1] = Mark
  BY DEF Chunk
<1>3. Entry(c) \in Seq(Chunk) /\ Len(Entry(c)) = EntrySize
  BY TextTypes
<1>4. \A i \in 1..EntrySize + 1 :
         Replacement(c)[i] = IF i <= 1 THEN <<Mark>>[i] ELSE Entry(c)[i - 1]
  BY <1>2, <1>3, ConcatProperties DEF Replacement
<1>5. ASSUME NEW i \in 1..EntrySize PROVE Replacement(c)[i + 1] = <<c, i>>
  <2>1. i + 1 \in 1..EntrySize + 1 /\ ~(i + 1 <= 1) /\ (i + 1) - 1 = i
    OBVIOUS
  <2>2. Replacement(c)[i + 1] = Entry(c)[(i + 1) - 1]
    BY <1>4, <2>1
  <2> QED
    BY <1>1, <2>1, <2>2
<1>6. Replacement(c)[1] = Mark
  BY <1>2, <1>4
<1> QED
  BY <1>1, <1>5, <1>6

\* One write goes on with what is written.
LEMMA WrittenMore ==
  ASSUME NEW d \in Seq(Chunk), NEW n \in Nat, NEW word \in Seq(Chunk), NEW t \in Seq(Chunk),
         Written(d, n, word, t), NEW k \in 1..Len(t)
  PROVE  /\ Written(d \o SubSeq(t, 1, k), n, word, SubSeq(t, k + 1, Len(t)))
         /\ Len(d \o SubSeq(t, 1, k)) = Len(d) + k
         /\ \A i \in 1..Len(d) : (d \o SubSeq(t, 1, k))[i] = d[i]
<1>1. Len(t) \in Nat /\ Len(d) \in Nat /\ Len(word) \in Nat /\ \A i \in 1..Len(t) : t[i] \in Chunk
  BY LenProperties, ElementOfSeq
<1> DEFINE t1 == SubSeq(t, 1, k)
           t2 == SubSeq(t, k + 1, Len(t))
           d2 == d \o t1
<1>2. t1 \in Seq(Chunk) /\ Len(t1) = k /\ \A i \in 1..k : t1[i] = t[i]
  <2>1. \A i \in 1..k : t[i] \in Chunk
    BY <1>1
  <2> QED
    BY <1>1, <2>1, SubSeqProperties
<1>3. Len(t2) = Len(t) - k /\ \A i \in 1..Len(t) - k : t2[i] = t[k + i]
  <2>1. \A i \in (k + 1)..Len(t) : t[i] \in Chunk
    BY <1>1
  <2>2. /\ Len(t2) = IF k + 1 <= Len(t) THEN Len(t) - (k + 1) + 1 ELSE 0
        /\ \A i \in 1..Len(t) - k : t2[i] = t[(k + 1) + i - 1]
    BY <1>1, <2>1, SubSeqProperties
  <2>3. \A i \in 1..Len(t) - k : (k + 1) + i - 1 = k + i
    BY <1>1
  <2> QED
    BY <1>1, <2>2, <2>3
<1> HIDE DEF t1, t2
<1>4. /\ Len(d2) = Len(d) + k
      /\ \A i \in 1..Len(d) : d2[i] = d[i]
      /\ \A i \in 1..k : d2[Len(d) + i] = t[i]
  <2>1. Len(d2) = Len(d) + k
        /\ \A i \in 1..Len(d) + k : d2[i] = IF i <= Len(d) THEN d[i] ELSE t1[i - Len(d)]
    BY <1>2, ConcatProperties
  <2>2. \A i \in 1..k : Len(d) + i \in 1..Len(d) + k /\ ~(Len(d) + i <= Len(d))
                        /\ (Len(d) + i) - Len(d) = i
    BY <1>1
  <2>3. \A i \in 1..k : d2[Len(d) + i] = t1[(Len(d) + i) - Len(d)]
    BY <2>1, <2>2
  <2> QED
    BY <1>1, <1>2, <2>1, <2>2, <2>3
<1> HIDE DEF d2
<1>5. /\ n <= Len(d) /\ Len(d) + Len(t) = n + Len(word)
      /\ \A i \in 1..Len(d) - n : d[n + i] = word[i]
      /\ \A i \in 1..Len(t) : t[i] = word[Len(d) - n + i]
  BY DEF Written
<1>6. ASSUME NEW i \in 1..Len(d2) - n PROVE d2[n + i] = word[i]
  <2>1. CASE i <= Len(d) - n
    <3>1. n + i \in 1..Len(d) /\ i \in 1..Len(d) - n
      BY <1>1, <2>1
    <3> QED
      BY <1>4, <1>5, <3>1
  <2>2. CASE ~(i <= Len(d) - n)
    <3>1. PICK j \in Int : j = i - (Len(d) - n)
      BY <1>1
    <3>0. i \in Int /\ i >= 1 /\ i <= Len(d) + k - n /\ k \in Nat /\ k <= Len(t)
      BY <1>1, <1>4
    <3>2. j \in 1..k /\ n + i = Len(d) + j /\ Len(d) - n + j = i /\ j \in 1..Len(t)
      BY <1>1, <2>2, <3>0, <3>1
    <3>3. d2[Len(d) + j] = t[j] /\ t[j] = word[Len(d) - n + j]
      BY <1>4, <1>5, <3>2
    <3> QED
      BY <3>2, <3>3
  <2> QED
    BY <2>1, <2>2
<1>7. ASSUME NEW i \in 1..Len(t2) PROVE t2[i] = word[Len(d2) - n + i]
  <2>1. k + i \in 1..Len(t) /\ Len(d) - n + (k + i) = Len(d2) - n + i /\ i \in 1..Len(t) - k
    BY <1>1, <1>3, <1>4
  <2>2. t2[i] = t[k + i] /\ t[k + i] = word[Len(d) - n + (k + i)]
    BY <1>3, <1>5, <2>1
  <2> QED
    BY <2>1, <2>2
<1>8. n <= Len(d2) /\ Len(d2) + Len(t2) = n + Len(word)
  BY <1>1, <1>3, <1>4, <1>5
<1>9. Written(d2, n, word, t2)
  BY <1>6, <1>7, <1>8 DEF Written
<1> QED
  BY <1>4, <1>9 DEF d2, t1, t2

\* What is synced stays, and with it the replacement that is.
LEMMA SettledKept ==
  ASSUME NEW c \in Calls, Settled(c), file[c].synced \in Nat, file'[c].synced \in Nat,
         file[c].synced <= file'[c].synced,
         \A i \in 1..file[c].synced : file'[c].data[i] = file[c].data[i]
  PROVE  Settled(c)'
<1>1. Len(Replacement(c)) \in Nat
  BY TextTypes, LenProperties
<1> DEFINE r == Replacement(c)
<1>2. Len(r) <= file[c].synced /\ \A i \in 1..Len(r) : file[c].data[i] = r[i]
  BY DEF Settled
<1>3. \A i \in 1..Len(r) : i \in 1..file[c].synced
  BY <1>1, <1>2
<1>4. \A i \in 1..Len(r) : file'[c].data[i] = r[i]
  BY <1>2, <1>3
<1>5. Len(r) <= file'[c].synced
  BY <1>1, <1>2
<1>6. r' = r
  BY DEF Replacement, Entry
<1> QED
  BY <1>4, <1>5, <1>6 DEF Settled

\* And so do the lines that are.
LEMMA DurableKept ==
  ASSUME NEW c \in Calls, Durable(c), named' = named,
         file[named].synced \in Nat, file'[named].synced \in Nat,
         Len(Content') \in Nat, file'[named].synced <= Len(Content'),
         file[named].synced <= file'[named].synced, Broken \subseteq Broken',
         \A i \in 1..file[named].synced : Content'[i] = Content[i]
  PROVE  Durable(c)'
<1> DEFINE k == file[named].synced
<1>1. PICK n \in 0..Len(Content) :
         /\ n + EntrySize <= k
         /\ \A i \in 1..EntrySize : Content[n + i] = <<c, i>>
         /\ LineAfter(Content, n, Broken)
  BY DEF Durable
<1>2. k \in Nat /\ n \in Nat /\ EntrySize \in Nat \ {0}
  BY LogAssumption DEF LogAssumption
<1> HIDE DEF k
<1>3. /\ n \in 0..Len(Content') /\ n + EntrySize <= file'[named'].synced
      /\ \A i \in 1..EntrySize : n + i \in 1..k
      /\ n > 0 => n \in 1..k
  BY <1>1, <1>2 DEF k
<1>4. \A i \in 1..EntrySize : Content'[n + i] = <<c, i>>
  BY <1>1, <1>3 DEF k
<1>5. LineAfter(Content', n, Broken')
  BY <1>1, <1>3 DEF k, LineAfter
<1> QED
  BY <1>3, <1>4, <1>5 DEF Durable

\* A file that is left alone has no more unfinished lines than before.
LEMMA TailKept ==
  ASSUME NEW f, TailOK(f), file'[f] = file[f], Unfinished \subseteq Unfinished'
  PROVE  TailOK(f)'
BY DEF TailOK, LineAfter, EndsLine

\* A record that has ended, or not begun, has to keep its line.
LEMMA IdleOK ==
  ASSUME NEW c \in Calls, pc'[c] \in Ended \cup {"start"},
         c \in kept' => pc'[c] = "ok" /\ entry' = named' /\ Durable(c)'
  PROVE  CallOK(c)'
BY DEF CallOK, Ended

\* A step that leaves the files and the record alone leaves it in order.
LEMMA UntouchedOK ==
  ASSUME NEW c \in Calls, CallOK(c), UNCHANGED <<file, named, entry>>,
         pc'[c] = pc[c], text'[c] = text[c], fd'[c] = fd[c], c \in kept' => c \in kept,
         Broken \subseteq Broken'
  PROVE  CallOK(c)'
<1>1. \A n : LineAfter(Content, n, Broken) => LineAfter(Content', n, Broken')
  BY DEF LineAfter, Content
<1>2. /\ Entry(c)' = Entry(c) /\ Replacement(c)' = Replacement(c) /\ Content' = Content
  BY DEF Entry, Replacement, Content
<1>3. Durable(c) => Durable(c)'
  BY <1>1, <1>2 DEF Durable
<1>4. \A n, word, t : Written(Content, n, word, t) => Written(Content', n, word, t)
  BY <1>2
<1> QED
  BY <1>1, <1>2, <1>3, <1>4 DEF CallOK

\* The types that the steps below rest on.
LEMMA FileTypes ==
  ASSUME IInv
  PROVE  /\ named \in Files /\ entry \in Files /\ kept \subseteq Calls
         /\ pc \in [Calls -> Steps] /\ fd \in [Calls -> Files] /\ text \in [Calls -> Seq(Chunk)]
         /\ file \in [Files -> [data : Seq(Chunk), synced : Nat]]
         /\ \A f \in Files : /\ file[f].data \in Seq(Chunk) /\ Len(file[f].data) \in Nat
                             /\ file[f].synced \in Nat /\ file[f].synced <= Len(file[f].data)
<1>1. file \in [Files -> [data : Seq(Chunk), synced : Nat]]
  BY DEF IInv, TypeOK, StorageOK
<1>2. ASSUME NEW f \in Files
      PROVE  /\ file[f].data \in Seq(Chunk) /\ Len(file[f].data) \in Nat
             /\ file[f].synced \in Nat /\ file[f].synced <= Len(file[f].data)
  <2>1. file[f].data \in Seq(Chunk) /\ file[f].synced \in Nat
    BY <1>1
  <2> QED
    BY <2>1, LenProperties DEF IInv, TypeOK, StorageOK
<1> QED
  BY <1>1, <1>2 DEF IInv, TypeOK, StorageOK

\* While a record is at it, the others have their lines at most.
LEMMA OthersOK ==
  ASSUME IInv, NEW c \in Calls, pc[c] \notin Ended \cup {"start"},
         \A q \in Calls \ {c} : pc'[q] = pc[q],
         \A q \in Calls \ {c} : CallOK(q),
         \A q \in Calls \ {c} : q \in kept' => q \in kept /\ entry' = named' /\ Durable(q)'
  PROVE  \A q \in Calls \ {c} : CallOK(q)'
<1> TAKE q \in Calls \ {c}
<1>1. pc[q] \in Ended \cup {"start"}
  BY Alone DEF IInv
<1>2. q \in kept => pc[q] = "ok"
  BY DEF CallOK
<1> QED
  BY <1>1, <1>2, IdleOK

\* Files that a step leaves alone stay in order.
LEMMA LiveKept ==
  ASSUME IInv, LinesInv, NEW f \in Live, file'[f] = file[f], Unfinished \subseteq Unfinished'
  PROVE  TailOK(f)' /\ (f \in Calls => Settled(f)')
<1>1. TailOK(f) /\ (f \in Calls => Settled(f))
  BY DEF LinesInv
<1>2. f \in Files
  BY FileTypes DEF Live, Files
<1>3. ASSUME f \in Calls PROVE Settled(f)'
  <2>1. file[f].synced \in Nat /\ file'[f].synced = file[f].synced /\ file'[f].data = file[f].data
    BY <1>2, FileTypes
  <2> HIDE DEF IInv, LinesInv
  <2> QED
    BY <1>1, <1>3, <2>1, SettledKept
<1> QED
  BY <1>1, <1>3, TailKept

\* Taking the lock writes nothing.
LEMMA LockLines ==
  ASSUME IInv, LinesInv, NEW c \in Calls, Lock(c) PROVE LinesInv'
<1>1. /\ UNCHANGED <<file, named, entry, fd, text, kept>> /\ pc[c] = "start"
      /\ pc' = [pc EXCEPT ![c] = "ready"]
  BY DEF Lock, At, Goto
<1>2. pc'[c] = "ready" /\ \A q \in Calls \ {c} : pc'[q] = pc[q]
  BY <1>1, FileTypes
<1>3. Broken \subseteq Broken' /\ Unfinished \subseteq Unfinished' /\ Live' \subseteq Live
  BY <1>1, <1>2 DEF Broken, Unfinished, Live
<1>4. \A q \in Calls \ {c} : CallOK(q)'
  BY <1>1, <1>2, <1>3, UntouchedOK DEF LinesInv
<1>5. CallOK(c)'
  <2>1. c \notin kept'
    BY <1>1 DEF LinesInv, CallOK
  <2> QED
    BY <1>2, <2>1 DEF CallOK
<1> QED
  BY <1>1, <1>3, <1>4, <1>5, LiveKept DEF LinesInv

\* A record that decides has not yet written: its line is to begin at the end of the log.
LEMMA DecideLines ==
  ASSUME IInv, LinesInv, NEW c \in Calls, Decide(c) PROVE LinesInv'
<1>1. UNCHANGED <<file, named, entry, kept>> /\ pc[c] = "ready"
  BY DEF Decide, At, StartAppend, StartReplace
<1>2. c \notin kept'
  BY <1>1 DEF LinesInv, CallOK
<1>3. CASE StartAppend(c, Entry(c))
  <2>1. /\ pc'[c] = "open" /\ text'[c] = Entry(c)
        /\ \A q \in Calls \ {c} : pc'[q] = pc[q] /\ text'[q] = text[q] /\ fd'[q] = fd[q]
    BY <1>3, FileTypes DEF StartAppend, Goto
  <2>2. Broken \subseteq Broken' /\ Unfinished \subseteq Unfinished' /\ Live' \subseteq Live
    BY <1>1, <2>1 DEF Broken, Unfinished, Live
  <2>3. \A q \in Calls \ {c} : CallOK(q)'
    BY <1>1, <2>1, <2>2, UntouchedOK DEF LinesInv
  <2>4. CallOK(c)'
    BY <1>2, <2>1 DEF CallOK, Entry
  <2> QED
    BY <1>1, <2>2, <2>3, <2>4, LiveKept DEF LinesInv
<1>4. CASE StartReplace(c, Replacement(c))
  <2>1. /\ pc'[c] = "stage" /\ text'[c] = Replacement(c) /\ fd'[c] = c
        /\ \A q \in Calls \ {c} : pc'[q] = pc[q] /\ text'[q] = text[q] /\ fd'[q] = fd[q]
    BY <1>4, FileTypes DEF StartReplace, Goto
  <2>2. Broken \subseteq Broken' /\ Unfinished \subseteq Unfinished' /\ Live' \subseteq Live
    BY <1>1, <2>1 DEF Broken, Unfinished, Live
  <2>3. \A q \in Calls \ {c} : CallOK(q)'
    BY <1>1, <2>1, <2>2, UntouchedOK DEF LinesInv
  <2>4. CallOK(c)'
    <3>1. file[c].data = <<>> /\ named # c /\ entry # c
      BY <1>1 DEF IInv, FreshOK
    <3>2. Len(<<>>) = 0 /\ Len(Replacement(c)) \in Nat
      BY TextTypes, LenProperties
    <3>3. Written(<<>>, 0, Replacement(c), Replacement(c))
      BY <3>2 DEF Written
    <3>4. Replacement(c)' = Replacement(c)
      BY DEF Replacement, Entry
    <3> QED
      BY <1>1, <1>2, <2>1, <3>1, <3>3, <3>4 DEF CallOK
  <2> QED
    BY <1>1, <2>2, <2>3, <2>4, LiveKept DEF LinesInv
<1> QED
  BY <1>3, <1>4 DEF Decide

\* Appending begins behind a whole line, or behind what a record left that is broken.
LEMMA OpenLines ==
  ASSUME IInv, LinesInv, NEW c \in Calls, Open(c), kept' = kept PROVE LinesInv'
<1>1. UNCHANGED <<file, named, entry, text>> /\ pc[c] = "open"
  BY DEF Open, At
<1>2. /\ pc'[c] = "write" /\ fd'[c] = named
      /\ \A q \in Calls \ {c} : pc'[q] = pc[q] /\ text'[q] = text[q] /\ fd'[q] = fd[q]
  BY FileTypes DEF Open, Goto
<1>3. Broken \subseteq Broken' /\ Unfinished \subseteq Unfinished' /\ Live' \subseteq Live
  BY <1>1, <1>2 DEF Broken, Unfinished, Live
<1>4. \A q \in Calls \ {c} : CallOK(q)'
  BY <1>1, <1>2, <1>3, UntouchedOK DEF LinesInv
<1>5. CallOK(c)'
  <2> DEFINE n == Len(Content)
  <2>1. n \in Nat /\ file[named].synced \in Nat /\ file[named].synced <= n
    BY FileTypes DEF Content
  <2>2. LineAfter(Content, n, Unfinished)
    <3>1. TailOK(named)
      BY DEF LinesInv, Live
    <3> QED
      BY <2>1, <3>1 DEF TailOK, Content
  <2>3. Unfinished \subseteq Broken
    <3>1. \A q \in Calls : pc[q] # "write"
      BY <1>1, Alone DEF IInv, Ended
    <3> QED
      BY <3>1 DEF Unfinished, Broken
  <2>4. LineAfter(Content, n, Broken')
    BY <1>3, <2>2, <2>3 DEF LineAfter
  <2>5. text[c] = Entry(c)
    BY <1>1 DEF LinesInv, CallOK
  <2>6. Written(Content, n, Entry(c), Entry(c))
    <3>1. Len(Entry(c)) \in Nat
      BY TextTypes, LenProperties
    <3> QED
      BY <2>1, <3>1 DEF Written
  <2>7. Content' = Content /\ Entry(c)' = Entry(c) /\ text'[c] = Entry(c) /\ c \notin kept'
    BY <1>1, <2>5 DEF Content, Entry, LinesInv, CallOK
  <2> HIDE DEF n
  <2>8. n \in 0..Len(Content')
    BY <2>1, <2>7 DEF n
  <2>9. Written(Content', n, Entry(c)', text'[c]) /\ LineAfter(Content', n, Broken')
    BY <2>4, <2>6, <2>7
  <2> QED
    BY <1>1, <1>2, <2>7, <2>8, <2>9 DEF CallOK
<1> QED
  BY <1>1, <1>3, <1>4, <1>5, LiveKept DEF LinesInv

\* A write appends to the log, or to a replacement nobody sees yet.
LEMMA WriteLines ==
  ASSUME IInv, IInv', LinesInv, NEW c \in Calls, Write(c), kept' = kept PROVE LinesInv'
<1>1. /\ pc[c] \in {"write", "stage"} /\ UNCHANGED <<named, entry, pc, fd>>
      /\ file'[fd[c]].synced = file[fd[c]].synced
      /\ \A g \in Files \ {fd[c]} : file'[g] = file[g]
  BY WriteEffect
<1>2. PICK k \in 1..Len(text[c]) :
         /\ file'[fd[c]].data = file[fd[c]].data \o SubSeq(text[c], 1, k)
         /\ text'[c] = SubSeq(text[c], k + 1, Len(text[c]))
  BY WriteEffect
<1>3. Broken' = Broken /\ Unfinished' = Unfinished /\ Live' = Live
  BY <1>1 DEF Broken, Unfinished, Live
<1>4. c \notin kept'
  BY <1>1 DEF LinesInv, CallOK
<1>5. fd[c] \in Files /\ text[c] \in Seq(Chunk) /\ file[fd[c]].data \in Seq(Chunk)
  BY FileTypes
<1>6. CASE pc[c] = "write"
  <2>1. fd[c] = named
    BY <1>6 DEF LinesInv, CallOK
  <2>2. PICK n \in 0..Len(Content) :
           Written(Content, n, Entry(c), text[c]) /\ LineAfter(Content, n, Broken)
    BY <1>6 DEF LinesInv, CallOK
  <2>3. /\ Content \in Seq(Chunk) /\ Content' = Content \o SubSeq(text[c], 1, k)
        /\ Entry(c) \in Seq(Chunk) /\ n \in Nat
    BY <1>1, <1>2, <1>5, <2>1, TextTypes DEF Content
  <2>4. /\ Written(Content', n, Entry(c), text'[c]) /\ Len(Content') = Len(Content) + k
        /\ \A i \in 1..Len(Content) : Content'[i] = Content[i]
    <3>1. /\ Content \in Seq(Chunk) /\ n \in Nat /\ Entry(c) \in Seq(Chunk)
          /\ text[c] \in Seq(Chunk) /\ Written(Content, n, Entry(c), text[c])
          /\ k \in 1..Len(text[c])
      BY <1>2, <1>5, <2>2, <2>3
    <3>2. /\ Written(Content \o SubSeq(text[c], 1, k), n, Entry(c),
                     SubSeq(text[c], k + 1, Len(text[c])))
          /\ Len(Content \o SubSeq(text[c], 1, k)) = Len(Content) + k
          /\ \A i \in 1..Len(Content) : (Content \o SubSeq(text[c], 1, k))[i] = Content[i]
      BY ONLY <3>1, WrittenMore, SMTT(30)
    <3> QED
      BY <1>2, <2>3, <3>2
  <2>5. Len(Content) \in Nat /\ Len(Content') \in Nat /\ k \in Nat
    BY <2>3, <2>4, <1>2, <1>5, LenProperties
  <2>6. LineAfter(Content', n, Broken')
    <3>1. n > 0 => Content'[n] = Content[n]
      BY <2>2, <2>4, <2>5
    <3> QED
      BY <1>3, <2>2, <3>1 DEF LineAfter
  <2>7. CallOK(c)'
    <3>1. n \in 0..Len(Content') /\ Entry(c)' = Entry(c)
      BY <2>2, <2>4, <2>5 DEF Entry
    <3> QED
      BY <1>1, <1>4, <1>6, <2>1, <2>4, <2>6, <3>1 DEF CallOK
  <2>8. /\ file[named].synced \in Nat /\ file'[named].synced = file[named].synced
        /\ file[named].synced <= Len(Content) /\ named' = named
    BY <1>1, <2>1, FileTypes DEF Content
  <2>9. \A i \in 1..file[named].synced : Content'[i] = Content[i]
    BY <2>4, <2>5, <2>8
  <2>10. ASSUME NEW q \in Calls \ {c}, q \in kept'
         PROVE  q \in kept /\ entry' = named' /\ Durable(q)'
    <3>1. q \in kept /\ entry = named /\ Durable(q)
      BY <2>10 DEF LinesInv, CallOK
    <3>2. file'[named].synced <= Len(Content')
      BY <2>4, <2>5, <2>8
    <3> QED
      BY <1>1, <1>3, <2>5, <2>8, <2>9, <3>1, <3>2, DurableKept
  <2>11. \A q \in Calls \ {c} : CallOK(q)'
    <3>1. pc[c] \notin Ended \cup {"start"} /\ (\A q \in Calls \ {c} : pc'[q] = pc[q] /\ CallOK(q))
      BY <1>1, <1>6 DEF Ended, LinesInv
    <3> QED
      BY <2>10, <3>1, OthersOK
  <2>12. TailOK(named)'
    <3>1. TailOK(named)
      BY DEF LinesInv, Live
    <3>2. ASSUME NEW m \in file[named].synced..Len(Content')
          PROVE  LineAfter(Content', m, Unfinished)
      <4>1. CASE m <= Len(Content)
        <5>1. LineAfter(Content, m, Unfinished)
          BY <2>5, <2>8, <3>1, <4>1 DEF TailOK, Content
        <5>2. m > 0 => Content'[m] = Content[m]
          BY <2>4, <2>5, <2>8, <4>1
        <5> QED
          BY <5>1, <5>2 DEF LineAfter
      <4>2. CASE ~(m <= Len(Content))
        <5>1. PICK i \in Int : i = m - n
          BY <2>2, <2>5, <2>8
        <5>2. i \in 1..Len(Content') - n /\ n + i = m /\ i \in 1..EntrySize
          <6>1. Len(Content') - n <= EntrySize
            <7>1. Len(Content') + Len(text'[c]) = n + Len(Entry(c)) /\ Len(Entry(c)) = EntrySize
              BY <2>4, TextTypes DEF Written
            <7>2. Len(text'[c]) \in Nat /\ EntrySize \in Nat
              BY FileTypes, LogAssumption, LenProperties DEF LogAssumption, IInv, TypeOK, StorageOK
            <7>3. n \in Nat /\ Len(Content') \in Nat
              BY <2>3, <2>5
            <7> QED
              BY <7>1, <7>2, <7>3
          <6>2. n <= Len(Content) /\ EntrySize \in Nat
            BY <2>2, LogAssumption DEF LogAssumption
          <6> QED
            BY <2>3, <2>5, <2>8, <4>2, <5>1, <6>1, <6>2
        <5>3. Content'[m] = <<c, i>>
          <6>1. Content'[n + i] = Entry(c)[i] /\ Entry(c)[i] = <<c, i>>
            BY <2>4, <5>2, TextLetters DEF Written
          <6> QED
            BY <5>2, <6>1
        <5>4. c \in Unfinished
          BY <1>6 DEF Unfinished
        <5> QED
          BY <5>3, <5>4 DEF LineAfter
      <4> QED
        BY <4>1, <4>2
    <3>3. \A d, m : LineAfter(d, m, Unfinished)' = LineAfter(d, m, Unfinished')
      BY DEF LineAfter, EndsLine
    <3> QED
      BY <1>3, <2>8, <3>2 DEF TailOK, LineAfter, EndsLine, Content
  <2>13. named \in Calls => Settled(named)'
    <3>1. ASSUME named \in Calls PROVE Settled(named)'
      <4>1. Settled(named)
        BY <3>1 DEF LinesInv, Live
      <4> QED
        BY <2>8, <2>9, <3>1, <4>1, SettledKept DEF Content
    <3> QED
      BY <3>1
  <2>14. ASSUME NEW f \in Live \ {named} PROVE TailOK(f)' /\ (f \in Calls => Settled(f)')
    <3>1. f \in Files
      BY FileTypes DEF Live, Files
    <3> QED
      BY <1>1, <1>3, <2>1, <3>1, LiveKept
  <2>15. \A q \in Calls : CallOK(q)'
    BY <2>7, <2>11
  <2>16. ASSUME NEW f \in Live' PROVE TailOK(f)' /\ (f \in Calls => Settled(f)')
    <3>1. CASE f = named
      BY <2>8, <2>12, <2>13, <3>1 DEF TailOK, Settled
    <3>2. CASE f # named
      BY <1>3, <2>14, <3>2
    <3> QED
      BY <3>1, <3>2
  <2> QED
    BY <2>15, <2>16 DEF LinesInv
<1>7. CASE pc[c] = "stage"
  <2>1. fd[c] = c /\ Written(file[c].data, 0, Replacement(c), text[c]) /\ c \notin {named, entry}
    BY <1>7 DEF LinesInv, CallOK
  <2>2. Written(file'[c].data, 0, Replacement(c), text'[c])
    <3>1. file[c].data \in Seq(Chunk) /\ Replacement(c) \in Seq(Chunk) /\ 0 \in Nat
      BY <1>5, <2>1, TextTypes
    <3>2. Written(file[c].data \o SubSeq(text[c], 1, k), 0, Replacement(c),
                  SubSeq(text[c], k + 1, Len(text[c])))
      BY <1>5, <2>1, <3>1, WrittenMore
    <3> QED
      BY <1>2, <2>1, <3>2
  <2>3. CallOK(c)'
    <3>1. Replacement(c)' = Replacement(c)
      BY DEF Replacement, Entry
    <3> QED
      BY <1>1, <1>4, <1>7, <2>1, <2>2, <3>1 DEF CallOK
  <2>4. file'[named] = file[named] /\ named' = named
    BY <1>1, <2>1, FileTypes
  <2>5. ASSUME NEW q \in Calls \ {c}, q \in kept'
        PROVE  q \in kept /\ entry' = named' /\ Durable(q)'
    <3>1. q \in kept /\ entry = named /\ Durable(q)
      BY <2>5 DEF LinesInv, CallOK
    <3>2. /\ file[named].synced \in Nat /\ Len(Content) \in Nat /\ Content' = Content
          /\ file[named].synced <= Len(Content)
      BY <2>4, FileTypes DEF Content
    <3> QED
      BY <1>1, <1>3, <2>4, <3>1, <3>2, DurableKept
  <2>6. \A q \in Calls \ {c} : CallOK(q)'
    <3>1. pc[c] \notin Ended \cup {"start"} /\ (\A q \in Calls \ {c} : pc'[q] = pc[q] /\ CallOK(q))
      BY <1>1, <1>7 DEF Ended, LinesInv
    <3> QED
      BY <2>5, <3>1, OthersOK
  <2>7. ASSUME NEW f \in Live PROVE TailOK(f)' /\ (f \in Calls => Settled(f)')
    <3>1. f \in Files /\ f # c
      BY <1>7, <2>1, FileTypes DEF Live, Files
    <3> QED
      BY <1>1, <1>3, <2>1, <3>1, LiveKept
  <2> QED
    BY <1>3, <2>3, <2>6, <2>7 DEF LinesInv
<1> QED
  BY <1>1, <1>6, <1>7

\* All that was to be written stands there when nothing is left to write.
LEMMA WrittenAll ==
  ASSUME NEW d \in Seq(Chunk), NEW n \in Nat, NEW word \in Seq(Chunk), Written(d, n, word, <<>>)
  PROVE  Len(d) = n + Len(word) /\ \A i \in 1..Len(word) : d[n + i] = word[i]
<1>1. Len(<<>>) = 0 /\ Len(d) \in Nat /\ Len(word) \in Nat
  BY LenProperties
<1>2. Len(d) + Len(<<>>) = n + Len(word) /\ \A i \in 1..Len(d) - n : d[n + i] = word[i]
  BY DEF Written
<1>3. Len(d) = n + Len(word)
  BY <1>1, <1>2
<1>4. Len(d) - n = Len(word)
  BY <1>1, <1>3
<1> QED
  BY <1>2, <1>3, <1>4

\* The line of a record that is synced is durable.
LEMMA SyncLines ==
  ASSUME IInv, IInv', LinesInv, NEW c \in Calls, SyncFile(c),
         kept' = kept \cup {q \in Calls : pc[q] # "ok" /\ pc'[q] = "ok"}
  PROVE  LinesInv'
<1> USE LogAssumption DEF LogAssumption
<1>1. /\ text[c] = <<>> /\ UNCHANGED <<named, fd, text>>
      /\ \/ pc[c] = "write" /\ pc' = [pc EXCEPT ![c] = "ok"]
         \/ pc[c] = "stage" /\ pc' = [pc EXCEPT ![c] = "rename"]
      /\ file' = [file EXCEPT ![fd[c]] = Flushed(@)]
      /\ entry' = IF fd[c] = named THEN named ELSE entry
  BY DEF SyncFile, At, Goto
<1>2. /\ fd[c] \in Files /\ \A g \in Files \ {fd[c]} : file'[g] = file[g]
      /\ file'[fd[c]].data = file[fd[c]].data /\ file'[fd[c]].synced = Len(file[fd[c]].data)
  <2>1. fd[c] \in Files /\ file \in [Files -> [data : Seq(Chunk), synced : Nat]]
    BY FileTypes
  <2>2. Len(file[fd[c]].data) \in Nat
    BY <2>1, FileTypes
  <2>3. file'[fd[c]] = Flushed(file[fd[c]]) /\ \A g \in Files \ {fd[c]} : file'[g] = file[g]
    <3> HIDE DEF IInv, LinesInv, Flushed
    <3> QED
      BY <1>1, <2>1
  <2>4. Flushed(file[fd[c]]).data = file[fd[c]].data
        /\ Flushed(file[fd[c]]).synced = Len(file[fd[c]].data)
    BY <2>1, <2>2 DEF Flushed
  <2> QED
    BY <2>1, <2>3, <2>4
<1>3. \A q \in Calls \ {c} : pc'[q] = pc[q]
  BY <1>1, FileTypes
<1>4. pc[c] \notin Ended \cup {"start"}
  BY <1>1 DEF Ended
<1>5. \A q \in Calls \ {c} : CallOK(q) /\ (q \in kept' => q \in kept)
  BY <1>3 DEF LinesInv
<1>6. \A q \in Calls \ {c} : pc[q] \in Ended \cup {"start"}
  BY <1>4, Alone DEF IInv
<1>7. Broken \subseteq Broken'
  BY <1>1, <1>3 DEF Broken
<1>8. CASE pc[c] = "write"
  <2>1. fd[c] = named /\ pc'[c] = "ok"
    BY <1>1, <1>8, FileTypes DEF LinesInv, CallOK
  <2>2. PICK n \in 0..Len(Content) :
           Written(Content, n, Entry(c), <<>>) /\ LineAfter(Content, n, Broken)
    BY <1>1, <1>8 DEF LinesInv, CallOK
  <2>3. Content \in Seq(Chunk) /\ Len(Content) \in Nat /\ n \in Nat
    BY FileTypes DEF Content
  <2>4. /\ Len(Content) = n + EntrySize
        /\ \A i \in 1..EntrySize : Content[n + i] = <<c, i>>
    <3>1. Len(Entry(c)) = EntrySize /\ Entry(c) \in Seq(Chunk)
      BY TextTypes
    <3>2. Len(Content) = n + Len(Entry(c)) /\ \A i \in 1..Len(Entry(c)) : Content[n + i] = Entry(c)[i]
      BY <2>2, <2>3, <3>1, WrittenAll
    <3> QED
      BY <3>1, <3>2, TextLetters
  <2>5. /\ named' = named /\ entry' = named /\ Content' = Content
        /\ file'[named].synced = Len(Content) /\ file'[named].data = Content
    BY <1>1, <1>2, <2>1 DEF Content
  <2>6. Durable(c)'
    <3>1. n \in 0..Len(Content') /\ n + EntrySize <= file'[named'].synced
      BY <2>2, <2>3, <2>4, <2>5
    <3>2. LineAfter(Content', n, Broken')
      BY <1>7, <2>2, <2>5 DEF LineAfter
    <3> QED
      BY <2>4, <2>5, <3>1, <3>2 DEF Durable
  <2>7. CallOK(c)'
    BY <2>1, <2>5, <2>6 DEF CallOK
  <2>8. file[named].synced \in Nat /\ file[named].synced <= Len(Content)
    BY FileTypes DEF Content
  <2>9. ASSUME NEW q \in Calls \ {c}, q \in kept'
        PROVE  q \in kept /\ entry' = named' /\ Durable(q)'
    <3>1. q \in kept /\ Durable(q)
      BY <1>5, <2>9 DEF CallOK
    <3> QED
      BY <1>7, <2>3, <2>5, <2>8, <3>1, DurableKept
  <2>10. \A q \in Calls \ {c} : CallOK(q)'
    BY <1>3, <1>4, <1>5, <2>9, OthersOK
  <2>11. Live' = {named}
    <3>1. \A q \in Calls : pc'[q] # "rename"
      BY <1>3, <1>6, <2>1 DEF Ended
    <3> QED
      BY <2>5, <3>1 DEF Live
  <2>12. TailOK(named)'
    <3>1. EntrySize \in 1..EntrySize
      BY ONLY LogAssumption DEF LogAssumption
    <3>2. EndsLine(Content[Len(Content)])
      BY ONLY <2>4, <3>1 DEF EndsLine
    <3>3. \A m \in Len(Content)..Len(Content) : LineAfter(Content, m, Unfinished')
      <4> TAKE m \in Len(Content)..Len(Content)
      <4>1. m = Len(Content)
        BY <2>3
      <4> QED
        BY <3>2, <4>1 DEF LineAfter
    <3> QED
      BY <2>5, <3>3 DEF TailOK
  <2>13. named \in Calls => Settled(named)'
    <3>1. ASSUME named \in Calls PROVE Settled(named)'
      <4>1. Settled(named)
        BY <3>1 DEF LinesInv, Live
      <4> QED
        BY <2>3, <2>5, <2>8, <3>1, <4>1, SettledKept DEF Content
    <3> QED
      BY <3>1
  <2>14. ASSUME NEW f \in Live' PROVE TailOK(f)' /\ (f \in Calls => Settled(f)')
    BY <2>5, <2>11, <2>12, <2>13, <2>14 DEF TailOK, Settled
  <2>15. \A q \in Calls : CallOK(q)'
    BY <2>7, <2>10
  <2> QED
    BY <2>14, <2>15 DEF LinesInv
<1>9. CASE pc[c] = "stage"
  <2> DEFINE d == file[c].data
  <2>1. /\ fd[c] = c /\ pc'[c] = "rename" /\ c \notin {named, entry} /\ entry' = entry
        /\ Written(d, 0, Replacement(c), <<>>)
    BY <1>1, <1>9, FileTypes DEF LinesInv, CallOK
  <2>2. d \in Seq(Chunk) /\ Len(d) \in Nat /\ c \in Files
    BY FileTypes DEF Files
  <2>3. Len(d) = EntrySize + 1 /\ \A i \in 1..EntrySize + 1 : d[i] = Replacement(c)[i]
    <3>1. Len(Replacement(c)) = EntrySize + 1 /\ Replacement(c) \in Seq(Chunk) /\ 0 \in Nat
      BY TextTypes
    <3>2. Len(d) = 0 + Len(Replacement(c))
          /\ \A i \in 1..Len(Replacement(c)) : d[0 + i] = Replacement(c)[i]
      BY <2>1, <2>2, <3>1, WrittenAll
    <3> QED
      BY <3>1, <3>2
  <2>4. file'[c].data = d /\ file'[c].synced = EntrySize + 1
    BY <1>2, <2>1, <2>3
  <2> HIDE DEF d
  <2>5. Settled(c)'
    <3>1. Len(Replacement(c)) = EntrySize + 1 /\ Replacement(c)' = Replacement(c)
      BY TextTypes DEF Replacement, Entry
    <3> QED
      BY <2>3, <2>4, <3>1 DEF Settled
  <2>6. TailOK(c)'
    <3>1. d[EntrySize + 1] = <<c, EntrySize>>
      BY <2>3, TextLetters
    <3>2. EndsLine(d[EntrySize + 1])
      BY <3>1 DEF EndsLine
    <3>3. \A m \in file'[c].synced..Len(file'[c].data) : m = EntrySize + 1
      BY <2>3, <2>4
    <3> QED
      BY <2>4, <3>2, <3>3 DEF TailOK, LineAfter, EndsLine
  <2>7. c \notin kept'
    BY <1>1, <1>9, <2>1 DEF LinesInv, CallOK
  <2>8. CallOK(c)'
    BY <1>1, <2>1, <2>7 DEF CallOK
  <2>9. file'[named] = file[named] /\ named' = named
    BY <1>1, <1>2, <2>1, FileTypes
  <2>10. ASSUME NEW q \in Calls \ {c}, q \in kept'
        PROVE  q \in kept /\ entry' = named' /\ Durable(q)'
    <3>1. q \in kept /\ entry = named /\ Durable(q)
      BY <1>5, <2>10 DEF CallOK
    <3>2. /\ file[named].synced \in Nat /\ Len(Content) \in Nat /\ Content' = Content
          /\ file[named].synced <= Len(Content)
      BY <2>9, FileTypes DEF Content
    <3> QED
      BY <1>7, <2>1, <2>9, <3>1, <3>2, DurableKept
  <2>11. \A q \in Calls \ {c} : CallOK(q)'
    BY <1>3, <1>4, <1>5, <2>10, OthersOK
  <2>12. Live' \subseteq Live \cup {c} /\ Unfinished \subseteq Unfinished'
    BY <1>3, <1>9, <2>1, <2>9 DEF Live, Unfinished
  <2>13. ASSUME NEW f \in Live' \ {c} PROVE TailOK(f)' /\ (f \in Calls => Settled(f)')
    <3>1. f \in Live /\ f \in Files
      BY <2>12, FileTypes DEF Live, Files
    <3>2. file'[f] = file[f]
      BY <1>2, <2>1, <3>1
    <3> QED
      BY <2>12, <3>1, <3>2, LiveKept
  <2> QED
    BY <2>5, <2>6, <2>8, <2>11, <2>13 DEF LinesInv
<1> QED
  BY <1>1, <1>8, <1>9

\* The path leads to a replacement that is whole and durable.
LEMMA RenameLines ==
  ASSUME IInv, LinesInv, NEW c \in Calls, Rename(c), kept' = {} PROVE LinesInv'
<1>1. pc[c] = "rename" /\ named' = c /\ UNCHANGED <<file, entry, fd, text>>
  BY DEF Rename, RenameDue, At
<1>2. pc'[c] = "syncdir" /\ \A q \in Calls \ {c} : pc'[q] = pc[q]
  BY FileTypes DEF Rename, Goto
<1>3. \A q \in Calls \ {c} : pc[q] \in Ended \cup {"start"}
  BY <1>1, Alone DEF IInv, Ended
<1>4. \A q \in Calls \ {c} : CallOK(q)'
  BY <1>2, <1>3, IdleOK
<1>5. CallOK(c)'
  BY <1>1, <1>2 DEF CallOK
<1>6. Live' \subseteq Live /\ Unfinished \subseteq Unfinished'
  BY <1>1, <1>2 DEF Live, Unfinished
<1> QED
  BY <1>1, <1>4, <1>5, <1>6, LiveKept DEF LinesInv

\* A rotated log is durable under its name once the directory is synced.
LEMMA DirectoryLines ==
  ASSUME IInv, IInv', LinesInv, NEW c \in Calls, SyncDirectory(c),
         kept' = kept \cup {q \in Calls : pc[q] # "ok" /\ pc'[q] = "ok"}
  PROVE  LinesInv'
<1> USE LogAssumption DEF LogAssumption
<1>1. pc[c] = "syncdir" /\ entry' = named /\ UNCHANGED <<file, named, fd, text>>
  BY DEF SyncDirectory, At
<1>2. pc'[c] = "ok" /\ \A q \in Calls \ {c} : pc'[q] = pc[q]
  BY FileTypes DEF SyncDirectory, Goto
<1>3. named = c /\ (\A q \in Calls \ {c} : CallOK(q))
  BY <1>1 DEF LinesInv, CallOK
<1>4. pc[c] \notin Ended \cup {"start"}
  BY <1>1 DEF Ended
<1>5. Broken \subseteq Broken' /\ Unfinished \subseteq Unfinished' /\ Live' \subseteq Live
  BY <1>1, <1>2 DEF Broken, Unfinished, Live
<1>6. ASSUME NEW q \in Calls \ {c}, q \in kept'
      PROVE  q \in kept /\ entry' = named' /\ Durable(q)'
  <2>1. q \in kept /\ Durable(q)
    BY <1>2, <1>6 DEF LinesInv, CallOK
  <2>2. /\ file[named].synced \in Nat /\ Len(Content) \in Nat /\ Content' = Content
        /\ file[named].synced <= Len(Content)
    BY <1>1, FileTypes DEF Content
  <2> QED
    BY <1>1, <1>5, <2>1, <2>2, DurableKept
<1>7. \A q \in Calls \ {c} : CallOK(q)'
  BY <1>2, <1>3, <1>4, <1>6, OthersOK
<1>8. Durable(c)'
  <2>1. /\ Len(Replacement(c)) = EntrySize + 1 /\ Replacement(c)[1] = Mark
        /\ \A i \in 1..EntrySize : Replacement(c)[i + 1] = <<c, i>>
    BY TextTypes, TextLetters
  <2>2. Settled(c)
    BY <1>3 DEF LinesInv, Live
  <2>3. EntrySize + 1 <= file[named].synced /\ \A i \in 1..EntrySize + 1 : Content[i] = Replacement(c)[i]
    BY <1>3, <2>1, <2>2 DEF Settled, Content
  <2>4. ASSUME NEW i \in 1..EntrySize PROVE Content[1 + i] = <<c, i>>
    <3>1. 1 + i = i + 1 /\ i + 1 \in 1..EntrySize + 1
      OBVIOUS
    <3> QED
      BY <2>1, <2>3, <3>1
  <2>5. EndsLine(Content[1])
    <3>1. Content[1] = Mark
      BY <2>1, <2>3
    <3>2. Mark[1] = "log-rotation"
      BY DEF Mark
    <3> QED
      BY <3>1, <3>2 DEF EndsLine
  <2>6. Content' = Content /\ file'[named'].synced = file[named].synced
    BY <1>1 DEF Content
  <2>7. /\ file[named].synced \in Nat /\ Len(Content) \in Nat /\ file[named].synced <= Len(Content)
    BY FileTypes DEF Content
  <2>8. 1 \in 0..Len(Content') /\ 1 + EntrySize <= file'[named'].synced
    BY <2>3, <2>6, <2>7
  <2>9. LineAfter(Content', 1, Broken') /\ \A i \in 1..EntrySize : Content'[1 + i] = <<c, i>>
    BY <2>4, <2>5, <2>6 DEF LineAfter
  <2> QED
    BY <2>8, <2>9 DEF Durable
<1>9. CallOK(c)'
  BY <1>1, <1>2, <1>8 DEF CallOK
<1> QED
  BY <1>1, <1>5, <1>7, <1>9, LiveKept DEF LinesInv

\* A record that fails or is killed leaves the lines of others, and a broken one of its
\* own at most.
LEMMA EndLines ==
  ASSUME IInv, IInv', LinesInv, NEW c \in Calls, NEW step \in {"failed", "dead"},
         pc[c] \notin Ended, pc' = [pc EXCEPT ![c] = step], text' = [text EXCEPT ![c] = <<>>],
         file' = file \/ (pc[c] \in {"stage", "rename"} /\ file' = [file EXCEPT ![c] = Empty]),
         UNCHANGED <<named, entry, fd, kept>>
  PROVE  LinesInv'
<1>1. /\ pc'[c] = step /\ step \in Ended /\ c \in Files
      /\ \A q \in Calls \ {c} : pc'[q] = pc[q] /\ text'[q] = text[q] /\ fd'[q] = fd[q]
  BY FileTypes DEF Files, Ended
<1>2. Broken \subseteq Broken' /\ Unfinished \subseteq Unfinished' /\ Live' \subseteq Live
  BY <1>1 DEF Broken, Unfinished, Live, Ended
<1>3. c \notin kept'
  BY DEF LinesInv, CallOK, Ended
<1>4. CallOK(c)'
  BY <1>1, <1>3, IdleOK
<1>5. CASE file' = file
  <2>1. \A q \in Calls \ {c} : CallOK(q)'
    BY <1>1, <1>2, <1>5, UntouchedOK DEF LinesInv
  <2> QED
    BY <1>2, <1>4, <1>5, <2>1, LiveKept DEF LinesInv
<1>6. CASE pc[c] \in {"stage", "rename"} /\ file' = [file EXCEPT ![c] = Empty]
  <2>1. c \notin {named, entry}
    BY <1>6 DEF LinesInv, CallOK
  <2>2. \A g \in Files \ {c} : file'[g] = file[g]
    BY <1>6, FileTypes
  <2>3. ASSUME NEW q \in Calls \ {c}, q \in kept'
        PROVE  q \in kept /\ entry' = named' /\ Durable(q)'
    <3>1. q \in kept /\ entry = named /\ Durable(q)
      BY <2>3 DEF LinesInv, CallOK
    <3>2. file'[named] = file[named] /\ named' = named
      BY <2>1, <2>2, FileTypes
    <3>3. /\ file[named].synced \in Nat /\ Len(Content) \in Nat /\ Content' = Content
          /\ file[named].synced <= Len(Content)
      BY <3>2, FileTypes DEF Content
    <3> QED
      BY <1>2, <3>1, <3>2, <3>3, DurableKept
  <2>4. \A q \in Calls \ {c} : CallOK(q)'
    <3>1. pc[c] \notin Ended \cup {"start"} /\ (\A q \in Calls \ {c} : pc'[q] = pc[q] /\ CallOK(q))
      BY <1>1, <1>6 DEF Ended, LinesInv
    <3> QED
      BY <2>3, <3>1, OthersOK
  <2>5. ASSUME NEW f \in Live' PROVE TailOK(f)' /\ (f \in Calls => Settled(f)')
    <3>1. f \in Live /\ f \in Files /\ f # c
      BY <1>1, <1>2, <2>1, FileTypes DEF Live, Files, Ended
    <3> QED
      BY <1>2, <2>2, <3>1, LiveKept
  <2> QED
    BY <1>4, <2>4, <2>5 DEF LinesInv
<1> QED
  BY <1>5, <1>6

\* After a power loss the log is what was durable, and a part of what was not.
LEMMA PowerLines ==
  ASSUME IInv, IInv', LinesInv, LosePower PROVE LinesInv'
<1> DEFINE d == file[entry].data
<1>1. /\ named' = entry /\ entry' = entry /\ kept' = kept
      /\ \A c \in Calls : pc'[c] = IF pc[c] \in Ended \cup {"start"} THEN pc[c] ELSE "dead"
  BY DEF LosePower, PowerLoss
<1>2. /\ d \in Seq(Chunk) /\ entry \in Files /\ Len(d) \in Nat
      /\ file[entry].synced \in Nat /\ file[entry].synced <= Len(d)
      /\ file \in [Files -> [data : Seq(Chunk), synced : Nat]]
  BY FileTypes
<1>3. PICK n \in file[entry].synced..Len(d) :
         file' = [file EXCEPT ![entry] = [data |-> SubSeq(d, 1, n), synced |-> n]]
  BY <1>2 DEF LosePower, PowerLoss
<1>4. /\ file'[entry].data = SubSeq(d, 1, n) /\ file'[entry].synced = n
      /\ \A g \in Files \ {entry} : file'[g] = file[g]
  <2> HIDE DEF d
  <2> QED
    BY <1>2, <1>3
<1>5. n \in Nat /\ n <= Len(d) /\ file[entry].synced <= n
  BY <1>2
<1>6. Len(SubSeq(d, 1, n)) = n /\ \A i \in 1..n : SubSeq(d, 1, n)[i] = d[i]
  <2>1. \A i \in 1..n : d[i] \in Chunk
    BY <1>2, <1>5, ElementOfSeq
  <2> QED
    BY <1>2, <1>5, <2>1, SubSeqProperties
<1> HIDE DEF d
<1>7. /\ Len(file'[entry].data) = n /\ \A i \in 1..n : file'[entry].data[i] = d[i]
      /\ \A i \in 1..file[entry].synced : file'[entry].data[i] = file[entry].data[i]
  BY <1>2, <1>4, <1>5, <1>6 DEF d
<1>8. \A c \in Calls : pc'[c] \in Ended \cup {"start"} /\ (pc[c] = "ok" => pc'[c] = "ok")
  BY <1>1 DEF Ended
<1>9. Broken \subseteq Broken' /\ Unfinished \subseteq Unfinished'
  BY <1>1 DEF Broken, Unfinished, Ended
<1>10. ASSUME NEW c \in Calls PROVE CallOK(c)'
  <2>1. ASSUME c \in kept' PROVE pc'[c] = "ok" /\ entry' = named' /\ Durable(c)'
    <3>1. pc[c] = "ok" /\ entry = named /\ Durable(c)
      BY <1>1, <2>1 DEF LinesInv, CallOK
    <3>2. /\ named' = named /\ Content' = file'[entry].data /\ Content = file[entry].data
          /\ file[named].synced = file[entry].synced /\ file'[named].synced = n
      BY <1>1, <1>4, <3>1 DEF Content
    <3> QED
      BY <1>1, <1>2, <1>5, <1>7, <1>8, <1>9, <3>1, <3>2, DurableKept
  <2> QED
    BY <1>8, <2>1, IdleOK
<1>11. Live' = {entry}
  BY <1>1, <1>8 DEF Live, Ended
<1>12. TailOK(entry)'
  <2>1. TailOK(entry)
    BY DEF LinesInv, Live
  <2>2. LineAfter(d, n, Unfinished)
    BY <1>5, <2>1 DEF TailOK, d
  <2>3. \A m \in file'[entry].synced..Len(file'[entry].data) : m = n
    BY <1>4, <1>5, <1>7
  <2>4. n > 0 => file'[entry].data[n] = d[n]
    BY <1>5, <1>7
  <2> QED
    BY <1>1, <1>9, <2>2, <2>3, <2>4 DEF TailOK, LineAfter, EndsLine
<1>13. ASSUME entry \in Calls PROVE Settled(entry)'
  <2>1. Settled(entry)
    BY <1>13 DEF LinesInv, Live
  <2> QED
    BY <1>1, <1>2, <1>4, <1>5, <1>7, <1>13, <2>1, SettledKept DEF Settled
<1>14. ASSUME NEW f \in Live' PROVE TailOK(f)' /\ (f \in Calls => Settled(f)')
  BY <1>1, <1>11, <1>12, <1>13 DEF TailOK, Settled
<1> QED
  BY <1>10, <1>14 DEF LinesInv

\* The log of an earlier run ends in a whole line.
LEMMA InitLines == Init => LinesInv
<1> SUFFICES ASSUME Init PROVE LinesInv
  OBVIOUS
<1>1. /\ named = Original /\ entry = Original /\ kept = {} /\ pc = [c \in Calls |-> "start"]
  BY DEF Init, StorageInit
<1>2. \A c \in Calls : CallOK(c)
  BY <1>1 DEF CallOK
<1>3. Live = {Original} /\ Original \notin Calls /\ Original \in Files
  BY <1>1, StorageAssumption DEF Live, StorageAssumption, Files
<1>4. TailOK(Original)
  <2>1. PICK n \in 0..(Limit + 1) :
         file = [f \in Files |-> IF f = Original
                   THEN [data |-> [i \in 1..n |-> Earlier],
                         synced |-> Len([i \in 1..n |-> Earlier])]
                   ELSE Empty]
    BY DEF Init, StorageInit, Earlier
  <2>2. file[Original].data = [i \in 1..n |-> Earlier]
    BY <1>3, <2>1
  <2>3. EndsLine(Earlier)
    <3>1. Earlier[1] = "earlier"
      BY DEF Earlier
    <3> QED
      BY <3>1, LogAssumption DEF LogAssumption, EndsLine
  <2>4. Len(file[Original].data) = n /\ n \in Nat /\ file[Original].synced \in Nat
    <3>1. n \in Nat
      BY LogAssumption DEF LogAssumption
    <3> QED
      BY <2>2, <3>1, <1>3, InitInv, FileTypes
  <2>5. \A m \in file[Original].synced..Len(file[Original].data) :
           m > 0 => file[Original].data[m] = Earlier
    BY <2>2, <2>4
  <2> QED
    BY <2>3, <2>5 DEF TailOK, LineAfter
<1> QED
  BY <1>2, <1>3, <1>4 DEF LinesInv

\* Lines stay whole in every step: one lemma above for each.
LEMMA LinesStep == IInv /\ IInv' /\ LinesInv /\ [Next]_vars => LinesInv'
<1> SUFFICES ASSUME IInv, IInv', LinesInv, [Next]_vars PROVE LinesInv'
  OBVIOUS
<1>1. ASSUME NEW c \in Calls, Proceed(c) PROVE LinesInv'
  <2>1. /\ Step(c) /\ kept' = IF named' # named THEN {} ELSE kept \cup Succeeded
        /\ kept \subseteq Calls
    BY <1>1, FileTypes DEF Proceed
  <2>2. ASSUME NEW step \in Steps \ {"ok"}, pc' = [pc EXCEPT ![c] = step], named' = named
        PROVE  kept' = kept
    <3>1. Succeeded = {}
      BY <2>2, FileTypes DEF Succeeded
    <3> QED
      BY <2>1, <2>2, <3>1
  <2>3. CASE Open(c)
    BY <2>2, <2>3, OpenLines DEF Open, Goto, Steps
  <2>4. CASE Write(c)
    <3>1. pc' = pc /\ named' = named
      BY <2>4 DEF Write
    <3>2. kept' = kept
      BY <2>1, <3>1 DEF Succeeded
    <3> QED
      BY <2>4, <3>2, WriteLines
  <2>5. CASE SyncFile(c)
    BY <2>1, <2>5, SyncLines DEF SyncFile, Succeeded
  <2>6. CASE Rename(c)
    <3>1. named' = c /\ pc[c] = "rename"
      BY <2>6 DEF Rename, RenameDue, At
    <3>2. named # c
      BY <3>1 DEF LinesInv, CallOK
    <3> QED
      BY <2>1, <2>6, <3>1, <3>2, RenameLines
  <2>7. CASE SyncDirectory(c)
    BY <2>1, <2>7, DirectoryLines DEF SyncDirectory, Succeeded
  <2>8. CASE Fail(c)
    <3>1. kept' = kept
      BY <2>2, <2>8 DEF Fail, Goto, Steps, Ended
    <3> QED
      BY <2>8, <3>1, EndLines DEF Fail, Goto
  <2> QED
    BY <2>1, <2>3, <2>4, <2>5, <2>6, <2>7, <2>8 DEF Step
<1>2. ASSUME NEW c \in Calls, Die(c) PROVE LinesInv'
  BY <1>2, EndLines DEF Die, Crash, Goto
<1>3. CASE UNCHANGED vars
  <2>1. UNCHANGED <<file, named, entry, pc, fd, text, kept>>
    BY <1>3 DEF vars, storage
  <2>2. Broken' = Broken /\ Unfinished' = Unfinished /\ Live' = Live
    BY <2>1 DEF Broken, Unfinished, Live
  <2> QED
    BY <2>1, <2>2, UntouchedOK, LiveKept DEF LinesInv
<1> QED
  BY <1>1, <1>2, <1>3, LockLines, DecideLines, PowerLines DEF Next, Record, Finished

\* Both parts of the inductive invariant hold in every state.
LEMMA LinesInvariance == Spec => [](IInv /\ LinesInv)
<1>1. Init => IInv /\ LinesInv
  BY InitInv, InitLines
<1>2. IInv /\ LinesInv /\ [Next]_vars => (IInv /\ LinesInv)'
  BY StepInv, LinesStep
<1> QED
  BY <1>1, <1>2, PTL DEF Spec

\* A sequence whose part is known letter by letter.
LEMMA PartOf ==
  ASSUME NEW d \in Seq(Chunk), NEW n \in Nat, NEW word \in Seq(Chunk), n + Len(word) <= Len(d),
         \A i \in 1..Len(word) : d[n + i] = word[i]
  PROVE  SubSeq(d, n + 1, n + Len(word)) = word
<1> DEFINE part == SubSeq(d, n + 1, n + Len(word))
<1>1. Len(d) \in Nat /\ Len(word) \in Nat
  BY LenProperties
<1>2. \A i \in (n + 1)..(n + Len(word)) : d[i] \in Chunk
  <2>1. \A i \in (n + 1)..(n + Len(word)) : i \in 1..Len(d)
    BY <1>1
  <2> QED
    BY <2>1, ElementOfSeq
<1>3. /\ part \in Seq(Chunk)
      /\ Len(part) = IF n + 1 <= n + Len(word) THEN n + Len(word) - (n + 1) + 1 ELSE 0
      /\ \A i \in 1..n + Len(word) - (n + 1) + 1 : part[i] = d[n + 1 + i - 1]
  BY <1>1, <1>2, SubSeqProperties
<1> HIDE DEF part
<1>4. Len(part) = Len(word)
  BY <1>1, <1>3
<1>5. ASSUME NEW i \in 1..Len(word) PROVE part[i] = word[i]
  <2>1. i \in 1..n + Len(word) - (n + 1) + 1 /\ n + 1 + i - 1 = n + i
    BY <1>1
  <2>2. part[i] = d[n + 1 + i - 1]
    BY <1>3, <2>1
  <2> QED
    BY <2>1, <2>2
<1>6. part = word
  BY <1>3, <1>4, <1>5, SeqEqual
<1> QED
  BY <1>6 DEF part

\* An entry whose record reported success is a line of its own in the log until a rotation,
\* through failures, crashes and power loss, unless it follows what a failed or killed
\* record left behind (LoggingEngine::record, write_private_file).
THEOREM SuccessAlwaysParsable == Spec => []SuccessParsable
<1>1. ASSUME IInv, LinesInv PROVE SuccessParsable
  <2> SUFFICES ASSUME NEW c \in kept
               PROVE  \E n \in 0..Len(Content) :
                         /\ StandsAt(c, n)
                         /\ n > 0 /\ ~EndsLine(Content[n]) => pc[Content[n][1]] \in {"failed", "dead"}
    BY DEF SuccessParsable
  <2>1. c \in Calls /\ Durable(c)
    BY <1>1, FileTypes DEF LinesInv, CallOK
  <2>2. PICK n \in 0..Len(Content) :
           /\ n + EntrySize <= file[named].synced
           /\ \A i \in 1..EntrySize : Content[n + i] = <<c, i>>
           /\ LineAfter(Content, n, Broken)
    BY <2>1 DEF Durable
  <2>3. /\ Content \in Seq(Chunk) /\ Len(Content) \in Nat /\ n \in Nat
        /\ file[named].synced \in Nat /\ file[named].synced <= Len(Content)
    BY <1>1, FileTypes DEF Content
  <2>4. Entry(c) \in Seq(Chunk) /\ Len(Entry(c)) = EntrySize /\ EntrySize \in Nat
        /\ \A i \in 1..EntrySize : Entry(c)[i] = <<c, i>>
    BY <2>1, TextTypes, TextLetters, LogAssumption DEF LogAssumption
  <2>5. n + Len(Entry(c)) <= Len(Content)
    BY <2>2, <2>3, <2>4
  <2>6. SubSeq(Content, n + 1, n + Len(Entry(c))) = Entry(c)
    BY <2>2, <2>3, <2>4, <2>5, PartOf
  <2>7. StandsAt(c, n)
    BY <2>4, <2>5, <2>6 DEF StandsAt
  <2> QED
    BY <2>2, <2>7 DEF LineAfter, Broken
<1> QED
  BY <1>1, LinesInvariance, PTL

\* A rotated log is never found without its mark and its first entry
\* (replace_private_file_atomically).
THEOREM RotationAlwaysWhole == Spec => []RotationWhole
<1>1. ASSUME IInv, LinesInv, named # Original
      PROVE  LET n == Len(Replacement(named)) IN
                Len(Content) >= n /\ SubSeq(Content, 1, n) = Replacement(named)
  <2>1. named \in Calls
    BY <1>1, FileTypes DEF Files
  <2>2. PICK r \in Seq(Chunk) : r = Replacement(named)
    BY <2>1, TextTypes
  <2>3. /\ Content \in Seq(Chunk) /\ Len(Content) \in Nat /\ Len(r) \in Nat
        /\ file[named].synced \in Nat /\ file[named].synced <= Len(Content)
    BY <1>1, FileTypes, LenProperties DEF Content
  <2>4. Len(r) <= file[named].synced /\ \A i \in 1..Len(r) : Content[i] = r[i]
    BY <1>1, <2>1, <2>2 DEF LinesInv, Live, Settled, Content
  <2>5. 0 + Len(r) <= Len(Content) /\ 0 \in Nat /\ (\A i \in 1..Len(r) : 0 + i = i)
    BY <2>3, <2>4
  <2>6. SubSeq(Content, 0 + 1, 0 + Len(r)) = r
    BY <2>3, <2>4, <2>5, PartOf
  <2>7. SubSeq(Content, 1, Len(r)) = r
    BY <2>3, <2>6
  <2> QED
    BY <2>2, <2>3, <2>5, <2>7
<1> QED
  BY <1>1, LinesInvariance, PTL DEF RotationWhole

=============================================================================
