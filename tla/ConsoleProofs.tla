---------------------------- MODULE ConsoleProofs ----------------------------
(***************************************************************************)
(* Proofs about module Console, for any number of processes that save the  *)
(* mode and any lengths of the two words, the stricter being longer.       *)
(***************************************************************************)
EXTENDS Console, SequenceTheorems, TLAPS

-----------------------------------------------------------------------------
(* Words and files. *)

\* A letter is of one of the words, or stands for a hole or for no file.
Alphabet == (Modes \cup {"hole", "no file"}) \X Nat

\* A letter that only a file has which may be read as Normal.
Traces(content) == \E i \in 1..Len(content) : content[i][1] \in {"Normal", "no file"}

\* The saves of the stricter mode that have emptied the file.
Emptying == {s \in Savers : want[s] = "HostileNetwork" /\ pc[s] = "write"}

\* The history allows Normal in spite of these savers of the stricter mode.
AllowedPast(hostile) ==
    \/ first = "Normal" /\ hostile = {}
    \/ \E s \in Savers : /\ want[s] = "Normal" /\ pc[s] # "idle"
                         /\ \A h \in hostile : s \notin before[h]

\* What a saver has left to write is the end of its word, and the whole of it until
\* it writes; the savers it came after have ended.
SaverInv(s) ==
    /\ \A q \in before[s] : pc[q] \in Ended
    /\ Len(left[s]) <= Size[want[s]]
    /\ \A i \in 1..Len(left[s]) : left[s][i] = <<want[s], Size[want[s]] - Len(left[s]) + i>>
    /\ pc[s] \in {"open", "truncate"} => Len(left[s]) = Size[want[s]]

\* Every variable of the savers has its type.
SaversInv ==
    /\ file \in durable /\ durable \subseteq Seq(Alphabet)
    /\ want \in [Savers -> Modes]
    /\ pc \in [Savers -> {"idle", "open", "truncate", "write"} \cup Ended]
    /\ left \in [Savers -> Seq(Alphabet)]
    /\ before \in [Savers -> SUBSET Savers]
    /\ \A s \in Savers : SaverInv(s)

\* Where the file shows that it may be read as Normal, the history allows it: of
\* the file now, of what a power loss may leave of it, and in spite of the saves of
\* the stricter mode that have emptied it since.
TracesInv ==
    /\ Traces(file) => AllowedPast(HostileSaves \cup Emptying)
    /\ (\E c \in durable : Traces(c)) => AllowedPast(HostileSaves)

\* No save overlapped or followed that of s.
Alone(s) == \A q \in Savers \ {s} : pc[q] = "idle" \/ q \in before[s]

\* The content is the beginning of the word, of the first n letters.
Begins(content, m, n) == Len(content) = n /\ \A i \in 1..n : content[i] = <<m, i>>

\* A saver that is alone finds in the file what it has written, also after a power
\* loss once it has succeeded.
AloneInv ==
    \A s \in Savers : Alone(s) =>
        /\ pc[s] = "write" => Begins(file, want[s], Size[want[s]] - Len(left[s]))
        /\ pc[s] = "ok" => durable = {file} /\ Begins(file, want[s], Size[want[s]])

\* A collection for a report is complete and was begun after the report was asked
\* for; a report that is shown, too.
ReportInv ==
    /\ task # NoTask /\ task.view \in Reports =>
          task.depth = "Complete" /\ (NormalMayHold => allowed)
    /\ ReportJudgedAsSaved

-----------------------------------------------------------------------------
(* Lemmas about words and files. *)

\* A word is a sequence of its letters.
LEMMA WordFacts ==
  ASSUME NEW m \in Modes
  PROVE  /\ Size[m] \in Nat \ {0}
         /\ Word(m) \in Seq(Alphabet) /\ Len(Word(m)) = Size[m]
         /\ \A i \in 1..Size[m] : Word(m)[i] = <<m, i>>
<1>1. Size[m] \in Nat \ {0}
  BY SizeAssumption DEF SizeAssumption, Size, Modes
<1>2. \A i \in 1..Size[m] : Word(m)[i] = <<m, i>> /\ <<m, i>> \in Alphabet
  <2> TAKE i \in 1..Size[m]
  <2>1. i \in Nat /\ Word(m)[i] = <<m, i>>
    BY <1>1 DEF Word
  <2> QED
    BY <2>1 DEF Alphabet
<1>3. Word(m) \in [1..Size[m] -> Alphabet]
  BY <1>2 DEF Word
<1>4. Word(m) \in Seq(Alphabet)
  BY <1>1, <1>3, SeqDef
<1>5. Len(Word(m)) = Size[m]
  BY <1>1, <1>3, <1>4, LenProperties
<1> QED
  BY <1>1, <1>2, <1>4, <1>5

\* What is written lies over what was there.
LEMMA OverwrittenFacts ==
  ASSUME NEW content \in Seq(Alphabet), NEW at \in Nat, NEW letters \in Seq(Alphabet)
  PROVE  /\ Overwritten(content, at, letters) \in Seq(Alphabet)
         /\ Len(Overwritten(content, at, letters)) = Longest(Len(content), at + Len(letters))
         /\ \A i \in 1..Longest(Len(content), at + Len(letters)) :
               Overwritten(content, at, letters)[i] =
                  IF i \in at + 1..at + Len(letters) THEN letters[i - at]
                  ELSE IF i <= Len(content) THEN content[i] ELSE Hole
<1> DEFINE n == Longest(Len(content), at + Len(letters))
           r == Overwritten(content, at, letters)
<1>1. Len(content) \in Nat /\ Len(letters) \in Nat /\ n \in Nat
  BY LenProperties DEF Longest
<1>2. \A i \in 1..n : r[i] = IF i \in at + 1..at + Len(letters) THEN letters[i - at]
                             ELSE IF i <= Len(content) THEN content[i] ELSE Hole
  BY DEF Overwritten
<1>3. \A i \in 1..n : r[i] \in Alphabet
  <2> SUFFICES ASSUME NEW i \in 1..n PROVE r[i] \in Alphabet
    OBVIOUS
  <2>1. Hole \in Alphabet
    BY DEF Hole, Alphabet
  <2>2. CASE i \in at + 1..at + Len(letters)
    <3>1. i - at \in 1..Len(letters)
      BY <1>1, <2>2
    <3> QED
      BY <1>2, <2>2, <3>1, ElementOfSeq
  <2>3. CASE i \notin at + 1..at + Len(letters) /\ i <= Len(content)
    <3>1. i \in 1..Len(content)
      BY <1>1, <2>3
    <3> QED
      BY <1>2, <2>3, <3>1, ElementOfSeq
  <2> QED
    BY <1>2, <2>1, <2>2, <2>3
<1>4. r \in [1..n -> Alphabet]
  BY <1>3 DEF Overwritten
<1>5. r \in Seq(Alphabet)
  BY <1>1, <1>4, SeqDef
<1>6. Len(r) = n
  BY <1>1, <1>4, <1>5, LenProperties
<1> QED
  BY <1>2, <1>5, <1>6

\* A file that is read as Normal shows it.
LEMMA NormalShows ==
  ASSUME NEW content, Parsed(content).mode = "Normal" PROVE Traces(content)
<1>1. content = NoFile \/ content = Word("Normal")
  BY DEF Parsed, Fallback
<1>2. CASE content = NoFile
  <2>1. Len(content) = 1
    BY <1>2 DEF NoFile
  <2>2. content[1] = <<"no file", 0>>
    BY <1>2 DEF NoFile
  <2>3. <<"no file", 0>>[1] = "no file"
    OBVIOUS
  <2>4. content[1][1] = "no file"
    BY <2>2, <2>3, Zenon
  <2>5. 1 \in 1..Len(content)
    BY <2>1
  <2> QED
    BY <2>4, <2>5 DEF Traces
<1>3. CASE content = Word("Normal")
  <2>1. 1 \in 1..Len(content) /\ content[1] = <<"Normal", 1>>
    BY <1>3, WordFacts DEF Modes
  <2>2. content[1][1] = "Normal"
    BY <2>1
  <2> QED
    BY <2>1, <2>2 DEF Traces
<1> QED
  BY <1>1, <1>2, <1>3

\* The contents that mean something differ, so each is read as it is meant.
LEMMA ParsedFacts ==
  /\ Parsed(NoFile).mode = "Normal"
  /\ \A m \in Modes : Parsed(Word(m)) = [mode |-> m, status |-> "Available"]
<1>1. \A m \in Modes : Word(m) # NoFile
  <2> TAKE m \in Modes
  <2>1. Word(m)[1] = <<m, 1>>
    BY WordFacts
  <2>2. NoFile[1] = <<"no file", 0>>
    BY DEF NoFile
  <2>3. <<m, 1>> # <<"no file", 0>>
    OBVIOUS
  <2> QED
    BY <2>1, <2>2, <2>3
<1>2. Word("Normal") # Word("HostileNetwork")
  BY WordFacts, SizeAssumption DEF SizeAssumption, Size, Modes
<1> QED
  BY <1>1, <1>2 DEF Parsed, Modes

\* A file that holds all letters of a word in their place is that word.
LEMMA WholeWord ==
  ASSUME NEW m \in Modes, NEW content \in Seq(Alphabet), Begins(content, m, Size[m])
  PROVE  Parsed(content) = [mode |-> m, status |-> "Available"]
<1>1. /\ Word(m) \in Seq(Alphabet) /\ Len(Word(m)) = Len(content)
      /\ \A i \in 1..Len(content) : content[i] = Word(m)[i]
  <2>1. /\ Word(m) \in Seq(Alphabet) /\ Len(Word(m)) = Size[m]
        /\ \A i \in 1..Size[m] : Word(m)[i] = <<m, i>>
    BY WordFacts
  <2> QED
    BY <2>1 DEF Begins
<1>2. content = Word(m)
  BY <1>1, SeqEqual
<1> QED
  BY <1>2, ParsedFacts

-----------------------------------------------------------------------------
(* The savers. *)

\* What one write does to the file and to the letters that are left.
LEMMA WriteFacts ==
  ASSUME SaversInv, NEW s \in Savers, Write(s)
  PROVE  \E n \in 1..Len(left[s]) :
            /\ file' = Overwritten(file, Size[want[s]] - Len(left[s]), SubSeq(left[s], 1, n))
            /\ left' = [left EXCEPT ![s] = SubSeq(left[s], n + 1, Len(left[s]))]
            /\ Len(left[s]) \in Nat /\ Size[want[s]] - Len(left[s]) \in Nat
            /\ SubSeq(left[s], 1, n) \in Seq(Alphabet) /\ Len(SubSeq(left[s], 1, n)) = n
            /\ \A i \in 1..n : SubSeq(left[s], 1, n)[i] = <<want[s], Size[want[s]] - Len(left[s]) + i>>
            /\ left'[s] \in Seq(Alphabet) /\ Len(left'[s]) = Len(left[s]) - n
            /\ \A i \in 1..Len(left[s]) - n : left'[s][i] = left[s][n + i]
<1> DEFINE w == left[s]
<1>1. PICK n \in 1..Len(w) :
         /\ file' = Overwritten(file, Size[want[s]] - Len(w), SubSeq(w, 1, n))
         /\ left' = [left EXCEPT ![s] = SubSeq(w, n + 1, Len(w))]
  BY DEF Write, Hold
<1>2. w \in Seq(Alphabet) /\ Len(w) \in Nat /\ want[s] \in Modes /\ Len(w) <= Size[want[s]]
  BY LenProperties DEF SaversInv, SaverInv
<1>3. Size[want[s]] - Len(w) \in Nat
  BY <1>2, WordFacts
<1>4. \A i \in 1..Len(w) : w[i] \in Alphabet /\ w[i] = <<want[s], Size[want[s]] - Len(w) + i>>
  BY <1>2, ElementOfSeq DEF SaversInv, SaverInv
<1>5. left'[s] = SubSeq(w, n + 1, Len(w))
  BY <1>1 DEF SaversInv
<1> HIDE DEF w
<1>6. /\ SubSeq(w, 1, n) \in Seq(Alphabet) /\ Len(SubSeq(w, 1, n)) = n
      /\ \A i \in 1..n : SubSeq(w, 1, n)[i] = w[i]
  BY <1>2, <1>4, SubSeqProperties
<1>7. /\ SubSeq(w, n + 1, Len(w)) \in Seq(Alphabet)
      /\ Len(SubSeq(w, n + 1, Len(w))) = Len(w) - n
      /\ \A i \in 1..Len(w) - n : SubSeq(w, n + 1, Len(w))[i] = w[n + i]
  BY <1>2, <1>4, SubSeqProperties
<1>8. \A i \in 1..n : SubSeq(w, 1, n)[i] = <<want[s], Size[want[s]] - Len(w) + i>>
  BY <1>2, <1>4, <1>6
<1> QED
  BY <1>1, <1>2, <1>3, <1>5, <1>6, <1>7, <1>8 DEF w

\* A saver keeps its own invariant when its letters, its mode and its history stay.
LEMMA SaverKept ==
  ASSUME SaversInv, NEW s \in Savers,
         left'[s] = left[s], want'[s] = want[s], before'[s] = before[s],
         \A q \in Savers : pc[q] \in Ended => pc'[q] \in Ended,
         pc'[s] \in {"open", "truncate"} => pc[s] \in {"open", "truncate"}
  PROVE  SaverInv(s)'
BY DEF SaversInv, SaverInv

\* Every step keeps the savers in order.
LEMMA SaversStep == ASSUME SaversInv, [Next]_vars PROVE SaversInv'
<1>1. ASSUME NEW s \in Savers, NEW m \in Modes, Begin(s, m) PROVE SaversInv'
  <2>1. /\ want' = [want EXCEPT ![s] = m] /\ left' = [left EXCEPT ![s] = Word(m)]
        /\ before' = [before EXCEPT ![s] = {q \in Savers : pc[q] \in Ended}]
        /\ pc[s] = "idle" /\ pc' = [pc EXCEPT ![s] = "open"] /\ file' = file /\ durable' = durable
    BY <1>1 DEF Begin, At, Goto
  <2>2. \A q \in Savers : pc[q] \in Ended => pc'[q] \in Ended
    BY <2>1 DEF SaversInv, Ended
  <2>3. ASSUME NEW q \in Savers \ {s} PROVE SaverInv(q)'
    BY <2>1, <2>2, <2>3, SaverKept DEF SaversInv
  <2>4. SaverInv(s)'
    <3>1. left'[s] = Word(m) /\ want'[s] = m /\ before'[s] = {q \in Savers : pc[q] \in Ended}
      BY <2>1 DEF SaversInv
    <3> QED
      BY <2>2, <3>1, WordFacts DEF SaverInv
  <2>5. Word(m) \in Seq(Alphabet)
    BY WordFacts
  <2> QED
    BY <2>1, <2>3, <2>4, <2>5 DEF SaversInv
<1>2. ASSUME NEW s \in Savers, NEW step \in {"truncate", "write"} \cup Ended, Goto(s, step),
             Saving(s), step = "truncate" => pc[s] = "open",
             UNCHANGED <<want, left, before>>, file' \in durable', durable' \subseteq Seq(Alphabet)
      PROVE  SaversInv'
  <2>1. pc' = [pc EXCEPT ![s] = step] /\ pc[s] \notin Ended
    BY <1>2 DEF Goto, Saving
  <2>2. \A q \in Savers : pc[q] \in Ended => pc'[q] \in Ended
    BY <2>1 DEF SaversInv
  <2>3. ASSUME NEW q \in Savers PROVE SaverInv(q)'
    <3>1. pc'[q] \in {"open", "truncate"} => pc[q] \in {"open", "truncate"}
      BY <1>2, <2>1 DEF SaversInv, Ended
    <3> QED
      BY <1>2, <2>2, <3>1, SaverKept
  <2> QED
    BY <1>2, <2>1, <2>3 DEF SaversInv
<1>3. <<>> \in Seq(Alphabet) /\ {"open", "truncate", "write"} \cap (Ended \cup {"idle"}) = {}
  BY EmptySeq DEF Ended
<1>4. ASSUME NEW s \in Savers, Open(s) PROVE SaversInv'
  <2>1. /\ Goto(s, "truncate") /\ pc[s] = "open" /\ UNCHANGED <<want, left, before>>
        /\ file' \in {<<>>, file} /\ durable' = durable \cup {file'}
    BY <1>4 DEF Open, Hold, At
  <2> QED
    BY <1>2, <1>3, <2>1 DEF SaversInv, Saving
<1>5. ASSUME NEW s \in Savers, Truncate(s) PROVE SaversInv'
  <2>1. /\ Goto(s, "write") /\ pc[s] = "truncate" /\ UNCHANGED <<want, left, before>>
        /\ file' = <<>> /\ durable' = durable \cup {file'}
    BY <1>5 DEF Truncate, Hold, At, Emptied
  <2> QED
    BY <1>2, <1>3, <2>1 DEF SaversInv, Saving
<1>6. ASSUME NEW s \in Savers, Sync(s) PROVE SaversInv'
  <2>1. /\ Goto(s, "ok") /\ pc[s] = "write" /\ UNCHANGED <<want, left, before>>
        /\ file' = file /\ durable' = {file}
    BY <1>6 DEF Sync, At
  <2>2. "ok" \in Ended /\ "ok" # "truncate"
    BY DEF Ended
  <2> QED
    BY <1>2, <1>3, <2>1, <2>2 DEF SaversInv, Saving
<1>7. ASSUME NEW s \in Savers, Fail(s) \/ Crash(s) PROVE SaversInv'
  <2>1. PICK step \in {"failed", "dead"} :
           /\ Goto(s, step) /\ Saving(s) /\ UNCHANGED <<want, left, before>>
           /\ file' = file /\ durable' = durable
    BY <1>7 DEF Fail, Crash
  <2>2. step \in Ended /\ step # "truncate"
    BY DEF Ended
  <2> QED
    BY <1>2, <2>1, <2>2 DEF SaversInv
<1>8. ASSUME NEW s \in Savers, Write(s) PROVE SaversInv'
  <2>1. PICK n \in 1..Len(left[s]) :
            /\ file' = Overwritten(file, Size[want[s]] - Len(left[s]), SubSeq(left[s], 1, n))
            /\ left' = [left EXCEPT ![s] = SubSeq(left[s], n + 1, Len(left[s]))]
            /\ Len(left[s]) \in Nat /\ Size[want[s]] - Len(left[s]) \in Nat
            /\ SubSeq(left[s], 1, n) \in Seq(Alphabet)
            /\ left'[s] \in Seq(Alphabet) /\ Len(left'[s]) = Len(left[s]) - n
            /\ \A i \in 1..Len(left[s]) - n : left'[s][i] = left[s][n + i]
    BY <1>8, WriteFacts
  <2>2. durable' = durable \cup {file'} /\ UNCHANGED <<pc, want, before>> /\ pc[s] = "write"
    BY <1>8 DEF Write, Hold, At
  <2>3. file' \in Seq(Alphabet)
    BY <2>1, OverwrittenFacts DEF SaversInv
  <2>4. left' \in [Savers -> Seq(Alphabet)]
    BY <2>1 DEF SaversInv
  <2>5. ASSUME NEW q \in Savers \ {s} PROVE SaverInv(q)'
    <3>1. left'[q] = left[q]
      BY <2>1 DEF SaversInv
    <3> QED
      BY <2>2, <3>1, SaverKept
  <2>6. SaverInv(s)'
    <3>1. \A i \in 1..Len(left'[s]) : left'[s][i] = <<want[s], Size[want[s]] - Len(left'[s]) + i>>
      <4> SUFFICES ASSUME NEW i \in 1..Len(left'[s])
                   PROVE  left'[s][i] = <<want[s], Size[want[s]] - Len(left'[s]) + i>>
        OBVIOUS
      <4>1. n + i \in 1..Len(left[s]) /\ left'[s][i] = left[s][n + i]
        BY <2>1
      <4>2. left[s][n + i] = <<want[s], Size[want[s]] - Len(left[s]) + (n + i)>>
        BY <4>1 DEF SaversInv, SaverInv
      <4>3. want[s] \in Modes /\ Size[want[s]] \in Nat
        BY WordFacts DEF SaversInv
      <4>4. Size[want[s]] - Len(left[s]) + (n + i) = Size[want[s]] - Len(left'[s]) + i
        BY <2>1, <4>3
      <4> QED
        BY <4>1, <4>2, <4>4
    <3>2. Len(left'[s]) <= Size[want[s]]
      <4>1. want[s] \in Modes /\ Size[want[s]] \in Nat /\ Len(left[s]) <= Size[want[s]]
        BY WordFacts DEF SaversInv, SaverInv
      <4> QED
        BY <2>1, <4>1
    <3> QED
      BY <2>2, <3>1, <3>2 DEF SaversInv, SaverInv
  <2> QED
    BY <2>2, <2>3, <2>4, <2>5, <2>6 DEF SaversInv
<1>9. CASE PowerLoss
  <2>1. /\ file' \in durable /\ durable' = {file'} /\ UNCHANGED <<want, left, before>>
        /\ pc' = [s \in Savers |-> IF Saving(s) THEN "dead" ELSE pc[s]]
    BY <1>9 DEF PowerLoss
  <2>2. \A q \in Savers : pc[q] \in Ended => pc'[q] \in Ended
    BY <2>1 DEF Saving
  <2>3. ASSUME NEW q \in Savers PROVE SaverInv(q)'
    <3>1. pc'[q] \notin {"open", "truncate"}
      BY <2>1 DEF Saving, Ended
    <3> QED
      BY <2>1, <2>2, <3>1, SaverKept
  <2>4. pc' \in [Savers -> {"idle", "open", "truncate", "write"} \cup Ended]
    BY <2>1 DEF SaversInv, Ended
  <2> QED
    BY <2>1, <2>3, <2>4 DEF SaversInv
<1>10. CASE UNCHANGED saves
  BY <1>10 DEF saves, SaversInv, SaverInv
<1> QED
  BY <1>1, <1>4, <1>5, <1>6, <1>7, <1>8, <1>9, <1>10
     DEF Next, Operate, SetMode, Save, vars

-----------------------------------------------------------------------------
(* What the file may be read as. *)

\* A saver that has begun keeps its mode and its history, and one that has ended
\* stays so.
LEMMA Progress ==
  ASSUME SaversInv, [Next]_vars
  PROVE  /\ first' = first
         /\ \A s \in Savers : pc[s] # "idle" =>
               want'[s] = want[s] /\ before'[s] = before[s] /\ pc'[s] # "idle"
         /\ \A s \in Savers : pc[s] \in Ended => pc'[s] = pc[s]
<1>1. ASSUME NEW s \in Savers, NEW m \in Modes, Begin(s, m)
      PROVE  /\ first' = first
             /\ \A q \in Savers : pc[q] # "idle" =>
                   want'[q] = want[q] /\ before'[q] = before[q] /\ pc'[q] # "idle"
             /\ \A q \in Savers : pc[q] \in Ended => pc'[q] = pc[q]
  BY <1>1 DEF SaversInv, Begin, At, Goto, Ended
<1>2. ASSUME NEW s \in Savers,
             Open(s) \/ Truncate(s) \/ Write(s) \/ Sync(s) \/ Fail(s) \/ Crash(s)
      PROVE  /\ first' = first
             /\ \A q \in Savers : pc[q] # "idle" =>
                   want'[q] = want[q] /\ before'[q] = before[q] /\ pc'[q] # "idle"
             /\ \A q \in Savers : pc[q] \in Ended => pc'[q] = pc[q]
  <2>1. first' = first /\ want' = want /\ before' = before
    BY <1>2 DEF Open, Truncate, Write, Sync, Fail, Crash
  <2>2. \/ pc' = pc
        \/ \E step \in {"truncate", "write", "ok", "failed", "dead"} :
              pc' = [pc EXCEPT ![s] = step] /\ pc[s] \notin Ended
    BY <1>2 DEF Open, Truncate, Write, Sync, Fail, Crash, Goto, At, Saving, Ended
  <2> QED
    BY <2>1, <2>2 DEF SaversInv
<1>3. CASE PowerLoss
  BY <1>3 DEF PowerLoss, Saving, Ended
<1>4. CASE UNCHANGED saves
  BY <1>4 DEF saves
<1> QED
  BY <1>1, <1>2, <1>3, <1>4 DEF Next, Operate, SetMode, Save, vars

\* What the history allows it goes on to allow, in spite of no more savers.
LEMMA AllowedKept ==
  ASSUME SaversInv, [Next]_vars
  PROVE  \A P, Q : /\ Q \subseteq P /\ P \subseteq {s \in Savers : pc[s] # "idle"}
                   /\ AllowedPast(P)
                   => \/ first' = "Normal" /\ Q = {}
                      \/ \E s \in Savers : /\ want'[s] = "Normal" /\ pc'[s] # "idle"
                                           /\ \A h \in Q : s \notin before'[h]
BY Progress DEF AllowedPast

\* One step of a saver: the stricter savers it adds to those that have emptied the
\* file, and to those that have succeeded.
LEMMA HostileFacts ==
  ASSUME SaversInv, SaversInv', [Next]_vars
  PROVE  /\ HostileSaves \cup Emptying \subseteq {s \in Savers : pc[s] # "idle"}
         /\ (\A s \in Savers : ~Truncate(s)) =>
               HostileSaves' \cup Emptying' \subseteq HostileSaves \cup Emptying
         /\ (\A s \in Savers : ~Sync(s)) => HostileSaves' \subseteq HostileSaves
<1>1. HostileSaves \cup Emptying \subseteq {s \in Savers : pc[s] # "idle"}
  BY DEF HostileSaves, Emptying
<1>2. ASSUME NEW s \in Savers, NEW m \in Modes, Begin(s, m)
      PROVE  HostileSaves' \subseteq HostileSaves /\ Emptying' \subseteq Emptying
  BY <1>2 DEF SaversInv, Begin, At, Goto, HostileSaves, Emptying
<1>3. ASSUME NEW s \in Savers, Open(s) \/ Write(s) \/ Fail(s) \/ Crash(s)
      PROVE  HostileSaves' \subseteq HostileSaves /\ Emptying' \subseteq Emptying
  <2>1. want' = want
    BY <1>3 DEF Open, Write, Fail, Crash
  <2>2. \/ pc' = pc
        \/ \E step \in {"truncate", "failed", "dead"} : pc' = [pc EXCEPT ![s] = step]
    BY <1>3 DEF Open, Write, Fail, Crash, Goto
  <2> QED
    BY <2>1, <2>2 DEF SaversInv, HostileSaves, Emptying
<1>4. ASSUME NEW s \in Savers, Truncate(s) PROVE HostileSaves' \subseteq HostileSaves
  BY <1>4 DEF SaversInv, Truncate, Goto, At, HostileSaves
<1>5. ASSUME NEW s \in Savers, Sync(s)
      PROVE  HostileSaves' \cup Emptying' \subseteq HostileSaves \cup Emptying
  BY <1>5 DEF SaversInv, Sync, Goto, At, HostileSaves, Emptying
<1>6. CASE PowerLoss
  BY <1>6 DEF PowerLoss, Saving, Ended, HostileSaves, Emptying
<1>7. CASE UNCHANGED saves
  BY <1>7 DEF saves, HostileSaves, Emptying
<1> QED
  BY <1>1, <1>2, <1>3, <1>4, <1>5, <1>6, <1>7 DEF Next, Operate, SetMode, Save, vars

\* Only what is written over a file leaves a new trace in it.
LEMMA OverwrittenTraces ==
  ASSUME NEW content \in Seq(Alphabet), NEW at \in Nat, NEW letters \in Seq(Alphabet),
         Traces(Overwritten(content, at, letters))
  PROVE  Traces(content) \/ Traces(letters)
<1> DEFINE c == Overwritten(content, at, letters)
           n == Longest(Len(content), at + Len(letters))
<1>1. Len(content) \in Nat /\ Len(letters) \in Nat
  BY LenProperties
<1>2. /\ Len(c) = n
      /\ \A i \in 1..n : c[i] = IF i \in at + 1..at + Len(letters) THEN letters[i - at]
                                ELSE IF i <= Len(content) THEN content[i] ELSE Hole
  BY OverwrittenFacts
<1>3. PICK i \in 1..Len(c) : c[i][1] \in {"Normal", "no file"}
  BY DEF Traces
<1>4. n \in Nat
  BY <1>1 DEF Longest
<1> HIDE DEF c, n
<1>5. i \in 1..n
  BY <1>2, <1>3, Zenon
<1>6. CASE i \in at + 1..at + Len(letters)
  <2>1. i - at \in 1..Len(letters)
    BY <1>1, <1>5, <1>6
  <2>2. c[i] = letters[i - at]
    BY <1>2, <1>5, <1>6
  <2> QED
    BY <1>3, <2>1, <2>2 DEF Traces
<1>7. CASE i \notin at + 1..at + Len(letters) /\ i <= Len(content)
  <2>1. i \in 1..Len(content)
    BY <1>1, <1>5, <1>7
  <2>2. c[i] = content[i]
    BY <1>2, <1>5, <1>7
  <2> QED
    BY <1>3, <2>1, <2>2 DEF Traces
<1>8. CASE i \notin at + 1..at + Len(letters) /\ ~(i <= Len(content))
  <2>1. c[i] = Hole
    BY <1>2, <1>5, <1>8
  <2>2. Hole[1] = "hole"
    BY DEF Hole
  <2> QED
    BY <1>3, <2>1, <2>2
<1> QED
  BY <1>6, <1>7, <1>8

\* Only a saver of Normal leaves a new trace of it.
LEMMA WriteTraces ==
  ASSUME SaversInv, NEW s \in Savers, Write(s), Traces(file')
  PROVE  Traces(file) \/ want[s] = "Normal"
<1>1. PICK n \in 1..Len(left[s]) :
          /\ file' = Overwritten(file, Size[want[s]] - Len(left[s]), SubSeq(left[s], 1, n))
          /\ Size[want[s]] - Len(left[s]) \in Nat
          /\ SubSeq(left[s], 1, n) \in Seq(Alphabet) /\ Len(SubSeq(left[s], 1, n)) = n
          /\ \A i \in 1..n : SubSeq(left[s], 1, n)[i] = <<want[s], Size[want[s]] - Len(left[s]) + i>>
  BY WriteFacts
<1>2. Traces(file) \/ Traces(SubSeq(left[s], 1, n))
  BY <1>1, OverwrittenTraces DEF SaversInv
<1>3. ASSUME Traces(SubSeq(left[s], 1, n)) PROVE want[s] = "Normal"
  <2>1. PICK i \in 1..n : SubSeq(left[s], 1, n)[i][1] \in {"Normal", "no file"}
    BY <1>1, <1>3 DEF Traces
  <2>2. SubSeq(left[s], 1, n)[i][1] = want[s]
    BY <1>1
  <2>3. want[s] \in Modes
    BY DEF SaversInv
  <2> QED
    BY <2>1, <2>2, <2>3 DEF Modes
<1> QED
  BY <1>2, <1>3

\* The stricter savers of the next state cannot have begun before a saver that has
\* just written.
LEMMA WriterAllowed ==
  ASSUME SaversInv', NEW s \in Savers, want'[s] = "Normal", pc'[s] = "write",
         NEW P, P \subseteq Savers
  PROVE  (\E q \in Savers : /\ want'[q] = "Normal" /\ pc'[q] # "idle"
                            /\ \A h \in P : q \notin before'[h])
<1>1. \A h \in Savers : s \notin before'[h]
  BY DEF SaversInv, SaverInv, Ended
<1> QED
  BY <1>1

\* Every step keeps the history with the traces.
LEMMA TracesStep ==
  ASSUME SaversInv, SaversInv', TracesInv, [Next]_vars PROVE TracesInv'
<1> DEFINE Allowed(P) == \/ first' = "Normal" /\ P = {}
                         \/ \E q \in Savers : /\ want'[q] = "Normal" /\ pc'[q] # "idle"
                                              /\ \A h \in P : q \notin before'[h]
<1>1. \A P, Q : Q \subseteq P /\ Allowed(P) => Allowed(Q)
  OBVIOUS
<1>2. \A Q : Q \subseteq HostileSaves \cup Emptying /\ AllowedPast(HostileSaves \cup Emptying)
             => Allowed(Q)
  BY AllowedKept, HostileFacts
<1>3. \A Q : Q \subseteq HostileSaves /\ AllowedPast(HostileSaves) => Allowed(Q)
  <2>1. HostileSaves \subseteq {s \in Savers : pc[s] # "idle"}
    BY HostileFacts
  <2> QED
    BY <2>1, AllowedKept
<1>4. ~Traces(<<>>)
  BY DEF Traces
<1>5. HostileSaves' \subseteq HostileSaves' \cup Emptying' /\ HostileSaves' \cup Emptying' \subseteq Savers
  BY DEF HostileSaves, Emptying
<1> HIDE DEF Allowed
<1>6. SUFFICES /\ Traces(file') => Allowed(HostileSaves' \cup Emptying')
               /\ (\E c \in durable' : Traces(c)) => Allowed(HostileSaves')
  BY DEF TracesInv, AllowedPast, Allowed
<1>7. ASSUME NEW s \in Savers, Truncate(s)
      PROVE  /\ Traces(file') => Allowed(HostileSaves' \cup Emptying')
             /\ (\E c \in durable' : Traces(c)) => Allowed(HostileSaves')
  <2>1. file' = <<>> /\ durable' = durable \cup {<<>>} /\ pc[s] = "truncate"
    BY <1>7 DEF Truncate, Hold, Emptied, At
  <2>2. HostileSaves' \subseteq HostileSaves
    BY <1>7 DEF SaversInv, Truncate, Goto, At, HostileSaves
  <2> QED
    BY <1>3, <1>4, <2>1, <2>2 DEF TracesInv
<1>8. ASSUME NEW s \in Savers, Sync(s)
      PROVE  /\ Traces(file') => Allowed(HostileSaves' \cup Emptying')
             /\ (\E c \in durable' : Traces(c)) => Allowed(HostileSaves')
  <2>1. file' = file /\ durable' = {file}
    BY <1>8 DEF Sync
  <2>2. HostileSaves' \cup Emptying' \subseteq HostileSaves \cup Emptying
    BY <1>8 DEF SaversInv, Sync, Goto, At, HostileSaves, Emptying
  <2>3. HostileSaves' \subseteq HostileSaves \cup Emptying
    BY <2>2
  <2> QED
    BY <1>2, <2>1, <2>2, <2>3 DEF TracesInv
<1>9. ASSUME NEW s \in Savers, Write(s)
      PROVE  /\ Traces(file') => Allowed(HostileSaves' \cup Emptying')
             /\ (\E c \in durable' : Traces(c)) => Allowed(HostileSaves')
  <2>1. /\ durable' = durable \cup {file'} /\ pc' = pc /\ want' = want /\ pc[s] = "write"
        /\ HostileSaves' = HostileSaves /\ Emptying' = Emptying
    BY <1>9 DEF Write, Hold, At, HostileSaves, Emptying
  <2>2. CASE want[s] = "Normal"
    <3>1. Allowed(HostileSaves' \cup Emptying')
      BY <1>5, <2>1, <2>2, WriterAllowed DEF Allowed
    <3> QED
      BY <1>1, <1>5, <3>1 DEF Allowed
  <2>3. CASE want[s] # "Normal"
    <3>1. Traces(file') => Traces(file) /\ file \in durable
      BY <1>9, <2>3, WriteTraces DEF SaversInv
    <3> QED
      BY <1>2, <1>3, <2>1, <3>1 DEF TracesInv
  <2> QED
    BY <2>2, <2>3
<1>10. ASSUME NEW s \in Savers, (\E m \in Modes : Begin(s, m)) \/ Open(s) \/ Fail(s) \/ Crash(s)
       PROVE  /\ Traces(file') => Allowed(HostileSaves' \cup Emptying')
              /\ (\E c \in durable' : Traces(c)) => Allowed(HostileSaves')
  <2>1. /\ file' \in {<<>>, file} /\ durable' \subseteq durable \cup {file'}
    BY <1>10 DEF Begin, Open, Hold, Fail, Crash
  <2>2. HostileSaves' \subseteq HostileSaves /\ Emptying' \subseteq Emptying
    <3>1. CASE \E m \in Modes : Begin(s, m)
      BY <3>1 DEF SaversInv, Begin, At, Goto, HostileSaves, Emptying
    <3>2. CASE ~\E m \in Modes : Begin(s, m)
      <4>1. want' = want /\ \E step \in {"truncate", "failed", "dead"} : pc' = [pc EXCEPT ![s] = step]
        BY <1>10, <3>2 DEF Open, Fail, Crash, Goto
      <4> QED
        BY <4>1 DEF SaversInv, HostileSaves, Emptying
    <3> QED
      BY <3>1, <3>2
  <2>3. file \in durable
    BY DEF SaversInv
  <2> QED
    BY <1>2, <1>3, <1>4, <2>1, <2>2, <2>3 DEF TracesInv
<1>11. CASE PowerLoss
  <2>1. /\ file' \in durable /\ durable' = {file'} /\ want' = want
        /\ pc' = [s \in Savers |-> IF Saving(s) THEN "dead" ELSE pc[s]]
    BY <1>11 DEF PowerLoss
  <2>2. HostileSaves' \subseteq HostileSaves /\ Emptying' = {}
    BY <2>1 DEF HostileSaves, Emptying, Saving, Ended
  <2>3. HostileSaves' \cup Emptying' \subseteq HostileSaves
    BY <2>2
  <2> QED
    BY <1>3, <2>1, <2>2, <2>3 DEF TracesInv
<1>12. CASE UNCHANGED saves
  <2>1. file' = file /\ durable' = durable /\ HostileSaves' = HostileSaves /\ Emptying' = Emptying
    BY <1>12 DEF saves, HostileSaves, Emptying
  <2> QED
    BY <1>2, <1>3, <2>1 DEF TracesInv
<1> QED
  BY <1>7, <1>8, <1>9, <1>10, <1>11, <1>12 DEF Next, Operate, SetMode, Save, vars

\* At first nobody saves.
LEMMA InitSavers ==
  ASSUME Init
  PROVE  /\ SaversInv /\ HostileSaves = {} /\ Emptying = {}
         /\ \A s \in Savers : pc[s] = "idle"
         /\ \E content : file = content /\ durable = {content} /\ first = Parsed(content).mode
<1>1. file \in Seq(Alphabet)
  <2>1. NoFile \in Seq(Alphabet)
    <3>1. <<"no file", 0>> \in Alphabet
      BY DEF Alphabet
    <3>2. \A a \in Alphabet : <<a>> \in Seq(Alphabet)
      OBVIOUS
    <3> QED
      BY <3>1, <3>2, Zenon DEF NoFile
  <2>2. \A m \in Modes : Word(m) \in Seq(Alphabet)
    BY WordFacts
  <2> QED
    BY <2>1, <2>2 DEF Init
<1>2. /\ durable = {file} /\ first = Parsed(file).mode /\ pc = [s \in Savers |-> "idle"]
      /\ want = [s \in Savers |-> "Normal"] /\ left = [s \in Savers |-> <<>>]
      /\ before = [s \in Savers |-> {}]
  BY DEF Init
<1>3. ASSUME NEW s \in Savers PROVE SaverInv(s)
  <2>1. want[s] = "Normal" /\ left[s] = <<>> /\ before[s] = {} /\ pc[s] = "idle"
    BY <1>2
  <2>2. "Normal" \in Modes
    BY DEF Modes
  <2>3. Size["Normal"] \in Nat
    BY <2>2, WordFacts
  <2>4. Len(left[s]) = 0
    BY <2>1
  <2> QED
    BY <2>1, <2>3, <2>4 DEF SaverInv
<1>4. left \in [Savers -> Seq(Alphabet)] /\ before \in [Savers -> SUBSET Savers]
  BY <1>2, EmptySeq
<1>5. want \in [Savers -> Modes] /\ pc \in [Savers -> {"idle", "open", "truncate", "write"} \cup Ended]
  BY <1>2 DEF Modes
<1>6. HostileSaves = {} /\ Emptying = {}
  BY <1>2 DEF HostileSaves, Emptying
<1> QED
  BY <1>1, <1>2, <1>3, <1>4, <1>5, <1>6 DEF SaversInv

\* The history allows Normal, in spite of the stricter saves that succeeded, where
\* it allows it in spite of more savers.
LEMMA MayHold == AllowedPast(HostileSaves \cup Emptying) => NormalMayHold
BY DEF AllowedPast, NormalMayHold, HostileSaves

\* The savers stay in order, and the file tells no more than the history.
LEMMA SaversInvariance == Spec => [](SaversInv /\ TracesInv)
<1>1. Init => SaversInv /\ TracesInv
  <2> SUFFICES ASSUME Init PROVE SaversInv /\ TracesInv
    OBVIOUS
  <2>1. ASSUME Traces(file) PROVE first = "Normal"
    <3>1. file \in {NoFile} \cup {Word(m) : m \in Modes} /\ first = Parsed(file).mode
      BY DEF Init
    <3>2. CASE file = NoFile \/ file = Word("Normal")
      BY <3>1, <3>2, ParsedFacts DEF Modes
    <3>3. CASE file = Word("HostileNetwork")
      <4>1. PICK i \in 1..Len(file) : file[i][1] \in {"Normal", "no file"}
        BY <2>1 DEF Traces
      <4>2. file[i] = <<"HostileNetwork", i>>
        BY <3>3, <4>1, WordFacts DEF Modes
      <4> QED
        BY <4>1, <4>2
    <3> QED
      BY <3>1, <3>2, <3>3 DEF Modes
  <2> QED
    BY <2>1, InitSavers DEF TracesInv, AllowedPast, Init
<1>2. SaversInv /\ TracesInv /\ [Next]_vars => (SaversInv /\ TracesInv)'
  BY SaversStep, TracesStep
<1> QED
  BY <1>1, <1>2, PTL DEF Spec

\* Whatever of later saves is cut short, a file that may be read as Normal means that
\* Normal was there at first or was asked for since (OperatingModeStore::save and
\* load, write_private_file).
THEOREM HostileAlwaysHeld == Spec => []HostileHeld
<1>1. SaversInv /\ TracesInv => HostileHeld
  BY NormalShows, MayHold DEF TracesInv, HostileHeld
<1> QED
  BY <1>1, SaversInvariance, PTL

-----------------------------------------------------------------------------
(* A save that nobody disturbed. *)

\* While s is alone, no other saver takes a step.
LEMMA AloneOnly ==
  ASSUME SaversInv, NEW q \in Savers, pc[q] \notin Ended, NEW s \in Savers \ {q},
         pc'[q] # "idle", before'[s] = before[s]
  PROVE  ~Alone(s)'
<1>1. q \notin before[s]
  BY DEF SaversInv, SaverInv
<1> QED
  BY <1>1 DEF Alone

\* One write continues the word.
LEMMA WriteContinues ==
  ASSUME SaversInv, NEW s \in Savers, Write(s),
         Begins(file, want[s], Size[want[s]] - Len(left[s]))
  PROVE  Begins(file', want[s], Size[want[s]] - Len(left'[s]))
<1>1. PICK n \in 1..Len(left[s]) :
          /\ file' = Overwritten(file, Size[want[s]] - Len(left[s]), SubSeq(left[s], 1, n))
          /\ Len(left[s]) \in Nat /\ Size[want[s]] - Len(left[s]) \in Nat
          /\ SubSeq(left[s], 1, n) \in Seq(Alphabet) /\ Len(SubSeq(left[s], 1, n)) = n
          /\ \A i \in 1..n : SubSeq(left[s], 1, n)[i] = <<want[s], Size[want[s]] - Len(left[s]) + i>>
          /\ Len(left'[s]) = Len(left[s]) - n
  BY WriteFacts
<1>2. PICK at \in Nat : at = Size[want[s]] - Len(left[s])
  BY <1>1
<1>3. PICK letters \in Seq(Alphabet) : letters = SubSeq(left[s], 1, n)
  BY <1>1
<1>4. Size[want[s]] - Len(left'[s]) = at + n
  <2>1. Size[want[s]] \in Nat /\ n \in Nat
    BY WordFacts DEF SaversInv
  <2> QED
    BY <1>1, <1>2, <2>1
<1>5. /\ Len(letters) = n /\ n \in Nat /\ Len(file) = at
      /\ \A i \in 1..n : letters[i] = <<want[s], at + i>>
      /\ \A i \in 1..at : file[i] = <<want[s], i>>
  <2>1. Len(letters) = n /\ n \in Nat
    BY <1>1, <1>3
  <2>2. \A i \in 1..n : letters[i] = <<want[s], at + i>>
    BY <1>1, <1>2, <1>3, Zenon
  <2>3. Len(file) = at /\ \A i \in 1..at : file[i] = <<want[s], i>>
    BY <1>2, Zenon DEF Begins
  <2> QED
    BY <2>1, <2>2, <2>3
<1>6. Longest(Len(file), at + Len(letters)) = at + n
  BY <1>5 DEF Longest
<1>7. /\ Len(file') = at + n
      /\ \A i \in 1..at + n : file'[i] = IF i \in at + 1..at + n THEN letters[i - at]
                                         ELSE IF i <= Len(file) THEN file[i] ELSE Hole
  <2>1. file' = Overwritten(file, at, letters) /\ file \in Seq(Alphabet)
    BY <1>1, <1>2, <1>3 DEF SaversInv
  <2>2. /\ Len(file') = Longest(Len(file), at + Len(letters))
        /\ \A i \in 1..Longest(Len(file), at + Len(letters)) :
              file'[i] = IF i \in at + 1..at + Len(letters) THEN letters[i - at]
                         ELSE IF i <= Len(file) THEN file[i] ELSE Hole
    <3> DEFINE written == Overwritten(file, at, letters)
    <3>1. /\ Len(written) = Longest(Len(file), at + Len(letters))
          /\ \A i \in 1..Longest(Len(file), at + Len(letters)) :
                written[i] = IF i \in at + 1..at + Len(letters) THEN letters[i - at]
                             ELSE IF i <= Len(file) THEN file[i] ELSE Hole
      <4>1. file \in Seq(Alphabet) /\ at \in Nat /\ letters \in Seq(Alphabet)
        BY <2>1
      <4> QED
        BY ONLY <4>1, OverwrittenFacts, Zenon
    <3> HIDE DEF written
    <3>2. file' = written
      BY <2>1 DEF written
    <3> QED
      BY ONLY <3>1, <3>2
  <2> QED
    BY <1>5, <1>6, <2>2
<1>8. ASSUME NEW i \in 1..at + n PROVE file'[i] = <<want[s], i>>
  <2>1. CASE i \in at + 1..at + n
    <3>1. i - at \in 1..n /\ at + (i - at) = i
      BY <1>5, <2>1
    <3>2. file'[i] = letters[i - at]
      BY <1>7, <2>1
    <3>3. letters[i - at] = <<want[s], at + (i - at)>>
      BY <1>5, <3>1
    <3> QED
      BY <3>1, <3>2, <3>3
  <2>2. CASE i \notin at + 1..at + n
    <3>1. i \in 1..at /\ i <= Len(file)
      BY <1>5, <2>2
    <3> QED
      BY <1>5, <1>7, <2>2, <3>1
  <2> QED
    BY <2>1, <2>2
<1> QED
  BY <1>4, <1>7, <1>8 DEF Begins

\* Every step keeps what a saver that is alone has written.
LEMMA AloneStep ==
  ASSUME SaversInv, SaversInv', AloneInv, [Next]_vars PROVE AloneInv'
<1> DEFINE Held(s) ==
             /\ pc'[s] = "write" => Begins(file', want'[s], Size[want'[s]] - Len(left'[s]))
             /\ pc'[s] = "ok" => durable' = {file'} /\ Begins(file', want'[s], Size[want'[s]])
<1>1. SUFFICES ASSUME NEW s \in Savers, Alone(s)' PROVE Held(s)
  BY DEF AloneInv, Begins
<1>2. ASSUME NEW q \in Savers \ {s}, Save(q) PROVE FALSE
  <2>1. pc[q] \notin Ended /\ pc'[q] # "idle"
    BY <1>2 DEF SaversInv, Save, Begin, Open, Truncate, Write, Sync, Fail, Crash, At, Goto, Saving,
                Ended
  <2>2. before'[s] = before[s]
    BY <1>2 DEF SaversInv, Save, Begin, Open, Truncate, Write, Sync, Fail, Crash
  <2> QED
    BY <1>1, <2>1, <2>2, AloneOnly
<1>3. ASSUME NEW m \in Modes, Begin(s, m) PROVE Held(s)
  BY <1>3 DEF SaversInv, Begin, Goto
<1>4. CASE Open(s) \/ Fail(s) \/ Crash(s)
  BY <1>4 DEF SaversInv, Open, Fail, Crash, Goto
<1>5. CASE Truncate(s)
  <2>1. /\ file' = <<>> /\ want' = want /\ left' = left /\ pc[s] = "truncate"
        /\ pc'[s] = "write"
    BY <1>5 DEF SaversInv, Truncate, Hold, Emptied, At, Goto
  <2>2. Len(left[s]) = Size[want[s]] /\ want[s] \in Modes
    BY <2>1 DEF SaversInv, SaverInv
  <2>3. Size[want[s]] - Len(left'[s]) = 0
    BY <2>1, <2>2, WordFacts
  <2>4. Begins(<<>>, want[s], 0)
    BY DEF Begins
  <2> QED
    BY <2>1, <2>3, <2>4
<1>6. CASE Write(s)
  <2>1. pc' = pc /\ want' = want /\ before' = before /\ pc[s] = "write"
    BY <1>6 DEF Write, At
  <2>2. Begins(file, want[s], Size[want[s]] - Len(left[s]))
    BY <1>1, <2>1 DEF Alone, AloneInv
  <2> QED
    BY <1>6, <2>1, <2>2, WriteContinues
<1>7. CASE Sync(s)
  <2>1. /\ pc' = [pc EXCEPT ![s] = "ok"] /\ want' = want /\ before' = before /\ pc[s] = "write"
        /\ left[s] = <<>> /\ file' = file /\ durable' = {file}
    BY <1>7 DEF Sync, At, Goto
  <2>2. Begins(file, want[s], Size[want[s]] - Len(left[s]))
    BY <1>1, <2>1 DEF Alone, AloneInv, SaversInv
  <2>3. Size[want[s]] - Len(left[s]) = Size[want[s]]
    <3>1. Len(left[s]) = 0 /\ want[s] \in Modes
      BY <2>1 DEF SaversInv
    <3> QED
      BY <3>1, WordFacts
  <2> QED
    BY <2>1, <2>2, <2>3 DEF SaversInv
<1>8. CASE PowerLoss
  <2>1. /\ file' \in durable /\ durable' = {file'} /\ want' = want /\ before' = before
        /\ \A q \in Savers : pc'[q] = IF Saving(q) THEN "dead" ELSE pc[q]
    BY <1>8 DEF PowerLoss
  <2>2. Alone(s)
    BY <1>1, <2>1 DEF Alone
  <2>3. pc'[s] # "write" /\ (pc'[s] = "ok" => pc[s] = "ok")
    BY <2>1 DEF Saving, Ended
  <2> QED
    BY <2>1, <2>2, <2>3 DEF AloneInv
<1>9. CASE UNCHANGED saves
  <2>1. Alone(s)
    BY <1>1, <1>9 DEF Alone, saves
  <2> QED
    BY <1>9, <2>1 DEF AloneInv, saves
<1> QED
  BY <1>2, <1>3, <1>4, <1>5, <1>6, <1>7, <1>8, <1>9 DEF Next, Operate, SetMode, Save, vars

\* A save that reported success, and that no other overlapped or followed, is what
\* every later load finds, also after a power loss.
THEOREM SavedModeAlwaysHeld == Spec => []SavedModeHeld
<1>1. Init => AloneInv
  BY InitSavers DEF AloneInv
<1>2. SaversInv /\ TracesInv /\ SaversInv' /\ AloneInv /\ [Next]_vars => AloneInv'
  BY AloneStep
<1>3. SaversInv /\ TracesInv /\ AloneInv => SavedModeHeld
  <2> SUFFICES ASSUME SaversInv, AloneInv, NEW s \in Savers, pc[s] = "ok",
                      \A q \in Savers \ {s} : pc[q] = "idle" \/ q \in before[s]
               PROVE  Parsed(file) = [mode |-> want[s], status |-> "Available"]
    BY DEF SavedModeHeld
  <2>1. Begins(file, want[s], Size[want[s]])
    BY DEF AloneInv, Alone
  <2> QED
    BY <2>1, WholeWord DEF SaversInv
<1> QED
  BY <1>1, <1>2, <1>3, SaversInvariance, PTL DEF Spec

-----------------------------------------------------------------------------
(* What the screen shows. *)

\* Every step keeps the reports in order.
LEMMA ReportStep ==
  ASSUME SaversInv, HostileHeld, ReportInv, [Next]_vars PROVE ReportInv'
<1> DEFINE TaskKept == task' # NoTask /\ task'.view \in Reports =>
                          task'.depth = "Complete" /\ (NormalMayHold' => allowed')
           ShownKept == view' \in Reports =>
                          state'.depth = "Complete" /\ (state'.mode = "Normal" => allowed')
<1>0. SUFFICES TaskKept /\ ShownKept
  BY DEF ReportInv, ReportJudgedAsSaved
<1>a. /\ task # NoTask /\ task.view \in Reports =>
            task.depth = "Complete" /\ (NormalMayHold => allowed)
      /\ view \in Reports => state.depth = "Complete" /\ (state.mode = "Normal" => allowed)
  BY DEF ReportInv, ReportJudgedAsSaved
<1>b. UNCHANGED saves => NormalMayHold' = NormalMayHold
  BY DEF saves, NormalMayHold, HostileSaves
<1>c. {"menu", "help", "goodbye"} \cap Reports = {}
  BY DEF Reports
<1>1. CASE Select /\ UNCHANGED saves /\ allowed' = NormalMayHold
  <2>1. PICK v \in Offers[menu] :
           /\ view' = IF Refreshes(v) THEN "menu" ELSE v
           /\ task' = IF Refreshes(v) THEN Task("Complete", v) ELSE NoTask
    BY <1>1 DEF Select, Show
  <2>2. view' \notin Reports
    BY <1>c, <2>1 DEF Refreshes
  <2>3. task' # NoTask => task' = [depth |-> "Complete", view |-> v]
    BY <2>1 DEF Task
  <2> QED
    BY <1>1, <1>b, <2>2, <2>3
<1>2. CASE Key /\ UNCHANGED <<saves, allowed>>
  <2>1. \/ view' \in {"menu", "help", "goodbye"} /\ task' = task
        \/ view' = "menu" /\ task' = [depth |-> "Landing", view |-> "menu"]
        \/ view' = view /\ task' = task /\ state' = state
    BY <1>2 DEF Key, Quit, Emergency, Help, Refresh, Back, Enter, Unrecognised, Show, Same, Task
  <2> QED
    BY <1>2, <1>a, <1>b, <1>c, <2>1
<1>3. CASE Collect /\ UNCHANGED <<saves, allowed>>
  <2>1. PICK loaded \in Loads : state' = [depth |-> task.depth, mode |-> loaded.mode]
    BY <1>3 DEF Collect
  <2>2. task # NoTask /\ task' = NoTask /\ view' = task.view
    BY <1>3 DEF Collect
  <2>3. loaded.mode = "Normal" => NormalMayHold
    BY <2>1 DEF Loads, HostileHeld, Fallback
  <2> QED
    BY <1>3, <1>a, <2>1, <2>2, <2>3
<1>4. CASE SetMode
  <2>1. task' = task /\ view' = view /\ state' = state
        /\ allowed' = (allowed \/ (task # NoTask /\ NormalMayHold'))
    BY <1>4 DEF SetMode, session
  <2> QED
    BY <1>a, <2>1
<1>5. CASE PowerLoss
  BY <1>5, <1>c DEF PowerLoss
<1>6. CASE UNCHANGED vars
  BY <1>6, <1>a, <1>b DEF vars, session
<1> QED
  BY <1>1, <1>2, <1>3, <1>4, <1>5, <1>6 DEF Next, Operate

\* A report on the screen is complete, and judges by criteria that were in force
\* since the operator asked for it (InteractiveSession::run and refresh).
THEOREM ReportsAlwaysJudgedAsSaved == Spec => []ReportJudgedAsSaved
<1>1. Init => ReportInv
  BY DEF Init, ReportInv, ReportJudgedAsSaved, Reports, Task
<1>2. SaversInv /\ TracesInv /\ HostileHeld /\ ReportInv /\ [Next]_vars => ReportInv'
  BY ReportStep
<1>3. ReportInv => ReportJudgedAsSaved
  BY DEF ReportInv
<1> QED
  BY <1>1, <1>2, <1>3, SaversInvariance, HostileAlwaysHeld, PTL DEF Spec

=============================================================================
