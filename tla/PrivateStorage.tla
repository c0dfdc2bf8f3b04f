--------------------------- MODULE PrivateStorage ---------------------------
(***************************************************************************)
(* One owner-only file of core/secure_storage.cpp and the calls that       *)
(* append to it (write_private_file) or replace it through a temporary     *)
(* file (replace_private_file_atomically), each in a process of its own.   *)
(*                                                                         *)
(* Text is a sequence of chunks, the pieces write(2) may split it into.    *)
(* Every system call may fail, every process may be killed between two of  *)
(* them, and power may be lost.  Power loss keeps what was synced and any  *)
(* part of what was not, and the directory entry last made durable; the    *)
(* fsync of a file makes the entry that names it durable too, as the file  *)
(* systems Fedora installs do.                                             *)
(***************************************************************************)
EXTENDS Integers, Sequences

CONSTANTS
    Calls,       \* the calls that store something, one record each
    Original     \* the file that was there before them

ASSUME StorageAssumption == Original \notin Calls

VARIABLES
    file,        \* per file: its data and how much of it is durable
    named,       \* the file the path leads to
    entry,       \* the file it leads to after a power loss
    pc,          \* per call: its next system call
    fd,          \* per call: the file it writes
    text         \* per call: what it has yet to write

storage == <<file, named, entry, pc, fd, text>>

\* A replacement is named by the call that wrote it.
Files == Calls \cup {Original}
Ended == {"ok", "failed", "dead"}
Steps == {"start", "ready", "open", "write", "stage", "rename", "syncdir"} \cup Ended

Content == file[named].data
Empty   == [data |-> <<>>, synced |-> 0]

StorageOK(Chunk) ==
    /\ named \in Files /\ entry \in Files
    /\ pc \in [Calls -> Steps] /\ fd \in [Calls -> Files]
    /\ file \in [Files -> [data : Seq(Chunk), synced : Nat]]
    /\ text \in [Calls -> Seq(Chunk)]
    /\ \A f \in Files : file[f].synced <= Len(file[f].data)

StorageInit(contents) ==
    /\ \E old \in contents :
          file = [f \in Files |-> IF f = Original THEN [data |-> old, synced |-> Len(old)]
                                  ELSE Empty]
    /\ named = Original /\ entry = Original
    /\ pc = [c \in Calls |-> "start"] /\ fd = [c \in Calls |-> Original]
    /\ text = [c \in Calls |-> <<>>]

At(c, step) == pc[c] = step
Goto(c, step) == pc' = [pc EXCEPT ![c] = step]

\* The caller decides to append t, or to replace the file by t.
StartAppend(c, t) ==
    /\ Goto(c, "open") /\ text' = [text EXCEPT ![c] = t]
    /\ UNCHANGED <<file, named, entry, fd>>

StartReplace(c, t) ==
    /\ Goto(c, "stage") /\ text' = [text EXCEPT ![c] = t]
    /\ fd' = [fd EXCEPT ![c] = c]
    /\ UNCHANGED <<file, named, entry>>

\* open(O_APPEND) of the path.
Open(c) ==
    /\ At(c, "open")
    /\ fd' = [fd EXCEPT ![c] = named] /\ Goto(c, "write")
    /\ UNCHANGED <<file, named, entry, text>>

\* write_all: one write(2), of all that remains or less.
Write(c) ==
    /\ pc[c] \in {"write", "stage"} /\ text[c] # <<>>
    /\ \E n \in 1..Len(text[c]) :
          /\ file' = [file EXCEPT ![fd[c]].data = @ \o SubSeq(text[c], 1, n)]
          /\ text' = [text EXCEPT ![c] = SubSeq(@, n + 1, Len(@))]
    /\ UNCHANGED <<named, entry, pc, fd>>

Flushed(f) == [f EXCEPT !.synced = Len(f.data)]

\* fsync and close of the file once all is written.
SyncFile(c) ==
    /\ text[c] = <<>>
    /\ \/ At(c, "write") /\ Goto(c, "ok")
       \/ At(c, "stage") /\ Goto(c, "rename")
    /\ file' = [file EXCEPT ![fd[c]] = Flushed(@)]
    /\ entry' = IF fd[c] = named THEN named ELSE entry
    /\ UNCHANGED <<named, fd, text>>

\* Mutant: the temporary file is renamed while it is being written.
RenameDueEarly(c) == pc[c] \in {"stage", "rename"}

RenameDue(c) == At(c, "rename")

Rename(c) ==
    /\ RenameDue(c)
    /\ named' = c /\ Goto(c, "syncdir")
    /\ UNCHANGED <<file, entry, fd, text>>

SyncDirectory(c) ==
    /\ At(c, "syncdir")
    /\ entry' = named /\ Goto(c, "ok")
    /\ UNCHANGED <<file, named, fd, text>>

\* Any system call fails and the call reports it; a temporary file that is
\* still one is unlinked, what was appended stays.
Fail(c) ==
    /\ pc[c] \notin Ended
    /\ Goto(c, "failed")
    /\ file' = IF pc[c] \in {"stage", "rename"} THEN [file EXCEPT ![c] = Empty] ELSE file
    /\ text' = [text EXCEPT ![c] = <<>>]
    /\ UNCHANGED <<named, entry, fd>>

\* The process is killed.
Crash(c) ==
    /\ pc[c] \notin Ended
    /\ Goto(c, "dead")
    /\ text' = [text EXCEPT ![c] = <<>>]
    /\ UNCHANGED <<file, named, entry, fd>>

\* Everything that runs dies with the machine.
PowerLoss ==
    /\ named' = entry
    /\ \E n \in file[entry].synced..Len(file[entry].data) :
          file' = [file EXCEPT ![entry] =
                     [data |-> SubSeq(@.data, 1, n), synced |-> n]]
    /\ pc' = [c \in Calls |-> IF pc[c] \in Ended \cup {"start"} THEN pc[c] ELSE "dead"]
    /\ text' = [c \in Calls |-> <<>>]
    /\ UNCHANGED <<entry, fd>>

Step(c) == Open(c) \/ Write(c) \/ SyncFile(c) \/ Rename(c) \/ SyncDirectory(c) \/ Fail(c)
=============================================================================
