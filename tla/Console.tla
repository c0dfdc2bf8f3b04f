------------------------------- MODULE Console -------------------------------
(***************************************************************************)
(* The interactive console (app/interactive_session.cpp) beside other ffc  *)
(* processes that set the assessment mode (`ffc --mode`, OperatingModeStore *)
(* of security/operating_mode.cpp over write_private_file).                *)
(*                                                                         *)
(* The mode decides by which criteria a report judges the host, and lives  *)
(* in a file that is truncated and written in place: processes overwrite   *)
(* each other, fail, are killed or lose power between two system calls,    *)
(* and the console reads the file whenever it collects.                    *)
(*                                                                         *)
(* A file is the sequence of its letters, a letter the word it is of and   *)
(* its place; what matters of the two words is that "hostile" is longer.   *)
(* Texts and log records are left out, and of a collected posture all but  *)
(* its depth and mode, which module Posture has.                           *)
(***************************************************************************)
EXTENDS Integers, Sequences

CONSTANTS
    Savers,                 \* the processes that run `ffc --mode`, each once
    NormalSize, HostileSize \* the letters of the two words

ASSUME SizeAssumption ==
    NormalSize \in Nat \ {0} /\ HostileSize \in Nat /\ HostileSize > NormalSize

VARIABLES
    file,       \* the mode file: its letters, or NoFile
    durable,    \* what a power loss may leave of it
    first,      \* history: the mode it had before all saves
    pc, want,   \* per saver: its next system call, the mode it saves
    left,       \* per saver: the letters it has yet to write
    before,     \* history, per saver: the savers that had ended when it began
    menu, detail,    \* the local variables of run()
    state,      \* dashboard_state_: the depth and the mode of its posture
    view,       \* what the screen shows
    task,       \* the collection that runs, and the view it is for
    allowed     \* history: from the last selection to the end of its collection,
                \* the file could say Normal

saves   == <<file, durable, first, pc, want, left, before>>
session == <<menu, detail, state, view, task>>
vars    == <<saves, session, allowed>>

-----------------------------------------------------------------------------
(* The mode file. *)

Modes == {"Normal", "HostileNetwork"}

NoFile == <<<<"no file", 0>>>>
Size   == [Normal |-> NormalSize, HostileNetwork |-> HostileSize]
Hole   == <<"hole", 0>>
Word(m) == [i \in 1..Size[m] |-> <<m, i>>]

FallbackNormal == [mode |-> "Normal", status |-> "Invalid"]   \* a mutant

\* A file that is there and says nothing known is read as the stricter mode.
Fallback == [mode |-> "HostileNetwork", status |-> "Invalid"]

Parsed(content) ==
    CASE content = NoFile -> [mode |-> "Normal", status |-> "Defaulted"]
      [] content = Word("Normal") -> [mode |-> "Normal", status |-> "Available"]
      [] content = Word("HostileNetwork") ->
            [mode |-> "HostileNetwork", status |-> "Available"]
      [] OTHER -> Fallback

\* load() can also fail to read what is there.
Loads == {Parsed(file), Fallback}

Ended == {"ok", "failed", "dead"}
Saving(s) == pc[s] \notin Ended \cup {"idle"}

At(s, step) == pc[s] = step
Goto(s, step) == pc' = [pc EXCEPT ![s] = step]

\* What the file holds now may survive, until a later fsync settles it.
Hold(content) == file' = content /\ durable' = durable \cup {content}

Begin(s, m) ==
    /\ At(s, "idle") /\ Goto(s, "open")
    /\ want' = [want EXCEPT ![s] = m]
    /\ left' = [left EXCEPT ![s] = Word(m)]
    /\ before' = [before EXCEPT ![s] = {q \in Savers : pc[q] \in Ended}]
    /\ UNCHANGED <<file, durable, first>>

\* open(O_CREAT), without O_TRUNC.
Open(s) ==
    /\ At(s, "open") /\ Goto(s, "truncate")
    /\ Hold(IF file = NoFile THEN <<>> ELSE file)
    /\ UNCHANGED <<first, want, left, before>>

LeftLonger == file   \* a mutant: the file keeps the length it had

Emptied == <<>>

Truncate(s) ==
    /\ At(s, "truncate") /\ Goto(s, "write")
    /\ Hold(Emptied)
    /\ UNCHANGED <<first, want, left, before>>

Longest(a, b) == IF a >= b THEN a ELSE b

\* content with the letters written behind the first `at` ones, over what is there.
Overwritten(content, at, letters) ==
    [i \in 1..Longest(Len(content), at + Len(letters)) |->
        IF i \in at + 1..at + Len(letters) THEN letters[i - at]
        ELSE IF i <= Len(content) THEN content[i] ELSE Hole]

\* write_all: one write(2), of all that remains or less.
Write(s) ==
    /\ At(s, "write") /\ left[s] # <<>>
    /\ \E n \in 1..Len(left[s]) :
          /\ Hold(Overwritten(file, Size[want[s]] - Len(left[s]), SubSeq(left[s], 1, n)))
          /\ left' = [left EXCEPT ![s] = SubSeq(@, n + 1, Len(@))]
    /\ UNCHANGED <<first, pc, want, before>>

\* fsync and close; the save has succeeded.
Sync(s) ==
    /\ At(s, "write") /\ left[s] = <<>> /\ Goto(s, "ok")
    /\ durable' = {file}
    /\ UNCHANGED <<file, first, want, left, before>>

\* A system call fails and the save says so, or the process is killed.
Fail(s) == Saving(s) /\ Goto(s, "failed") /\ UNCHANGED <<file, durable, first, want, left, before>>
Crash(s) == Saving(s) /\ Goto(s, "dead") /\ UNCHANGED <<file, durable, first, want, left, before>>

Save(s) ==
    \/ \E m \in Modes : Begin(s, m)
    \/ Open(s) \/ Truncate(s) \/ Write(s) \/ Sync(s) \/ Fail(s) \/ Crash(s)

-----------------------------------------------------------------------------
(* The keyboard loop. *)

Menus == {"Main", "Readiness", "Monitor", "Firewall", "Network", "Evidence",
          "Settings", "Emergency"}

\* What a menu offers; the views of one zone field or another are one.
Offers == [
    Main |-> {},
    Readiness |-> {"readiness", "threats"},
    Monitor   |-> {"threats", "logs"},
    Firewall  |-> {"status", "zones", "drift"},
    Network   |-> {"listeners", "diagnostics", "metadata", "history"},
    Evidence  |-> {"threats", "readiness", "advisories", "logs"},
    Settings  |-> {"boundaries"},
    Emergency |-> {"unavailable"}]

Reports == {"readiness", "threats", "drift"}
Views   == (UNION {Offers[m] : m \in Menus}) \cup {"menu", "help", "goodbye"}

RefreshesDrift(v) == v = "drift"   \* a mutant

\* The views for which the posture is collected anew, and completely.
Refreshes(v) == v \in Reports

NoTask == [depth |-> "none", view |-> "none"]
Task(depth, v) == [depth |-> depth, view |-> v]

Reading == task = NoTask /\ view # "goodbye"

Show(m, d, v) == menu' = m /\ detail' = d /\ view' = v

Same == UNCHANGED <<state, task>>

Quit == Reading /\ Show(menu, detail, "goodbye") /\ Same

Emergency == Reading /\ Show("Emergency", FALSE, "menu") /\ Same

Help == Reading /\ Show(menu, TRUE, "help") /\ Same

\* [R]: a landing collection, whatever is open.
Refresh ==
    /\ Reading /\ Show(menu, FALSE, "menu")
    /\ task' = Task("Landing", "menu") /\ UNCHANGED state

\* [B] leaves a detail view first, a submenu next.
Back ==
    /\ Reading /\ (detail \/ menu # "Main") /\ Same
    /\ Show(IF detail THEN menu ELSE "Main", FALSE, "menu")

Enter ==
    /\ Reading /\ ~detail /\ menu = "Main" /\ Same
    /\ \E m \in Menus \ {"Main"} : Show(m, FALSE, "menu")

\* A view of the menu, from the posture at hand or from a new one.
Select ==
    /\ Reading /\ ~detail
    /\ \E v \in Offers[menu] :
          /\ Show(menu, TRUE, IF Refreshes(v) THEN "menu" ELSE v)
          /\ task' = IF Refreshes(v) THEN Task("Complete", v) ELSE NoTask
    /\ UNCHANGED state

\* Anything else is refused: a detail view stays, a menu is shown again.
Unrecognised == Reading /\ Same /\ Show(menu, detail, view)

Key == Quit \/ Emergency \/ Help \/ Refresh \/ Back \/ Enter \/ Unrecognised

\* refresh(): the collection is done, and took the mode somewhere on the way.
Collect ==
    /\ task # NoTask /\ task' = NoTask
    /\ \E loaded \in Loads :
          state' = [depth |-> task.depth, mode |-> loaded.mode]
    /\ view' = task.view
    /\ UNCHANGED <<menu, detail>>

-----------------------------------------------------------------------------
(* When the file may say Normal: it did at first and no save of the stricter *)
(* mode succeeded, or a save of Normal did not end before one that did.      *)

HostileSaves == {s \in Savers : want[s] = "HostileNetwork" /\ pc[s] = "ok"}

NormalMayHold ==
    \/ first = "Normal" /\ HostileSaves = {}
    \/ \E s \in Savers : /\ want[s] = "Normal" /\ pc[s] # "idle"
                         /\ \A h \in HostileSaves : s \notin before[h]

Init ==
    /\ file \in {NoFile} \cup {Word(m) : m \in Modes} /\ durable = {file}
    /\ first = Parsed(file).mode
    /\ pc = [s \in Savers |-> "idle"] /\ want = [s \in Savers |-> "Normal"]
    /\ left = [s \in Savers |-> <<>>] /\ before = [s \in Savers |-> {}]
    /\ menu = "Main" /\ detail = FALSE
    /\ state = [depth |-> "none", mode |-> "Normal"]
    /\ view = "menu" /\ task = Task("Landing", "menu")
    /\ allowed = NormalMayHold

Operate ==
    \/ Select /\ UNCHANGED saves /\ allowed' = NormalMayHold
    \/ (Key \/ Collect) /\ UNCHANGED <<saves, allowed>>

SetMode == (\E s \in Savers : Save(s)) /\ UNCHANGED session
           /\ allowed' = (allowed \/ (task # NoTask /\ NormalMayHold'))

\* The machine stops: what was saved and not synced may be lost.
PowerLoss ==
    /\ file' \in durable /\ durable' = {file'}
    /\ pc' = [s \in Savers |-> IF Saving(s) THEN "dead" ELSE pc[s]]
    /\ view' = "goodbye" /\ task' = NoTask
    /\ UNCHANGED <<first, want, left, before, menu, detail, state, allowed>>

Next == Operate \/ SetMode \/ PowerLoss

Spec == Init /\ [][Next]_vars

-----------------------------------------------------------------------------
Letters == {Hole} \cup UNION {{Word(m)[i] : i \in 1..Size[m]} : m \in Modes}
IsContent(c) == c = NoFile \/ (Len(c) <= HostileSize /\ \A i \in 1..Len(c) : c[i] \in Letters)

\* Every variable has its type: among them, the file never holds more letters than
\* the longer word, and a saver's unwritten letters are an end of its word.
TypeOK ==
    /\ file \in durable /\ \A c \in durable : IsContent(c)
    /\ first \in Modes /\ want \in [Savers -> Modes]
    /\ pc \in [Savers -> {"idle", "open", "truncate", "write"} \cup Ended]
    /\ \A s \in Savers : \E n \in 0..Size[want[s]] :
          left[s] = SubSeq(Word(want[s]), n + 1, Size[want[s]])
    /\ before \in [Savers -> SUBSET Savers]
    /\ menu \in Menus /\ detail \in BOOLEAN
    /\ state \in [depth : {"none", "Landing", "Complete"}, mode : Modes]
    /\ view \in Views /\ task \in {NoTask} \cup [depth : {"Landing", "Complete"}, view : Views]
    /\ allowed \in BOOLEAN
    /\ view \in Views \ {"menu", "goodbye"} => detail

\* Once `ffc --mode hostile` has reported success, no report judges the host by
\* the normal criteria until somebody asks for them: whatever of later saves is
\* cut short by a failure, a kill or a power loss, the file is not read as Normal.
HostileHeld == Parsed(file).mode = "Normal" => NormalMayHold

\* A save that reported success, and that no other save overlapped or followed,
\* is what every later load finds, also after a power loss.
SavedModeHeld ==
    \A s \in Savers :
        pc[s] = "ok" /\ (\A q \in Savers \ {s} : pc[q] = "idle" \/ q \in before[s]) =>
            Parsed(file) = [mode |-> want[s], status |-> "Available"]

\* A report on the screen is made from a complete collection that was begun after
\* the operator asked for it, so it judges by criteria that were in force since
\* then, and not by those the console started with hours ago.
ReportJudgedAsSaved ==
    view \in Reports => state.depth = "Complete" /\ (state.mode = "Normal" => allowed)
=============================================================================
