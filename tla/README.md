# Fedora Firewall Control: verification project

Fedora Firewall Control (`ffc`) collects evidence about a Fedora host's
firewall with read-only commands, judges it, and shows the judgement in a
terminal console, as command-line reports with exit codes, and in a local web
dashboard. It changes nothing on the host. What can go wrong is therefore of
one kind: it may say something that is not so, say it too late, lose what it
recorded, or hang. The modules here state what each part promises against those
hazards, TLC checks the promises on small instances, and TLAPS proves the
central ones for every value of the constants.

All paths below are relative to the repository.

1. [Inventory](#1-inventory)
2. [Modules and their correspondence to the code](#2-modules-and-their-correspondence-to-the-code)
3. [Runs: what is checked, bounds, fairness](#3-runs-what-is-checked-bounds-fairness)
4. [Disagreements between code and documents](#4-disagreements-between-code-and-documents)
5. [Theorems](#5-theorems)
6. [Assumptions and what is not modelled](#6-assumptions-and-what-is-not-modelled)
7. [Plan](#7-plan)
8. [How to run](#8-how-to-run)

## 1. Inventory

For each part: its state, its operations, with whom it interacts, what is hard
about it, and what makes it correct. Hazards are listed line by line in
`PROJECT.json`.

### Native program (C++)

| Part | State | Operations | Hard behaviour | Correct when |
|---|---|---|---|---|
| `ProcessCommandRunner` (`src/core/command_runner.cpp`) | descriptors, captured bytes, flags of one run; the kernel's pipes and process group | `run`, `run_with_input`: fork, pump three pipes under a deadline, kill the group, drain, reap | a command that forks, leaves its group, keeps pipes, closes them early, floods, never reads; every call may fail; two deadlines race with data | exit code 0 means nothing was lost; every failure has its cause; no survivor in a killed group; the loop always ends |
| Private storage (`src/core/secure_storage.cpp`) | files and directory entries | `write_private_file` (append or truncate), `replace_private_file_atomically` | partial writes, failures, kills and power loss between system calls; several processes | replacement is whole or did not happen; success means durable |
| `LoggingEngine` (`src/logging/`) | one lock file and one log per channel | `record`: lock, stat, append or rotate | processes race for the lock; a holder dies; disk full | the log stays bounded and parsable; a reported record is there |
| `LocalLogAnalyzer` (`src/logging/analysis/`) | none | read and count entries | torn entries | only the splitting of lines matters to other parts |
| `NetworkHistoryStore` (`src/network/network_history.cpp`) | one history file, **no lock** | `append` (read, then append or compact and replace), `read_recent` | overlapping captures; compaction by count and by bytes | no observation lost by captures that do not overlap; bounds kept |
| `FirewalldCommandBackend` and parsers (`src/firewall/firewalld_backend.cpp`, `firewall_state.cpp`) | the `FirewallState` under collection | eleven commands with early returns | the host changes between commands; commands fail or answer something unexpected, in part | see the posture properties |
| `DefensivePostureCollector` and inspectors (`posture_inspector.cpp`, `security_signals.cpp`, `socket_inspector.cpp`, `vpn.cpp`, `network_manager.cpp`) | adds sockets, journals, devices, time, journald, mode | `inspect(depth)` | journals are read before journald is asked for | unknown evidence is never reported as safe |
| Readiness, threat assessment, dashboard snapshot (`readiness.cpp`, `threat_assessment.cpp`, `dashboard_state.cpp`) | none: functions of the collected state | levels and exit code; findings; risk, gaps, blockers, reviews | three separate pieces of code judge the same state | they do not contradict each other; clean was true at some moment |
| Screens of a posture (`ui/posture_renderer.cpp`) | none | seven screens | zero of a failed listing looks like zero | what is shown as safe was so |
| `OperatingModeStore` (`security/operating_mode.cpp`) | one file, written in place | `save`, `load` | concurrent saves, cut writes, power loss | a saved hostile mode is not weakened by accident |
| `InteractiveSession` (`app/interactive_session.cpp`) | menu, open view, last `DashboardState` | keys, collections | runs for hours while the mode changes elsewhere | reports come from a new, complete collection |
| `OperationsConsole`, `CommandExecutor` (`app/`) | none | dispatch, log records, steps of each action, exit codes | any record and any step may fail, and the process be killed, in any combination | nothing is done unrecorded; the shortfalls it looks at are recorded; what a success was to store is stored |
| Credentials, network metadata, evidence, diagnostics, advisories (`security/`, `network/`) | a key file, the history | steps of the actions above: queries, a lookup, enrichment, storage | an earlier step that fails leaves out later ones; echo is off while the key is typed | the above; a saved observation carries the tunnel state of its scan |
| JSON writers (`ui/dashboard_json*.cpp`), recommendations | none: functions of the posture | two documents | null, false and 0 mean three different things | a value that denies an exposure was so |
| Port catalogue and intelligence, other renderers | none | tables, layout | | not modelled, see section 6 |

### Web service (TypeScript) and browser pages

| Part | State | Operations | Hard behaviour | Correct when |
|---|---|---|---|---|
| `TokenBucketRateLimiter` (`web/src/server/request-rate-limiter.ts`) | tokens, time of the last refill | `take` | a clock that goes back; rounding of Retry-After | grants are bounded; Retry-After suffices under a clock that never went back |
| `SnapshotService` (`snapshot-service.ts`) | `#cached`, `#inFlight` | `getSnapshot` | requests interleave at awaits; failures shared; order of promise jobs | one collection at a time; answers of bounded age; everyone answered |
| `FfcRunner`, `SchemaValidator` (`ffc-runner.ts`, `schema-validator.ts`) | one child process, its pipes, the timer of `execFile` | run, validate | the timer may fire after the child exited and before its output was read | success brings a whole snapshot; an error names what happened; it is over in time |
| Web API (`app.ts`, `index.ts`) | phase of the server, registered signal handlers | hooks, limiter, two snapshot routes, start, shutdown | signals while clients wait, handler limit races a late answer | processes start no faster than the limiter grants; nobody admitted is forsaken; a shutdown ends |
| Browser pages (`web/src/client/dashboard.js`, `section-page.js`) | refresh timer, `refreshing`, `autoRefreshEnabled`, shown snapshot, banner | `refresh`, timer, pause, visibility, keys | all of these in any order with an answer in flight | a watched page collects again and again, a hidden one does not, nothing old shown as current |

### How the parts interact

```
 browser pages --HTTP--> Web API (limiter) --> SnapshotService --> ffc child
                                                                     |
 console / CLI ------------------------------------------------------+
      |                                                              v
      |             DefensivePostureCollector -> FirewalldCommandBackend
      |                      |                         |
      |                      +---- ProcessCommandRunner (every command)
      v                      v
 OperatingModeStore    readiness / threats / dashboard -> screens, JSON
 NetworkHistoryStore   LoggingEngine      (all through private storage)
```

Calls inside one `ffc` are sequential. Concurrency is between `ffc` processes
(which share the log, the history and the mode file), between `ffc` and the
commands it runs, between `ffc` and the host that changes under it, and between
the callbacks of the service's and the pages' event loops.

## 2. Modules and their correspondence to the code

| Module | Models | Uses |
|---|---|---|
| `CommandRunner`, `CommandRunnerProofs` | one run of one command | |
| `PrivateStorage` | one private file and the calls that store into it | |
| `LogStore`, `LogStoreProofs` | `record()` of several processes on one log | EXTENDS `PrivateStorage` |
| `NetworkHistory`, `NetworkHistoryProofs` | captures of several processes on one history | EXTENDS `PrivateStorage` |
| `RateLimiter` | the token bucket (its proofs are in `WebServerProofs`) | |
| `SnapshotService` | the cache and its requests (its proofs are in `WebDashboardProofs`) | |
| `WebDashboard`, `WebDashboardProofs` | pages over the service | EXTENDS `SnapshotService` |
| `Collection` | abstract: what the service relies on when it awaits a collection | |
| `NativeRun` | one collection after the other as `ffc-runner.ts` runs them (its proofs are in `WebServerProofs`) | refines `Collection` |
| `WebServer`, `WebServerProofs` | start, limiter, both snapshot routes, signals, shutdown, exit | EXTENDS `RateLimiter` |
| `Assessment` | the three judgements, as operators on a state | |
| `Posture` | one collection over a changing host | EXTENDS `Assessment` |
| `Documents` | recommendations, the two JSON documents, what the pages make of them | EXTENDS `Posture` |
| `PostureViews`, `PostureProofs` | what each screen, document and page shows as safe | EXTENDS `Documents` |
| `Console`, `MCConsole`, `ConsoleProofs` | console, mode file and other `ffc --mode` processes | |
| `Operations`, `OperationsProofs` | one process from command line to exit code: records, steps, failures | |

The layers meet by what one promises and the next assumes. `NativeRun` shows
that a native collection implements `Collection`: over within its limit, its
process gone, a whole snapshot or a failure. `SnapshotService` has the cache and
the order of promise jobs over collections of that kind; `WebServer` has the
limiter, both services reduced to a fresh cache and a running process, and the
shutdown; `WebDashboard` puts pages over the detailed service. On the native
side `Operations` takes a posture collection and a file write as one step each,
which `Posture`, `PrivateStorage`, `NetworkHistory` and `Console` have in detail.

`PROJECT.json` maps every definition to the lines it stands for. Definitions
marked *a mutant* are deliberately wrong variants of the one next to them; no
specification uses them. Each is substituted for the right one to see that the
property it is listed with notices.

**CommandRunner.** `pc` follows `run_with_input`: launch, the loop of
`communicate_with_process` (`top` tests the deadlines, `poll` is the system
call, `handle` serves one announced descriptor after another), `wait` is
`waitpid`. `flags` are the booleans of `CommunicationResult`, `open` the
descriptors not closed yet and `openDescriptors` the loop's own count of them,
which is a separate variable in the code and could disagree. The command is the
adversary: any process of it writes, reads, closes, forks, leaves the group or
exits at any moment. Data are byte counts.

**PrivateStorage, LogStore, NetworkHistory.** One action per system call, each
of which may fail; a process may be killed between any two; power may be lost,
which keeps what was synced, any part of what was not, and the directory entry
last made durable. `LogStore` adds the lock of `logging_engine.cpp`, the size
test and rotation; `NetworkHistory` adds the read that decides and the
compaction by records and bytes, with no lock, as in the code.

**Assessment, Posture, PostureViews.** `o` is the `FirewallState`: for each of
nineteen observations a status and a value, starting from the code's member
initialisers. `Order` is the order in which the code runs its commands,
`Skipped` its early returns, `Faulty` the ways in which a command fails or
answers something that is not, or only partly, recognised: `Noticed` are those
of which a status tells, `Unnoticed` those that count as available because the
parser skips lines that it does not know (`Readings`: a line or an entry of a
listing, the bindings of some zones, sockets, devices, tunnels). `misread`
remembers the latter. `host` is what is true, and
may change between two commands; `seen` remembers every host there was during
the collection, so that a property can say "at some moment". `Assessment`
translates each readiness check with its level, each threat finding, and the
dashboard's gaps, blockers, reviews and risk. `Documents` has the members of
both JSON documents (a member that may be null is a set with at most one
element), the priority of recommendations, and the formatting of the pages
where it decides between yes, no and unknown. `PostureViews` gives, for each
screen, the items it prints in the colour of success, and for each document and
page the values that deny an exposure.

**Console.** The mode file is a sequence of letters, truncated and written in
place by two other processes; the console's keyboard loop has an action per
kind of key, and `Collect` is the body of `refresh`. `allowed` is a history of
whether the file could say Normal since the report was asked for.

**Operations.** `pc` follows `OperationsConsole::run` and, for an interactive
process, `InteractiveSession::run`: a record at each point where the code writes
one, and in between the steps of the action in hand. `Steps` is what each
action does and `Place` in which order: `todo` is a set, and the step in hand is
the one of it with the least place. `Skips` is what the code leaves out after a
failure;
`Code` is the exit code of each branch of `CommandExecutor::execute`. A step
that failed, or in which the process was killed, may have had its effect. The
four logs are read one by one, and the analysis is available when any of them
was (`LogsAvailable`). `FellShort` lists, step by step, the shortfalls that the
code looks at; `unmet` remembers every failed part, also those it does not.
Requests are numbered so that a property can say which record goes with which
effect.

**RateLimiter.** A token is `Window` units and a unit of time refills
`Capacity` units, which makes the fractions of the code integers.

**SnapshotService, WebDashboard.** Time is relative: variables hold ages. A
promise is the `outcome` of the request that started the collection; callers
resume in the order in which they awaited, before any other event.
`WebDashboard` adds pages, which are some of the requests (`Pages`), to those of
everybody else (`Others`): one action per listener or timer callback and one for
the rest of `refresh` after its await.

**NativeRun, Collection.** The child, its two pipes, the timer and the exit
notification are separate actors, and `Kill` is what `execFile` does on a limit:
it destroys the pipes and signals a child that may be gone already. `Settled` is
the rest of `runSnapshot`: the verdict of Node, then the checks in their order,
then the validator. `names` is whether the child's standard error contains the
word maxBuffer, for which the message of a failed process is searched
(`MessageNamesLimit`). Node's `execFile` is modelled from how it is used here and
from its documented contract, and marked external.

**WebServer.** `Take` of `RateLimiter` is part of `AskSnapshot`, as the hook runs
before the handler of both routes. A server that closes answers 503 to what
arrives, waits for the requests it admitted, and the process ends when no child
is left. The handlers are registered before `listen` is called, so a signal runs
`shutdown` while listening is pending, too. A second signal of a kind finds no
handler, for `process.once` removed it, and ends the process at once.

## 3. Runs: what is checked, bounds, fairness

Every run passes but the two that section 4 lists first. Deadlock is checked except in the
posture, console and operations runs, where a finished collection, a console
that was left or a process that ended may stop. Where a `TypeOK` has a theorem
it is proved (section 5) and no run repeats it; in the other modules it
documents the variables.

**`command_runner`** (`CommandRunner.cfg`): a leader and one descendant, pipes
and buffer of one byte, a capture limit of one byte, at most two bytes written
to each stream and one byte of input.
One descendant is enough for every role the code distinguishes (in the group,
out of it, holding a pipe); a limit of 1 with up to 2 bytes written has streams
below, at and above the limit. For safety the theorems remove all bounds.
- `SuccessIsComplete`: 0 means that both streams were captured whole, all input
  was delivered and nobody was killed.
- `FailureHasCause`: a time-out, truncation or rejected input is only reported
  when it happened.
- `NoGroupSurvivor`: after the kill no process of the group lives.
- `ReadNeverBlocks`: the descriptors block, so no read may happen that `poll`
  did not announce; otherwise the deadline itself is suspended.
- `PumpEnds`, `CutRunReturns` (liveness): the loop ends even if a descendant
  outside the group keeps a pipe for ever, and a run that was cut returns.
- Fairness: weak fairness of the runner's own steps and of the two deadlines
  (the thread is scheduled, time passes). Nothing is assumed of the command.

**`snapshot_service`**: three request slots, each used again once done, TTL 2,
collections up to 3, handler limit 2, so that the handler's 503 comes before the
collection's end. Three requests give a starter, a joiner and a latecomer that
meets the settled collection between the resumptions of the other two.
`SingleFlight`: collections never overlap. `EvidenceAgeBounded`: no answer is
older than a cache lifetime and the longest collection. `CacheNeverRegresses`:
the cache is only renewed by later evidence, and never by a failure.
`EveryoneAnswered`. Fairness: weak, of resumed callers (the event loop runs its
microtasks) and of the end of collections (`NativeRun!ImplementsCollection`).

**`native_run`**: a document of two chunks, a standard output limit of 3, a
standard error limit of 1, a time limit of 2 served at most 1 late. Output is
thus shorter than a document, a document, at the limit and above it, and the
timer fires before, during and after the reading of the pipes.
- `SnapshotIsWhole`: success brings all that a process wrote which ended well by
  itself, even when the timer destroyed the pipes first. It holds because no
  proper part of a JSON object is JSON; the code has no other test for it.
- `CauseIsTrue`: the code of an error names something that happened in this
  run, not in a racing one. For `ffc_output_limit` that is a limit exceeded, or
  a failed child whose standard error contains the word maxBuffer.
- `ImplementsCollection`: a run implements `Collection`, with its liveness.
- Fairness: weak, of the passing of time, of a timer that is due and of the
  callback once the child is gone and its pipes are closed. Nothing is assumed
  of the child or of the order in which its output is read.

**`web_server`**: two clients, both versions, capacity 2, window 5, a second of 2
units, clock readings up to 4 in both directions: two grants empty the bucket,
and a token is refilled after less than three units. Two clients give a starter
and a joiner, and one that is turned away while another waits.
- `RetryAfterSuffices`: coming back Retry-After seconds after the refusal is
  granted, unless somebody else took the token, or the clock stood behind an
  earlier request at the refusal. `performance.now()`, which the service uses,
  never does; under an injected clock that does, nothing is refilled until it
  has caught up, and the announced wait is too short by as much.
- `ProcessesBounded`: over both versions, caches and failures, native processes
  start no faster than one bucket grants requests.
- `NobodyForsaken`: whoever waits has a process to wait for; only an insisting
  operator (a second signal) cuts off somebody admitted; no process outlives the
  server.
- `ShutdownEnds` (liveness). Fairness: weak, of closing and exiting once nothing
  is left to wait for, and of the end of each collection, which
  `ImplementsCollection` justifies.

**`log_store`**: three processes, entries of two chunks, a limit of 5: two
entries fit and the third rotates. `LogBounded`: no record makes the log larger
than its limit. `SuccessParsable`: an entry reported stored stays until a
rotation, in one piece and as a line of its own, unless it follows what a failed
or killed record left behind. `RotationWhole`: a rotated log is never found
without its mark and first entry. `RecordReturns`: whatever happens to a holder,
the lock is not left behind. Fairness: a process that holds the lock goes on,
and a free lock is granted to someone who waits.

**`network_history`**: three captures, one of them two chunks long, at most 4
records and 6 chunks, starting from histories below, at and beyond the bounds,
and from one too large to be read. `SavedHeld`: captures that did not overlap
keep every observation reported saved. `ExcessBounded`: a history exceeds its
bounds by no more than the record that compacted it and one for each overlapping
capture.
With overlap observations can be lost, for the code takes no lock; no document
promises otherwise.

**`posture`** (module `PostureViews`, `Posture.cfg`): two zones, two devices
(one of them wireless), one source, both depths, and one disturbance: a change
of the host between two commands, or one command with a wrong answer. The
starting hosts are: nothing to report; one edit away from that, saved or not;
and every spread of traffic over the zones with one zone that accepts or
forwards. The properties:
- `CleanIsTrue`: a readiness report that exits with 0 was true at some moment of
  the collection, unless a line of the active zones, the runtime listing or the
  devices (`Relied`) was skipped unnoticed.
- `ReadyIsTrue`: so was, under the same condition, a dashboard with risk "Ready"
  and no policy gap.
- `ViewsAgree`: exposures and alerts of the threat assessment, and blockers and
  reviews of the dashboard, never meet a clean readiness report (but for
  forwarding among fewer than two members, which only the dashboard reviews).
- `UnknownNeverClean`: with any observation missing or partial the report is
  not clean.
- `SafeIsTrue`: the same for every item that a screen, a document or a page
  shows as safe, per zone where it shows zones, unless a line of the answers
  that this item rests on (`RestsOn`, `RestsOnZone`) was skipped unnoticed.
- `RecommendationFits`: the recommendation put first is about what makes the
  risk, panic mode before everything.

One change is a real bound, not a convenience: **with two changes
(`MaxChanges = 2` and `MaxDisturbances = 2`) `CleanIsTrue` is violated**, by a
host whose binding and policy are exchanged between the query for active zones
and the listing of zones. No document promises a consistent snapshot, so this is
a limit of the design and no finding. Clean reports and "Ready" dashboards do
occur in the run, so the properties are not vacuous. The condition on skipped
lines is needed: without it `PostureRecognised.cfg` (section 4) shows an item as
safe that never was.

**`console`** (`MCConsole`, symmetric savers): two processes that save, words of
2 and 3 letters, so that one is longer and each can be cut. `HostileHeld`: after
`ffc --mode hostile` succeeded, no failure, kill, power loss or race of writes
makes the file say Normal unless somebody asked for Normal. `SavedModeHeld`: a
save without overlap is what later loads find. `ReportJudgedAsSaved`: a report
comes from a complete collection begun after it was asked for.

**`operations`**: every action of the command line, consoles of two selections
(`MaxRequests = 2`), one change of the tunnel (`MaxChanges = 1`). Two selections
are what a failure and a later request need to be told apart; one change makes
the tunnel differ before, during and after a scan.
- `EffectRequested`: nothing is done that the logs do not say was requested,
  wherever the process is killed, or the operator was told that records are not
  kept.
- `FailureRecorded`: a request that fell short in one of the ways that the code
  looks at (`FellShort`: a missing tool, a prompt, a store, a query, the look-up
  of the address, all four logs, what `--status` and `--readiness` report)
  leaves an error record or that warning. Other failures leave none, see section
  4.
- `SuccessStores`: a command that exits with 0 has stored its key, mode or
  observation, whatever failed before, and so has a capture in the console that
  left neither an error record nor a warning.
- `EchoRestored`: the prompt for the key leaves the terminal showing what is
  typed, or the failure to restore it is reported. A kill at the prompt is
  outside it, as the code installs no handler.
- `FlagAsScanned`: a saved observation carries what the last scan told of the
  tunnels, however old, and no older scan. A scan that failed or was not
  recognised is saved as none, which says nothing of the tunnel; a tunnel
  interface counts up or down, as in the code.

**`web_dashboard`**: one page of either kind and one other client, period 4,
TTL 1, collections up to 2, handler limit 3. `AutoLive`: a visible, unpaused
page is refreshing or has its timer set, any other has none. `ShownAgeBounded`,
and the liveness `WatchGoesOn`. The 503 of a handler over its limit has no action
here: it is never due (`HandlerInTime`, section 5). Fairness: strong for the
passing of time (time passes whatever an operator presses), weak for due timers,
deliveries, arrivals and the server's turns. One page is enough because pages
only meet in the cache, where the other client stands for all of them.

## 4. Disagreements between code and documents

Each has a configuration in which TLC refutes what the document says. The first
two are runs of `PROJECT.json`.

| Run | Property | What the code does | What the document says |
|---|---|---|---|
| `command_runner_unbounded` | `RunReturns` | `waitpid` (`src/core/command_runner.cpp:350`) has no deadline: a command that closes its output and runs on is waited for without bound | `docs/ARCHITECTURE.md:37`: each command has "a bounded execution deadline" |
| `posture_known` | `KnownBeforeSafe` | the compact home screen, both documents and the pages deny what the applicable zones open without testing that these are known (`src/ui/posture_renderer.cpp:133`, `src/ui/dashboard_json.cpp:104`), and one recognised zone makes a listing available (`src/firewall/firewalld_backend.cpp:34`), so that a field not recognised in both listings reads as off and readiness is clean | `README.md:83`: a false or empty value is displayed as safe only when its query succeeded and its output is recognised |

| Configuration | Property | What the code does | What the document says |
|---|---|---|---|
| `PostureRecognised.cfg` (module `PostureViews`) | `RecognisedBeforeSafe` | most parsers skip a line that they do not know without telling: keys of a zone (`src/firewall/firewall_state.cpp:45`), bindings while any other is recognised (`src/firewall/firewalld_backend.cpp:117`), lines of `ss` (`src/security/socket_inspector.cpp:66`, available at line 112), `nmcli` (`src/network/network_manager.cpp:11`) and `ip link` (`src/network/vpn.cpp:19`); what the line told is then shown as off, 0 or absent | `README.md:83`, as above: safe only when "its command-specific output is recognized" |
| `NetworkHistoryBytes.cfg` (`NetworkHistory`) | `BytesBounded` | compaction keeps old records up to the byte bound and then adds the new one (`src/network/network_history.cpp:84`) | `docs/DEFCON_OPERATIONS.md:17`: "the newest 512 records within a 256 KiB bound"; `docs/HARDENING.md:31`: "within 256 KiB" |
| `NativeRunLimit.cfg` (`NativeRun`) | `OutputLimitMeant` | any error whose message matches `/maxBuffer/iu` is reported as `ffc_output_limit` (`web/src/server/ffc-runner.ts:172`), and the message of a failed process contains its standard error | `web/src/server/errors.ts:17`: "The native posture snapshot exceeded its output limit." |
| `OperationsErrorLog.cfg` (`Operations`) | `ErrorLogComplete` | a posture collection of the console that found no firewalld or could not scan the interfaces (`src/app/interactive_session.cpp:32-38, 144-157`), a failed enrichment (`src/network/network_metadata.cpp:142-157`, `network_evidence.hpp:12`) and some unreadable logs of the four (`src/logging/analysis/log_analysis.cpp:66-75`) leave no error record | `README.md:89`: "`error.log` records failed actions and unavailable interactive dependencies." |

`command_runner_unbounded` needs fairness of the runner to refute anything: the
counterexample is a run in which the runner would go on if it could.
`posture_known` takes one query that fails; the clean readiness report takes two
disturbances, the same field unrecognised in the runtime and the permanent
listing, because readiness compares them (`MaxDisturbances = 2`).

An oversized history is refused by `read_recent`, which reads no more than 256
KiB. The next capture compacts it, fills the bound again and adds its record, so
it may well stay oversized. `ExcessBounded` states the bound that does hold.
The four configurations of the second table are the other side of conditions
that passing properties state: `SafeIsTrue`, `CleanIsTrue` and `ReadyIsTrue` of
the first, `ExcessBounded`, `CauseIsTrue` and `FailureRecorded` of the others.

## 5. Theorems

All hold for every value of the constants that satisfies the named assumptions
of the modules (sizes are natural numbers, names are distinct, and
`PagesAssumption` has the configured order of the limits); five theorems
have a hypothesis more, `CacheTtl # 0`, `MaxChanges <= 1` or `Room`, given
below.

**CommandRunner** (`CommandRunnerProofs`): `TypeOK`, `NoGroupSurvivor`,
`SuccessIsComplete`, `FailureHasCause`, `ReadNeverBlocks`, for any limits, pipe
capacity and number of processes. None is inductive alone. The invariant is
built in four layers, each using the ones before it:
- `Shape`: types; `CountOK`, the loop's counter is the number of descriptors it
  has not closed (it could otherwise end the loop with data unread, or never);
  `StageOK`, what each stage of the run leaves for the next; `ReventsOK`, only
  open descriptors are handled, and only during a pass.
- `GroupInv`: after the kill the group has no living member, and nobody is in a
  group before he is born, so none can be forked into it afterwards.
- `FlowInv`: until a kill, what was written is captured or still in the pipe
  (`FlowOK`); an output is only closed once it is empty and has no writer left
  (`DrainedOK`); and what the kernel reported still holds when the descriptor's
  turn comes (`ReportOK`), which is why no read blocks.
- `VerdictInv`: a kill leaves a flag that nothing takes back; without a flag the
  input is only closed when it was sent; exit code 0 means no flag.

**SnapshotService** (`WebDashboardProofs`): `SingleFlight`,
`EvidenceAgeBounded`, `InFlightIsRunning`, for any number of requests and any
limits. `FlightOK`: what runs is what `inFlight` names, and what it names runs
or is about to be resumed by its leader. `TurnOK`: a settled promise no longer
runs, only its callers resume, among them the leader while `inFlight` still
names it. `EvidenceAgeBounded` is inductive once these are known.
`CacheNeverRegresses` is an action property and needs `StaleOK`: a collection
only runs once the cache has expired and the cache ages with it, so what it
holds is by a whole lifetime older than what the collection brings. It needs a
lifetime above zero, `CacheTtl # 0`: with 0 a second collection within the same
moment would renew the cache without newer evidence. The configured
`SNAPSHOT_CACHE_TTL_MS` is 2000 (`src/web/src/server/config.ts:13`).

**WebDashboard** (`WebDashboardProofs`): `AutoLive`, `ShownAgeBounded` and
`HandlerInTime`, for any number of pages and other clients, any period, lifetime
above zero and limits with that of the handler above that of a collection. A
step of the pages is a step of the service, the reading of an answer, or leaves
the service alone (`ServedStep`), so the service's invariant is reused. `InTime`
says that whoever waits awaits a collection that runs or is to be resumed from
it, and came no earlier than the collection began. `AutoLive` is inductive with
the types. `ShownOK` adds to the age of what is shown the time left on the timer:
the sum is bounded when an answer is rendered, because `EvidenceAgeBounded`
holds beneath, and stays while time passes.

**LogStore** (`LogStoreProofs`): `TypeOK` (with it, that exactly the record that
has decided and not ended holds the lock) and `LogBounded`, for any number of
processes, entry size and limit. `FilesOK` extends the bound to every file,
`RoomOK` says that what a record has left to write still fits behind what is in
its file, and `FreshOK` that nobody touches the replacement of a record that
has not decided. The lock is what makes the size that was read still true.
`SuccessParsable` and `RotationWhole` rest on a second invariant, `LinesInv`,
about what is in the files: where a record's entry stands while it is written
(`CallOK`), what a file ends with when nobody writes it (`TailOK`), and that a
replacement the path may lead to, now or after a power loss, is complete and
synced (`Settled`). A torn entry of a failed or killed call is what `TailOK`
allows for; an entry that follows one continues its line and is still whole.

**NetworkHistory** (`NetworkHistoryProofs`): `TypeOK` and `ExcessBounded`, for any
number of captures, any long records and any bounds, and `SavedHeld` when the
records of all captures together fit the bounds (`Room`). No lock makes a size that
was read still true, so the invariant, `HistoryInv`, charges each capture that
has decided and not written to the overlap it is counted in. `Whole` is what a
file will hold once its replacement is written; `Due` and `Left` are the
captures that may yet append to it and the chunks they have left. `ExcessOK`
bounds `Whole` with `Due` and `Left` for every file that the path leads to, may
lead to after a power loss, or is about to lead to: a write moves chunks from
`Left` to `Whole`, a rename moves a file from the last kind to the first, and a
capture that begins either finds room and nobody else at work, or adds itself
and all who are to `overlapped`. `OwnOK` (nobody else writes a replacement that
is not renamed) and `TextOK` (of what an appending capture has left, only the
last chunk ends a line) are what the count of lines needs. That `Retained` fits
(`RetainedFits`) follows from its choice having a value, which is the
well-ordering of the numbers (`Least`).
`SavedHeld` has an invariant of its own, `SavedInv`, while nothing overlapped:
one capture at most is at work (`Alone`); each saved record is wholly in what
the path leads to and in what survives a power loss (`Kept`); and the one at
work plans a file that has all of them and its own (`Coming`). That a record is
in a file is not inductive, since compaction may cut it off. `StandsAt` says
what keeps it: it begins a line, and behind its beginning there are no more
lines, and no more chunks for each, than captures have begun. A line break that
closes a torn record counts for the capture that left it, a part of a file
needs no more than the whole (`StandsPrefix`), the next record adds one
(`StandsBehind`), and with room `Retained` then cuts before it
(`StandsRetained`).

**Posture, Documents, PostureViews** (`PostureProofs`), for any zones, devices
and source bindings and any number of disturbed answers. `ViewsAgree` and
`RecommendationFits` hold in every state, reachable or not: they compare what
three functions make of the same evidence. `UnknownNeverClean` holds however
often the host is changed. `CleanIsTrue`, `ReadyIsTrue` and `SafeIsTrue` say
that a view was true of one moment and are proved for `MaxChanges <= 1`, the
bound beyond which the first is false (see the run), and for what rests on no
answer that was misread unnoticed. `CollectionInv` says that a known answer that
is not misread was true of a host that was seen (`Told`), in the order of the
commands. `OneFacet` says that all hosts that were seen differ in one facet at
most. An answer that does not read this facet is true of all of them, only one
that a view rests on can read it, and the host this one was given of therefore
fits all answers (`OneMoment`).

**Console** (`ConsoleProofs`), for any number of saving processes and any lengths
of the two words with the stricter one longer. `SaversInv` is what each saver has
left to write and may still find in the file. `TracesInv` carries `HostileHeld`:
a letter by which a file may be read as Normal, in the file or in what a power
loss may leave of it, is there only if Normal was there at first or was asked for
by a save that the last one of the stricter mode did not follow. `AloneInv` adds
for `SavedModeHeld` that a saver without overlap finds exactly the beginning of
its word. `ReportInv` carries `ReportJudgedAsSaved` through the collections that a
report waits for.

**Operations** (`OperationsProofs`), for any number of selections and changes of
the tunnel: `EffectRequested`, `FailureRecorded`, `SuccessStores`, `EchoRestored`
and the action property `FlagAsScanned`. The steps of a request are done in order of
place and a failed one only leaves out later ones (`SkipsLater`), so each step
is still to be done, done, or left out for one that failed (`PlanInv`). Once
none is to be done, the request fell short exactly if its exit code says so
(`CodeTells`) or the console takes it for failed (`SelectionTells`), for each
kind of request, and a request that did not fall short stored what it is to
store (`StoreTells`). `RecordsInv` follows the records: a request is told of before
its first step is in hand, and its failure before the next request or the end.
`FlagInv` is that what the last scan told of the tunnel held at some time since
it began.

**RateLimiter** (`WebServerProofs`): `TypeOK`, `GrantsBounded`,
`RetryAfterSuffices`. `Budget` is a potential argument: grants since the mark,
plus what is in the bucket, never exceed a full bucket plus the refill up to
`updatedAt`. A clock that goes back leaves `updatedAt` alone, which is what
keeps it. `WaitOK` says that the wait announced with a refusal refills what the
token lacked, counted from `updatedAt`, which is the moment of the refusal
unless the clock stood behind it then.

**WebServer** (`WebServerProofs`): `ProcessesAlwaysBounded` and
`NobodyEverForsaken`, for any number of clients and any limiter. A step of the
server is a step of the limiter or leaves it alone (`LimiterStep`), so the limiter's
invariant is reused; `StartedOnGrant` says that no more processes were started
since the mark than tokens were granted, and with `GrantsBounded` gives the
first theorem. `NobodyForsaken` is inductive with the types.

**NativeRun** (`WebServerProofs`): `SnapshotIsWhole`, `CauseIsTrue`, and that
`RunSpec => C!Spec`: every step of a native run is a step of `Collection` or a
stutter, for documents of any length and any limits. The invariant says what
each stage leaves for the next: between two runs nobody acts (`RestOK`), a kill
leaves neither child nor pipe and has its reason (`KillOK`), a pipe that ended
by itself was read (`PipesOK`), and a run without a timer is about to be settled
(`TimerOK`, which is why a collection is over in time). A step that brings a
snapshot maps to `Bring` only because `SnapshotIsWhole` holds after it.

Not every property that is proved is also listed in a run: the types of the
modules, `GrantsBounded` and `InFlightIsRunning` stand behind the properties that
are checked and are parts of their invariants, and `HandlerInTime` (no request
waits up to the handler limit, also none that joined a collection of somebody
else) is why `WebDashboard` has no action for the 503.

Only model-checked: all liveness (`PumpEnds`, `CutRunReturns`,
`EveryoneAnswered`, `RecordReturns`, `WatchGoesOn`, `ShutdownEnds`, the ending
half of `ImplementsCollection`), which is out of reach of the proof system.

## 6. Assumptions and what is not modelled

- SIGKILL takes effect at once, and the leader does not leave its own group (it
  called `setpgid` itself; a command's descendants may leave). The commands
  that `ffc` runs have pipes of their own on their standard streams, so the pipes
  of `execFile` end with `ffc`.
- Event loops run each callback to completion; promise jobs run in order before
  the next event. The service's clock is monotonic (`performance.now`), yet the
  limiter is checked and proved under one that is not; only Retry-After needs
  that the clock was not behind at the refusal.
- A Fastify server that is closed while `listen` is pending does not serve
  afterwards.
- Timers are at most `Lateness` late, and pipes that are closed are noticed in
  the moment in which the child has exited.
- `ExecutionLimit` includes the kill and its grace; in `WebDashboard` the
  handler limit is longer than a collection, as configured (12 s and
  10 s; `snapshot_service` takes the opposite case, so that the 503 happens). Timers of
  visible tabs are on time, and the loopback interface takes no time.
- Floating point in the limiter is exact.
- Names are told apart where the code tells values apart by kind:
  `PostureAssumption` says that no zone is called what stands for no zone, and
  `LogAssumption` and `HistoryAssumption` that no process is called what marks a
  rotation, an earlier entry or a line break, and `PagesAssumption` that nothing is not a snapshot.
- `fsync` of a file makes the entry that names it durable too; a log that does
  not exist is an empty log; a file is read as of one moment. A chunk, not a
  byte, is the unit in which writes are cut.
- Letters of the two mode words are told apart even where the words share one.
  The compact or expanded home screen, snapshot numbers and the log warning of
  the console change only text.
- Parsers are modelled by what they recognise, by what they report as not
  recognised, and by what they skip in silence. Locating and checking the path
  of a private file is one step that may fail.
- In `Operations` a posture collection, an external query and a file write are
  one step each; a step that fails may have had its effect.

Not modelled, and why:
- The internals of Fastify and of Node. A signal that arrives before `main()` of
  the web server has registered its handlers has Node's default action
  (`SignalAgain`).
- The tests of Host, Origin, query and body (one refusal), routing of static
  assets, health and metadata routes: each is one answer in one turn without
  state.
- Resolving the `ffc` executable and building its environment: once, at start.
- Port catalogue and intelligence: static tables and lookups.
- Layout, wrapping, escaping and wording of renderers and writers; the countdown,
  copying, exporting and session list of the pages.
- Counting and trends of the log analyser; parsing of the text of tools.
- The terminal of a process killed while a key is typed: the echo stays off, and
  no code could restore it.
- Build and setup scripts, schemas, style sheets.

Two hazards have no property at all, with the reason beside each in
`PROJECT.json`: two changes of a host during one collection, and the sentence of the network page
for a tunnel that is not known.

## 7. Plan

Order followed so far, by importance: running commands; storing what is
recorded; collecting and judging a posture; the web service; console and pages;
then the native run under the service with its abstract collection, the server
with its shutdown, audit records and exit codes, and the published documents.

Every safety property that a passing run checks is proved too. What is left is
further abstract specifications, each with the proof that the module implements
it: a bounded command (runs, is cut or ends, returns one verdict), for
`CommandRunner`; an atomic log (a record is wholly in or not), for `LogStore`.

## 8. How to run

```
tlc -workers 2 -config CommandRunner.cfg CommandRunner
tlc -workers 2 -config Posture.cfg PostureViews
tlc -workers 2 -config PostureRecognised.cfg PostureViews
tlapm CommandRunnerProofs.tla
```

`PROJECT.json` lists each run with its module and configuration; section 4 lists
the four configurations more that are to be refuted. The longest
runs, `operations`, `command_runner` and `console`, take between one and three
minutes on two cores; the others take about one or less. The longest proof module,
`NetworkHistoryProofs`, takes about three minutes from nothing.
