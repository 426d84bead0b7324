# monit-docker: verification project

TLA+ models of [monit-docker](../src/README.md), the TLC runs that check them
on small instances, and theorems about them that the TLA+ proof system checks.
Everything is translated from the code under `src/`; `PROJECT.json` maps each
definition to the lines it stands for.

    tlc -workers 2 -config RuleCycleSessions.cfg RuleCycleMC.tla
    tlapm RuleCycle_proofs.tla

Contents: [1 the system](#1-the-system) · [2 the modules](#2-the-modules) ·
[3 what the runs show](#3-what-the-runs-show) · [4 bounds](#4-bounds) ·
[5 fairness and deadlock](#5-fairness-and-deadlock) ·
[6 what is proved](#6-what-is-proved) · [7 three findings](#7-three-findings) ·
[8 what is left out](#8-what-is-left-out) · [9 plan](#9-plan)

## 1 The system

monit-docker watches Docker containers and runs commands (restart, stop, kill,
an exec in the container) when rules on their state or on measurements match.
It is started by cron for one cycle, runs a scheduler of its own (`serve`), and
has offline commands for operators. These processes share one host and one
state file, and every one of them may be killed at any moment.

### Components

| component | state | operations | what makes it correct |
|---|---|---|---|
| **Local rule state** `adapters/state.py`, `domain/maintenance.py` | a JSON file with cooldowns, observations, restart attempts, maintenance; a lock file | open under `flock`, load, replace by rename + sync, one operation per kind of datum | a session decides on what the file says; nobody's update is lost; the schema version carries the data |
| **Policies** `core/policy.py` | observations of the pass before (`previous`) and of this one | cooldown, trigger delay, restart budget, maintenance gate | a delayed rule fires on an unbroken streak and not otherwise; starts are a cooldown apart; budgets survive every failure |
| **Monitoring engine** `core/engine.py`, `core/manual.py` | the cycle's place: container, rule, action | `process`, `_apply`, manual actions | a refused rule changes nothing; maintenance suspends actions; a restart is reserved before it is sent |
| **Monitoring application** `application.py`, `application_state.py` | one session | cycle, dry run, manual action, rearm, maintenance | dry runs write nothing; a session always closes |
| **Monitor service** `service.py` | cached measurements and their age, stop event | the scheduler loop, `status` | "ready" is said of current measurements only; a new collection follows an attempt |
| **Manual action queue** `manual_actions.py`, `adapters/http_routes.py` | a bounded history, the request pending or active | submit, take, complete, expire, poll | a request is executed at most once; its record tells the truth; the journal has it first |
| **Audit journal** `audit.py` | an active file, rotated files, a lock file | append with rotation, export, `notification_delivery` | only the oldest events are lost; sizes are bounded; what was promised is written |
| **Audit queries** `audit_query.py`, `notification_audit.py`, `adapters/audit_http.py` | a cursor at the client, a semaphore | page, receive a notification | pages are the journal as it was at the first of them; every request gets an answer |
| **Docker adapter** `adapters/docker.py`, `adapters/stats.py` | the cycle's client, the abandoned call, a worker per exec; a watchdog per statistics stream | begin/end cycle, execute, exec with a deadline, statistics | connections closed once and after use; one exec at a time; outcomes that are true |
| **Event history** `adapters/events.py` | none between calls | windowed counts of Docker's bounded event buffer | an incomplete window is never counted as complete |
| **Rules and metrics** `core/rules.py`, `core/metrics.py` | none | evaluate conditions and groups of them, derive rates and percentages | an absent measurement makes no condition true; what was checked offline can be evaluated |
| **Audit migration** `audit_migrate.py`, `cli_audit.py` | a directory per run: backup, conversion, manifest | inventory, copy, verify, mark | an interrupted run never looks complete; a copy is the journal of one instant |
| **Audit forwarding** `audit_forward.py`, `cli_audit.py` | none between runs | post the retained events, oldest first | nothing is counted that was not received; no event overtakes an earlier one |
| **Command line, jobs, composition** `cli.py`, `job.py`, `composition.py`, `adapters/command_config.py`, `adapters/scenarios.py` | the options, then the job | merge arguments and YAML, validate, assemble, run, choose the exit code | an observation never acts; all ways to a job agree on what is valid |
| **HTTP transport** `adapters/http.py`, `adapters/http_security.py` | the secrets of each role; worker pool of the HTTP library | load and compare secrets, guard, authenticate, route, shut down | a handler is reached with its own role's secret and no other |
| **Terminals** `observation.py`, `tui.py`, `textual_tui.py` | the last observation, the terminal's mode, signal handlers | observe in a thread, draw, leave | nothing stale or failed is listed; the terminal is left in order |
| **Web interface** `ui/static/` | the last status, the one timer, the request under way; pages and a dialog of the journal | poll, confirm, post, follow; filter, turn pages | one action at a time, also after a timeout; polling never stops; pages are of one snapshot |
| **Notification adapters** `audit.py` (`notification_delivery`), `redis-webhook/bridge.py`, `dwho-http/send.py` | none | receive, journal, publish, answer | what is acknowledged was delivered and journaled |
| **Configuration, selection, rule syntax** `adapters/configuration.py`, `selection.py`, `rules.py`, `validation*.py`, `syntax.py` | none | parse and validate before anything runs | fail before the first cycle |
| **Directory measurements** `adapters/filesystems.py`, `access.py` | two caches per container and cycle, the connection of a probe | execute a probe in the container, read its frames before a deadline, close it | a verdict is about what was printed for its path and identity; a container cannot hold the cycle up; nothing stays open |
| **Output formats** `outputs/` | none | display | |
| **Socket proxy, packaging, demos** | | | |

### How they interact

* Every process that runs rules, and every offline command that changes them,
  goes through **one state file** under a non-blocking lock
  (`LocalState.__enter__`); who does not get it ends with error 117.
* In `serve`, **HTTP threads** and the **scheduler thread** share the queue of
  manual actions (under its lock) and the cached measurements (not under a
  common lock with the queue). The scheduler executes a request through a
  session on the state file, like a cycle.
* Each start, result and refusal is **journaled**; a start that cannot be
  journaled prevents the action. Several processes append to one journal,
  others export it or browse it over HTTP while it is rotated.
* An exec is made by a **worker thread** which the cycle waits for until a
  deadline; past it, ownership of the connection moves from the cycle to the
  worker.
* A **browser page** and the agent know of each other only what requests and
  answers tell, through a proxy that may give up: a request that has timed out
  at the page may still be executed.
* **Offline copies and forwarding** read the journal that running processes
  append to: a migration under its lock, a forwarding run without any cursor
  that would tell it what an earlier run had sent.
* **Arguments, YAML sections and scenarios** are three sources of one job, each
  with checks of its own, before anything above is assembled.

### What is hard

Interleavings of cron, `serve` and offline commands on the state file; kills
between a reservation and its command, or between a rename and its sync; saves
that fail after the file was replaced; observations that survive a pass in which
nothing was observed; a clock that is set back; a full history while a request
is in flight; identifiers sent again; measurements that go stale while they are
being read; rotations cut in the middle, torn records, inodes used again under
a cursor; a future completed between a wait that timed out and the registration
of its callback; a page whose request timed out and is accepted afterwards; a
power loss between two system calls of a migration; a signal between any two
steps of entering or leaving the terminal. `PROJECT.json` lists each at its line ("hazards").

## 2 The modules

Names are those of the code where TLA+ allows it. Definitions marked `Mutant`
are plausible bugs that stand beside the definition they would replace; no run
uses them. Each property must be violated by one of them.

### LocalState, RuleCycle — the core

`LocalState` has one operator per operation of `adapters/state.py`, from a state
to the next one, and what loading and saving do to the data (`Saved` writes only
what the schema version carries; `Loadable` is what `_load` checks of a file). Maps are total functions in which 0 stands for
an absent key, which is how the code reads one.

`RuleCycle` runs sessions of `Procs` processes on one file. A variable per thing
that exists: `disk` (the file), `lock` (who holds the descriptor), and for each
session `mem` (its `LocalState`), `prev` (`TriggerPolicy.previous`), `todo`, `at`
and `status` (the loops and local variables of `process` and `_apply`) and
`pc`. Every place where the code saves, calls Docker or may raise is between two
steps, so a kill or another process' attempt comes between any two.

| action | code |
|---|---|
| `Lock`, `Load`, `Exit`, `Raise`, `Crash` | `LocalState.__enter__`, `__exit__`, exceptions, kills |
| `Save` with the faults of `FileAfterSave` | `_save`: fails before the rename (old file) or after it (new file, old memory) |
| `Expire`, `Clear`, `Select`, `NextContainer`, `ContainerDone`, `EndCycle` | `run_once`/`MonitoringEngine.process`, the loop over containers |
| `Match`, `Observe*`, `Decide`, `Claim*` | evaluation of a rule and the order of the policies' gates |
| `ReserveAttempt`, `NoReservation`, `SkipAction`, `Execute`, `RuleDone` | `_apply`: attempts and commands, one after the other |
| `ManualClaim` … `ManualMaintenance` | manual actions |
| `OfflineRearm`, `OfflineNothing`, `OfflineMaintenance` | `application_state.py` |

`RestartBudget` is the abstract specification of the restart limit (Reserve,
Send, Rearm; a reservation may be wasted, a restart never sent without one);
`RuleCycle` implements it with `reserved <- disk.restarts`, `sent <- issued`.

`RuleCycleHistory` adds history variables that the program does not have — what
every pass really observed, when a rule was really started — and states the
trigger delay and the cooldown against them. Its next-state relation is that of
`RuleCycle`, action by action, with the history updated beside it.

### ManualActions

The service: HTTP threads submit (`ReadStatus`, then `Submit…` under the queue's
lock — two steps, as in `http_routes.py`), the scheduler alternates between
taking a request, executing it and collecting. Records hold what a client can
poll; `attempts`, `journal` and the like are history. A process restart loses
everything but the journal. `RequestLifecycle` is the abstract life of a
request: accepted, attempted at most once, ended, and forgotten only when ended.

### AuditJournal, AuditReaders

`AuditJournal` models inodes and names, so that a rename moves a name and not
the data. An append is a series of steps — lock, tail check, rotation one slot at
a time, create, writes of any number of bytes, sync — each of which may fail or
be the last of its process. `notification_delivery` (start, deliver, finish) and
`NotificationAudit.receive` (a batch) are callers modelled with it.

`AuditReaders` EXTENDS it with exporters (`iter_records`: open everything under
the lock, parse after releasing it) and pagers (`AuditReader.page`: a semaphore,
a wait of bounded length for the lock, backward pages, a cursor of inodes that
the client brings back). `view` records what the journal held when the export,
or the first page, took the lock; `told` what has been given out since. What a
browsing has told is compared with `view` by `Tells`: the selected events from a
place on, each once, the newest first.

### ExecDeadline

`DockerCollector.begin_cycle`, `execute`, `_exec` and `end_cycle` as the steps of
two threads: the cycle (`main`) and one worker per exec. `future` is the
`Future`, `late` the execs whose deadline has passed, `callback` the futures
with `_close_when_done` registered, `remote` what happens in the container (not
known to the program), `closed` counts calls of `close` on each connection.

### EventHistory, StatsStream, Collection

What a cycle learns of a container. `EventHistory` has the daemon's bounded
buffer (`Buffer`, of the last of `happened`), the query with its cutoff (`Query`)
and the counts with their window and the detection of overflow (`Complete`).
`StatsStream` has the two threads at a statistics response: the reader
(`Request` … `Close`: the generator `read_stats` and the loop of `_collect_stats`
that pulls lines from it, whose finally clauses are `Cancel`, `Join`, `Close`) and
the watchdog (`Fire`, `Shutdown`: its two effects are two steps).

`Collection` EXTENDS both and composes them as the engine does: the query when
containers are selected, rules on the state, then the statistics of a running
container, then rules on measurements (`Evaluate`: `RuleEvaluator.matches`).
`RuleCycle` lets a condition be true or false at any time; here it is computed
from what was collected, and `verdict` keeps the results. At least one rule asks
for event counts, so the query is always made.

### RuleConditions, Filesystems

`RuleConditions` is one condition, from the classes of its resource and literals:
what `RuleParser` accepts (`Accepted`), whether the literal can be read as the
type that is measured (`Evaluates`), and what `check-config` finds by evaluating
it on measurements it makes up (`CheckedOffline`, with `MadeUpType`).

`Filesystems` EXTENDS it with a container's turn of a cycle in which rules are
about directories: rules are parsed, those on the state alone are judged, then
`collect_filesystems` runs. `agenda` is what its two loops have left, `Wanted` the
command that the sample at its head still needs, `exchange` the connection of the
command in execution: `_exec_output` reads frames (`Receive`, `Eof`) until `left`,
the time to the deadline, is used up (`TimedOut`), and closes `open` one by one
(`CloseNext`) whatever has failed. `cache` and `accessCache` are the code's, and
`JudgeRule` evaluates the rules on `measured`. `printed` is history.

### StatusPage, JournalPage — the web interface

`StatusPage` EXTENDS `RequestLifecycle`, the abstract life of a request which
`ManualActions` is shown to implement: the page is checked against what the
queue promises, not against the queue's code again. `get` and `post` are the
page's two requests, `wire` the action requests that the agent has not handled
(a proxy may give up on one and deliver it later), `timer` the one timer,
`unresolved` the request the page has no word of. `Render` is part of each
action that changes what it shows, as in `app.js`.

`JournalPage` has the list of events (`trail`, `pageIndex`, `load`) and the
dialog of one action (`action`, `look`), each with one request under way; a new
one aborts the one before, which comes to its end later and must not be heard.
A page is a place in a snapshot of the server. The dialog's close event is
queued, so it may arrive after the dialog has been opened again.

### Terminal

The main thread of `tui.py` from the check of the terminal to its restoration
(`main`), and the thread of `Observation` (`thread`). `Signal` comes between any
two steps: a handler that is installed turns it into an exception, which leaves
through the finally blocks it is in; a default disposition kills.

### AuditForward, NotificationDelivery, AuditMigration, Archive

`AuditForward` is a run of `audit-send` beside a journal that goes on; requests
are lost, late, or answered wrongly. `NotificationDelivery` is the delivery of
notifications to Redis with the journal around it, under an Alertmanager that
repeats what was not answered. Journal, receiver, Redis and Alertmanager are
outside the program or modelled elsewhere, and do here what they may do.

`AuditMigration` is a run of `audit-migrate` system call by system call: lock,
validation of each file, directories, copies, syncs, verification, manifest,
rename. `survivors` is what a power loss may leave of the directories.
`Archive` says what a run promises: a directory belongs to one run, becomes
complete in one step, and is reported complete only when nothing can undo it.

### CommandLine, HttpApi

`CommandLine` is one invocation: `Parse` (merge with the section, checks of the
subcommand), `ResolveScenario`, `Build` (with `validate_job` again), `Serve`
(secrets), the run, and the exit code that the except clauses give to what it
raised. An option that is only compared with a range of its own is one of
`Bounded`. `HttpApi` EXTENDS it with the server that such an invocation has:
`Guarded` (routes that do not exist for this server), `Refuse`, `RefuseBody`
and `Handle`, and its start and shutdown.

### MC modules and proofs

`RuleCycleMC`, `RuleCycleHistoryMC`, `ManualActionsMC`, `AuditJournalMC`,
`AuditReadersMC`, `ExecDeadlineMC` and `CollectionMC` hold the values of constants that a cfg
cannot write, and symmetries (of interchangeable names, in runs without a
liveness property). `ClientsMC` and `InvocationsMC` each choose, at the start of
a behaviour, one of several programs that do not interact — the two pages, the
terminal, `audit-send` and the bridge; an invocation with its server, and
`audit-migrate` — while the others keep their initial states. `MeasurementsMC`
does the same with `Collection` and `Filesystems`. `RuleCycle_proofs`,
`ManualActions_proofs`, `ExecDeadline_proofs`, `Clients_proofs`, `HttpApi_proofs`,
`Audit_proofs`, `AuditMigration_proofs` and `Measurements_proofs` hold lemmas and
theorems, and no definition that the model uses.

## 3 What the runs show

| run | constants | question, and what the run shows |
|---|---|---|
| RuleCycleSessions | 2 processes, all five jobs, a state rule and a metric rule that restarts twice, limit 3 | Do sessions see and keep each other's changes, whatever fails? `MemMatchesDisk`, `NoLostUpdate`. `FileCarriesItsData`: is each file that is written one that the next load accepts, with everything the session held? `DecisionStands`: does what let an action through still hold when it starts — no maintenance has begun, and a sequence that was let through never meets the restart limit half way? `ImplementsBudget`: can a crash or a failed save send a restart too many? `SessionsEnd`: does every path give the lock back? |
| RuleCycleHistory | 1 process, delay 2, gap 1, cooldown 2, every fault, a clock that may go back | `TriggerSound`: does a delayed rule fire only on what was really observed in every pass? `TriggerComplete`: is a sustained condition ever held back? `CooldownSpacing`: are starts a cooldown apart, although reservations drop entries? |
| ManualActionsService | 2 identifiers, 2 acceptances, an HTTP thread, a history of 1, crashes | Is the request in flight ever evicted, or a record wrong about it? `InFlightRetained`, `OutcomeTruthful`. `ReadyMeansCollectedSince`: measurements from before an attempt are never told as current. `AttemptsJournaled`, `ImplementsLifecycle`; `RequestsSettle`: an accepted request ends, or the process stops. |
| ManualActionsStaleRead | no faults | a violation: section 7. |
| AuditJournalRotation | 2 writers, 3 files, events of one and two bytes, every fault | `RetainedIsRecent`: what is left is the end of what was written, without a hole, in files of bounded size of which only the active one may end in half an event; `PromisesJournaled`: what a caller was promised is there. |
| AuditReadersFiles | a writer that crashes, an exporter, a pager, 2 files whose inodes are used again | `ReadersFaithful`: is what an exporter and the pages of a client contain the journal at one moment, or an explicit refusal, though the lock is released before the files are read and answers are lost? `SlotsReturned`: the place of a page is given back on every path. |
| ExecDeadlineThreads | 2 execs, 3 connections | `ClosedOnceAfterUse`, `OneCallAtATime`, `OutcomeHonest`, `CallsSettle`: who closes the connection of an exec that its cycle has given up, and does anybody, whatever Docker does? |
| ExecDeadlineFailure | 1 exec | a violation: section 7. |
| CollectionCycle | a buffer of 2 for 3 events, a window of 1 second, samples of 2 times, 2 chunks, three rules; or four directory groups on two paths, with rules that meet on a path and each form of condition alone | `VerdictSound`: does a rule ever match without reason — on counts that overflow made partial, on one sample, on an event told twice? `SocketOwned`: the watchdog never outlives the response it may shut down. `VerdictOnProbes`: does a rule on directories ever match, or not match, without a command of this cycle having printed it of its path, with its group's identity; is a rule ever refused a field that nobody asked for? `AcceptedEvaluates`: do rules that `check-config` accepts ever fail on a literal (see below)? `MeasurementsEnd`: reading ends with every connection closed, although the daemon says nothing or the container drips. |
| EventHistoryPartial | the same | a violation: section 7. |
| Clients | each of five programs around the agent, alone | `SettledBeforeNext`: does the status page ever post an action while one it posted before is in flight or may still arrive? `PollingArmed`: can any order of events leave a visible page without a next refresh? `JournalCoherent`: are the listed events those of the filters and page shown, whatever was aborted? `TerminalTruthful`: is anything listed that is stale or failed, and is the terminal put back whenever a signal comes? `ForwardedInOrder`, `DeliveryHonest`: is anything counted or acknowledged that was not received? |
| Invocations | every subcommand from sound settings with one option changed on either side, with the requests of section 4; two runs of `audit-migrate` beside the agent, failing calls and power losses | `JobsValid`: does anything that arguments, sections or scenarios accept reach the assembly and fail there? `ObservationNeverActs`: can an observation or a simulation inherit an action? `CredentialsSeparate`: is a handler ever reached with another role's secret? `MarkedIsComplete`, `CopiesOneInstant`, `ImplementsArchive`: can a migration cut short look complete, mix two moments of the journal, or be reported before it is durable? |

`AcceptedEvaluates` holds with one exception, which it names. The filesystem
samples that `check-config` makes up hold floats throughout
(`validation_rules.py:103`), while byte and inode counters are integers
(`filesystems.py:47-55`). A fraction without a unit, or an infinity, therefore
passes "condition value conversion" (`docs/check-config.md:48`) where it is
compared with such a counter, as in `disk_usage[data] > 1.5`, and each cycle that
evaluates the rule ends with error 110.

Every property of a passing run has a mutant in `PROJECT.json`: a definition of
the model, changed the way a plausible bug would change the code, for which the
same run reports the property violated.

## 4 Bounds

The program's own limits (`HistoryLimit`, `Files`, `MaxBytes`, `PageLimit`,
`PageSlots`, `MaxRestarts`, delays and cooldowns) are small numbers chosen so that
each is reached and passed. Bounds of the model only:

* `MaxTime` (wall clock): long enough for a delay to elapse after having been
  interrupted, for a cooldown to expire between two starts, for maintenance to
  end. A clock that goes back revisits times, so the bound does not end runs.
* `MaxPasses` (history of passes): one more than the passes of an uninterrupted
  streak that satisfies the delay, so that a pass that breaks it fits.
* `waited` and `age` stop at one more than the limit they are compared with;
  the program makes no difference beyond it.
* `MaxAccepted`: an identifier is accepted at most twice, the least number for
  which a record of an earlier life could be mistaken for one of the present.
* `NumEvents`, `MaxBatch`: enough events to fill every file, drop the oldest one
  and go on. Lengths are those that fit, just fit and do not fit.
* `Inodes`: as many as files and open descriptors, plus few, so that a free one
  is soon one that a cursor still names.
* `Execs`, `Clients`: three cycles and two execs, so that a call abandoned in one
  cycle may be alive or over in the next.

* `MaxClock`, `MaxEvents` (event history): one event more than the buffer holds,
  and instants before, on, within and after the window. In `Collection` nothing
  happens between a query and the end of its cycle: it would be after the cutoff,
  and be seen by the next query only.
* `wire` (statistics) holds one chunk and a chunk at most one end of a line: a
  line of statistics is longer than a chunk.
* `Pieces`, `Budget` (directory probes): output comes in two pieces and the
  deadline is two units away, so that every read but the first may begin with
  less time than the one before. `Settings`: rules whose groups share a path with
  different fields or identities, with and without resources asked for beside
  them; and every condition of `Texts` as a rule of its own.
* `Ids` (status page): two identifiers, of which the second is posted while the
  first may be anywhere. `MaxSnapshots`, `MaxAborted`: a view that follows
  another's snapshot, and an aborted request that ends after its successor.
* `MaxJournal`, `MaxRetained`, `MaxRuns`: an event is forgotten while a run sends
  and while a request is late; a third run meets requests of the first.
* `Attempts`: one notification repeated twice, or two notifications and a repeat.
* `MaxSignals` is one: `TerminalTruthful` is about the first signal, which is all
  the code provides for; a second one may cut the restoration short.
* `MaxEvents`, `MaxEdits` (migration): an append with a rotation, between and
  during two runs, and a file edited behind the lock at any moment.
* `MCInvocations`: one option away from settings that are accepted, on the
  command line and in the YAML at once; checks that relate two options meet
  every pair of their values that way. `MCOffered`: all combinations of path,
  method, header and secret, and every other flaw of a request alone.

Rule sequences, conditions, targets and identifiers are small sets; a measured
condition is true or false at any evaluation.

## 5 Fairness and deadlock

* RuleCycle: weak fairness of each session's own steps. A session that holds the
  lock runs: its Docker calls have timeouts, its file operations return. Nothing
  is assumed of the clock, of crashes, or of when sessions start.
* ManualActions: weak fairness of the scheduler's steps. HTTP threads and time
  owe nothing.
* ExecDeadline: weak fairness of the cycle's and the workers' own steps and of
  the deadline timers. Docker and the container owe nothing: a call may never
  return.

* Collection: weak fairness of the reader's and of the watchdog's steps, the
  expiry of its timer included. The network and the daemon owe nothing, and the
  timeout of a single read (`ReadIdle`) is not counted on, as a read that is fed
  now and then never times out.
* Filesystems: weak fairness of the program's steps and of time. Calls to Docker
  end, as the client has a timeout; what comes from the container (`Receive`,
  `Eof`) may come at any pace or not at all.

`CHECK_DEADLOCK FALSE` is said where a bound of the model ends a history (passes,
events, connections); it is explained in each cfg. The runs of RuleCycle without
history, of ManualActions and of Collection check for deadlock. The other modules
state no fairness: their properties are about what may never happen.

One container is enough for RuleCycleSessions' questions, as containers share
nothing but the file; the theorems of section 6 cover any number.

## 6 What is proved

For every number of processes, containers, rules, identifiers, history lengths
and limits that satisfy the named assumptions:

**RuleCycle** (`RuleCycle_proofs`). `TypeCorrect`, `MemoryIsFile`, `BudgetHolds`,
`BudgetImplemented`. `TypeCorrect` states types and no more. None of the properties is inductive alone. The
invariant `IInv` adds, for each session: only the holder of the lock is not idle
(`HolderOK`); its place names a container and a rule where it must (`PlaceOK`); a
dry run never executes (`JobOK`); its memory fits its schema version and equals
the loaded file while it may write (`MemOK`); and a restart about to be sent has
been counted in the file and not yet been sent (`AheadOK`). The last is what
carries `BudgetRespected` over `Execute`, and it survives everything between,
because nobody else writes while the lock is held and a kill leaves the count.
`HolderStep` reduces each step to the holder; `SaveStep` covers all outcomes of a
save; lemmas at the head of the module say what each operation
of the state keeps. The
refinement follows step by step: `ReserveAttempt` is `Reserve`, `Execute` is
`Send`, the two rearms are `Rearm`, anything else stutters.

`FilesLoad` (`FileCarriesItsData`) says that every file a session leaves behind, or
fails to replace, passes the checks of `_load`: it has the fields of its schema
version and no other, and no streak in it ends before it starts. The fields follow
from `IInv`. The order of a streak needs `OInv`, because the two times travel: a
load brings them into `mem`, `Clear` moves them to `prev` and empties the file,
`ObserveMatched` extends what `prev` holds and saves it. `OInv` says it of all three
places. It needs no assumption on the clock: `Streak` starts anew when the clock has
been set back.

Two more come from `DInv`, which says of a session that is past its decision that
the budget has room for what remains of its sequence and that no maintenance is in
force (`DecisionOK`). `SequencesFit`, the first half, holds on any clock.
`DecisionHolds` (`DecisionStands`) is proved for a clock that is not set back
(`~ClockStepsBack`): time that goes back into an ended maintenance puts it in
force again between the decision and the action, and no code could prevent that.
`NothingIsLost` (`NoLostUpdate`) is an action property, from `IInv` and from
what each operation does to the three maps.

**RuleCycleHistory** (in the same module). `TriggersAreSound`, `TriggersAreComplete`,
`StartsAreSpaced`. The file does not keep the history of passes, only a pair of
times, so the invariant `HInv` says exactly what that pair is: `Exact` gives the
streak of observations that ends with the last pass and cannot be extended
backwards, the file holds it (`FileExact`), and within a cycle the policy still
remembers the streak up to the pass before for the rules it has yet to observe
(`CycleOK`). Soundness alone would need less; but an invariant that only bounds
the streak is not kept by the next observation. `Spaced` says that the file
remembers a start until its cooldown is over. It needs no assumption on the clock;
`CooldownSpacing` itself exempts starts between which the clock was set back.

**ManualActions** (`ManualActions_proofs`). `TypeCorrect`, `FlightRetained`,
`TruthTold`, `JournalFirst`, `ReadyIsCurrent`, `LifecycleImplemented`. The invariant
ties statuses to `pending` and `active` (`FlightOK`), says that `order` lists the
retained identifiers once each (`OrderOK`), counts events by status (`CountsOK`,
`ToldOK`), and that measurements are absent or newer than the last attempt
(`CacheOK`). `Room` shows that eviction never meets the request in flight: the
queue accepts only when none is.

**AuditJournal** (`Audit_proofs`). `PromisesKept`, `RetainedRecent`, from `JInv`. That the
files hold the end of what was written is said file by file: there are places
`s[0] >= ... >= s[Files]` of the log such that file n holds the events after
`s[n + 1]` up to `s[n]` (`Chained`). A rotation that is interrupted leaves an empty
interval, and a write extends the first one. `WriterOK` says what a writer knows
while it holds the lock: the slots it has passed are empty, what it found of the
tail is still so, and what was promised is written. `RetainedRecent` puts the
pieces together: `Retained` is defined by recursion over the slots, and as no
induction theorem can be used, the proof takes the least slot at which the pieces
would differ (`WFMin`).

**AuditReaders** (same module). `SlotsAreReturned` counts the requests under way
(`SlotsInv`). `ReadersAreFaithful` is the longest proof of the project, as its readers
hold no lock while they read. Everything is said with places of the log, of which
nothing ever changes (`RInv`): what any inode holds, linked or not, is a part of
the log (`InodeOK`); an event is written at most once (`Once`), so an inode that
begins with the event the cursor names holds that same part
(`SameBeginning`), reused or not; the files a reader has opened meet
without gaps (`Ascends`, `Descends`), and their first bytes are still
there (`Held`); and what was told is what lies between the end of the
snapshot and the place reached (`ToldTo`). Steps of writers change none of it
(`WriterBeside`), nor do the other readers (`OthersAlone`); then each
step of the reader itself moves its place (`YieldStep`, `ReadLineStep`) or begins
and ends (`PageLockStep`, `CheckCursorStep`, `PagerLeaves`). `SameFile` is used where
the marker is needed: in `CheckCursorStep` only.

**AuditMigration** (`AuditMigration_proofs`). `CompleteIsWhole`, `OneInstant`,
`ArchiveImplemented`. The invariant follows a run: what it knows of the journal
while it holds the lock (`InstantOK`) and which copies in its directory are on the
medium (`BundleOK`). What a power loss may leave is described for every survivor
(`SurvivorsOK`): none is ahead of the disk, and one with a final manifest has every
file of it whole. The refinement maps the rename of the manifest to the one step
in which a directory becomes complete.

**ExecDeadline** (`ExecDeadline_proofs`). `TypeCorrect`, `ConnectionOwned`,
`CallsSerialized`, `OutcomeTrue`. That a connection is closed once does not follow
from any one thread: it is closed by the cycle, by the worker, or at once by
`add_done_callback`. The invariant therefore names its owner at each place of the
cycle (`ThreadOK`: the cycle, or nobody while it is handed over; `WorkerOK`: a
worker in `callback`, with a connection that is not the cycle's), and says that a
call which has not returned belongs to the current exec or to the pending one,
and never to both kinds at once. `CommandOK` carries what is known of the command.

**Collection, Filesystems** (`Measurements_proofs`). `VerdictsAreSound` and
`SocketsOwned` from `CInv`: events are told once and in the order of time
(`HappenedOK`); a complete count never exceeds the truth, and equals it unless the
buffer held later events (`CountsOK`); a result of the statistics has two samples of
different times, and a watchdog that may fire has its reader's response open
(`StreamOK`); rules on measurements have no result before there are any
(`CycleOK`). `VerdictsOnProbes` and `AcceptedRulesEvaluate` from `FsInv`: what the two
caches, the entry under construction and the samples hold was printed by a
command of this turn for that path and identity (`KnownOK`); every path that
was asked for is measured or still on the agenda (`AgendaOK`); and a rule whose
evaluation failed has a condition that cannot be read (`OutcomeOK`).

**The programs of Clients** (`Clients_proofs`). `NeverBesideAnother`,
`PollingGoesOn` (StatusPage). That a
page never posts beside an earlier request of its own spans three parties, and two
statuses: the one in which the page finds the request it has no word of, and the one
it acts on. `SentOK` says of every request posted that the page still waits for it,
or that it is off the wire and every status on its way or received tells if it is in
flight (`Known`); `GetOK` gives that to a status in transit, `PostOK` to a refusal in
transit. `PostOver` draws the conclusion where the page posts. It rests on one thing the
page cannot see, that a request in flight is listed in the status, which is what
`RequestLifecycle` and the refinement of ManualActions say.

`DeliveriesHonest`, `TerminalIsTruthful`, `ForwardsInOrder`, `PageIsCoherent`
have an invariant each. `DeliveryInv`: an attempt that is sent was recorded as
started, and one that was answered or recorded as accepted is in the stream.
`TerminalInv`: what each place of the main thread has installed and set
(`SignalsOK`, `TtyOK`), and that rows come from a status that did not fail and
have an age (`DataOK`). `ForwardInv`: the batch is the journal's events in
sequence (`BatchOK`), and a request that is still under way follows only what
the receiver has heard (`MailOK`), so that a late one repeats and never leads.
`JournalPageInv`: every request names the view it was made for (`LoadOK`,
`LookOK`), so that what is heard fits what is shown.

**CommandLine, HttpApi** (`HttpApi_proofs`). `AcceptedIsValid`, `ObserversAreSafe`,
`SecretsKeptApart`, for any set of invocations and requests. The first two rest on
what the merge of arguments and section may leave: `Merged` (an option is the
argument, the section's or the default), `CommonSound` (the options that no section
may set), `ArgumentsSuffice` (the checks of each subcommand imply those of
`validate_job`) and `ObservationKeepsNoCommand`. The third rests on an order: the
secrets are compared before anything listens and never change (`ServerOK`).

### Assumptions

All are named, stand in the module that declares the constants, and are evaluated
by TLC in the runs. Most are types or say that a model value is none
of a set (`ContainersAssumption`, `NamesAssumption`, `NoneAssumption`,
`StaleAfterAssumption`, `NotificationAssumption`, `JournalPageAssumption`, ...), or that a limit
is a natural number, and positive where the program has a default or a check that
makes it so (`OptionsAssumption`, `LimitsAssumption`, `FilesAssumption`,
`SizesAssumption`, `HistoryAssumption`, `StampsAssumption`, `ForwardAssumption`). More
is asked by `ReadersAssumption` (a process is a writer, an exporter or a pager, and
pagers are finitely many, as they are counted), `JournalsAssumption` and
`ContentsAssumption` (what the files of a journal are), `RulesAssumption`,
`GroupsAssumption` and `SettingsAssumption` (what the parser of rules and the
configuration accept), `InvocationsAssumption`, `CodesAssumption`
and `OfferedAssumption` (what an invocation and a request are). `DecisionHolds` alone
has a hypothesis of its own.

### Model-checked only

All liveness properties (`SessionsEnd`, `RequestsSettle`, `CallsSettle`,
`MeasurementsEnd`), as fairness and ENABLED are out of the prover's reach; and the
three findings, which are counterexamples. Every invariant and every other action
property of a passing run is a theorem. The types are theorems, and no run
repeats them where one is (`TypeOK` of RuleCycle).

What recursive definitions compute is unfolded where a proof needs it, a step at a
time: the theorems on induction take an operator as a parameter,
which the provers cannot instantiate. The operators of the model that are folds or
recursive functions are used through the equation of one step.

## 7 Three findings

* **A status read too early** (`ManualActionsStaleRead`,
  `QueuedOnValidMeasurements`). `http_routes.py:63` evaluates `monitor.status()`
  before `submit` takes the queue's lock. Between the two, the scheduler may
  execute another request and invalidate the measurements
  (`service.py:119-121`, "Measurements collected before a mutation are no longer
  current"); when it has completed, the submission is queued on them. The test
  `test_validation_and_stale_data_fail_closed` expects `not_ready`. The effect is
  limited: the engine checks the container again before it acts.
* **An unknown outcome reported as failed** (`ExecDeadlineFailure`,
  `FailureIsKnown`). `exec_run` makes several requests; `_exec` re-raises any
  `APIError`, `execute` turns it into a failed command, and the engine records
  `failed`. If the refused request is the last one, which asks for the exit
  status, the command is running. `docs/cron.md:149-150` promises "unknown" when
  the exit status is not available.

* **A partial count taken for a whole one** (`EventHistoryPartial`,
  `PartialCountsFail`). `read_history` asks for events up to a cutoff in the past
  and the daemon applies that cutoff to its buffer. If the buffer is full and
  holds events newer than the cutoff — a second is enough on a busy host — the
  answer has fewer than 256 events, and `event_counts` takes the history for
  complete although events of the window were evicted.
  `docs/runtime-checks.md:82-83` says that unrelated activity cannot hide
  overflow, and line 94 that rules needing such counts fail. `VerdictSound` says
  what still holds: a ">=" condition never matches on fewer events than it asks
  for; an "==" one may, and only then.

## 8 What is left out

Abstractions of the modelled parts:

* RuleCycle: key strings are pairs of container and rule; an unreadable file is a
  `Raise`; a session that does not get the lock ends without a step; reporting,
  rendering and the contents of records are left out; a job has at least one rule.
  `Load` takes any file: that it never meets one that `_load` refuses is
  `FileCarriesItsData`. A reservation or a maintenance change that changes nothing
  (a cooldown of 0, clearing what is not set) writes nothing in the model; the code
  then writes the same content again, and that save may fail too.
* ManualActions: the answers that change nothing (duplicate, conflict, busy, not
  ready, journal refusal) are one action `Answer`; the checks of a target against
  the snapshot are the set `admits`; there is one scheduler, so its `_operation`
  lock is implicit; counters and logs are left out.
* AuditJournal: processes are killed, the host does not lose power (what was
  written stays, synced or not); all processes use the same sizes and number of
  files; escaping, export formats, the copy on stderr are left out.
* AuditReaders: a page scans whole events, not blocks; a file's marker is its
  first event; an expired or forged cursor begins anew; a page waits for the
  lock as long as it wants.
* ExecDeadline: one cycle at a time, as in the program; selection, listing and
  statistics are calls to the SDK.
* EventHistory, StatsStream, Collection: one container's turn, others being
  events of something else; malformed answers are one failure; operators of
  conditions other than `>=` and `==` and the calculation of values are left
  out; the daemon does not restart.
* RuleConditions: a literal is one of ten classes; a membership with a left
  operand, which no evaluation satisfies, is left out, and so are templates and
  aliases. Filesystems: counters of one kind are one value, the three access
  flags one flag; a comparison holds of the value 1; a command's output is whole
  or it is refused; a turn is one container's.

* StatusPage: layout, texts and the list of containers are left out; the agent's
  answers to a status are instantaneous, their way back is not.
* JournalPage: what an event contains, and the query of the server, are left
  out; a snapshot has a fixed number of pages.
* Terminal: curses' own calls do not fail; the Textual renderer, which has the
  same course, is not distinguished.
* AuditForward, NotificationDelivery: what is sent is a number or a name; the
  journal's own failures are in AuditJournal.
* AuditMigration: the content of an event is its identity and schema; a file is
  read in one step, and what changes it afterwards shows in its times. Power
  loss keeps the order of names and may take the data of files that were not
  synced; any sync makes earlier names durable, as in a journaling filesystem. The three
  `mkdir` calls of a bundle are one step: a kill leaves none of its directories or
  all. Every run names an output directory that is free, a dry run too, which in
  the code may go without.
* CommandLine: an option checked by itself is in range or not; selections, the
  parsing of rules and YAML are one failure of `Build`; texts of errors are left
  out. Some exit codes are collapsed or come from another place: the 110 that
  `check-config` and `scenario` return for an invalid configuration is an exception
  with that code, the 2 of `tui` without a terminal is one of the failures of its
  run, and the 140 of a rule's syntax is raised in the run and not as the rules are
  built. HttpApi: one request at a time, as the requests share the services only.

Not modelled: imports and templates of the configuration, aliases, patterns of
selectors, which are sequential and end before anything runs; the arithmetic of
`core/metrics.py`, which keeps nothing; the
HTTP and WebSocket libraries, Docker and Redis, modelled only as what the code
meets of them; output formats, packaging, demos and the socket proxy's
configuration, which have no state of their own.

## 9 Plan

1. Metrics: rates and percentages between two samples, against reference
   definitions over bounded inputs.
2. Audit records: escaping and its inverse, on bounded texts.
3. Proofs: an abstract journal (append, forget the oldest, give out what is
   retained at one moment) that AuditReaders implements, from `RInv`; the
   conditions under which `NothingIsLost` and `StartsAreSpaced` carry over to
   several files.
