# Verification of the local supervised agent orchestrator

TLA+ models of the orchestrator under `src/orchestrator` and of the workbook
library under `src/excel-library` that its agents use, the TLC runs that check
them on small instances, and TLAPS proofs for every size. Line numbers are of
this commit.

## 1. Inventory

| Component | State | Operations | Interacts with |
|---|---|---|---|
| **Control store** `state.py` | SQLite tables `tasks`, `messages`, `lanes`, `approvals`, `artifact_claims`, `events`, `metrics`, `legacy_imports` | whole-row `save_*`, `recover_interrupted_tasks`, `expire_orphans`, backups, registry export | every process of the workspace opens it; each statement is a commit |
| **Coordinator** `coordinator.py` | `_lane_locks`, `_paused_lanes`, `execution_owner` in memory; the envelopes of the current batch | submit, delegate, approve, reject, pause, resume, rotate, recover, process, inbox operations | store, locks, agents, runtime, policy |
| **Artifact claims** `locks.py` | rows of `artifact_claims`, partial unique index on active write claims | acquire (check, then insert), release, recover_stale | coordinator; the lane record mirrors the claims |
| **Agent life cycle** `agents.py`, `rotation.py` | lane record: status, current and prior agents, rotation counters | create, resume, rotate, dispose; counters and decision | store (whole lane rows), runtime (awaits in between) |
| **Inbox** `coordinator.py` 182-470, `legacy.py` | `messages`, `legacy_imports` | send, promote, acknowledge, route, synchronise with the task, agent proposals, import | tasks by the key `message:<id>` |
| **Workspace service** `service.py` | lock file (pid, token), stop file, heartbeat | acquire, serve, release, request stop | coordinator; `live_service_owner_token` reads its lock |
| **Operator console** `webapp.py` | one coordinator, `_process_lock` | dispatch of browser actions to the event loop | takes the workspace lock like the service |
| **Policy** `policy.py`, `policies/registry.json` | the registry | evaluate_action | coordinator |
| **Runtime adapter** `runtime.py` | agents, clients | create/resume/dispose agent, run_task | Cursor SDK |
| **Upkeep** `state.py` 274-314, `legacy.py`, `bootstrap.py` | daily backup files, `legacy_imports`, handover files | back up, prune, restore; import old mail by reference; adopt handovers as lanes | store; the commands `recover`, `legacy-inbox`, `bootstrap` |
| **Context, dashboard, CLI** | none, or files | prompts, HTML, argument parsing | coordinator, store |
| **xllib recalculation** `recalc/` | a private workspace, copies, engines | recalculate on a copy, backend by backend, and clean up | formulas, LibreOffice, Excel |
| **xllib lint and gate** `lint/`, `cli.py` | configuration, waivers, report | gates, rule by rule, exit code | recalculation, inspection, the date |
| **xllib inspection and rules** `inspect/`, `lint/rules/` | none | formula walk, shapes, spans, reference graph, ten rules | openpyxl |

What makes a component correct:

* *Tasks*: nothing that needs a person's approval claims or runs before one
  granted it; a task that waits can be answered; a running task has an owner
  that works on it, or is requeued; what an owner left behind is recovered once
  and what a live owner does is left alone.
* *Claims*: at most one execution writes an artifact, and an execution keeps its
  claims until it releases them.
* *Lanes*: runs of a lane are serial; pause holds until resume; the chain of
  agents of a lane loses nobody.
* *Inbox*: mail becomes work only if a person made it executable; what is
  executable is routed, and a routed message ends with its task.
* *Service*: one service per workspace; a dead one is replaced.
* *Upkeep*: a legacy file is mailed once; bootstrap removes no lane that has tasks
  and gives a handover to one lane only; pruning keeps what is within retention.
* *Recalculation*: the values handed out are of one engine; the input is never
  changed, and nothing is left behind, whichever way the run ends.
* *Gate*: exit 0 is earned: what would have been an error was judged, or excused
  by somebody whose waiver was good that day.
* *Inspection*: what a rule reports is what the workbook says, whatever the order
  in which formulas were typed, filled and moved.

### Hard behaviours

1. **Several processes, one database.** The service, the console, one-shot
   `process` workers and every command open the same store; each constructs a
   coordinator, and the constructor *recovers interrupted runs*.
2. **Whole-row saves of old copies.** Every save writes the whole envelope a
   process holds, sometimes listed minutes before.
3. **Awaits.** Inside a process other threads run at every await: between the
   lane read and its save, between a run's start and its end.
4. **Check, then act**: claims, idempotency keys, the lock file, statuses.
5. **Crashes** leave rows, claims and the lock file as they are; imports, backups
   and adoptions are several commits each.
6. **Timeouts**: ttls of tasks, messages and claims; no deadline on a run; a
   deadline on soffice's start.
7. **Fallback**: an engine may fail after it has written half a copy.
8. **Dates**: the gates and the waivers read the day separately.

Each is listed at its line under `hazards` in `PROJECT.json`.

## 2. Modules

| Module | Models | Proved in |
|---|---|---|
| `TaskControl` | task life cycle, approvals, claims, process life cycle and recovery | `TaskControl_proofs` |
| `MCTaskControl` | instances of it for TLC | |
| `Inbox` | messages, routing, synchronisation with tasks | `Inbox_proofs` |
| `MCInbox` | instances of it for TLC | |
| `ServiceLock` | lock file, stop file, heartbeat, call by call | `ServiceLock_proofs` |
| `Mutex` | the abstract specification of a workspace lock | |
| `MCServiceLock` | instances of `ServiceLock` for TLC | |
| `LaneAgents` | the row of a lane, its agents, pause, rotation, edits | `LaneAgents_proofs` |
| `MCLaneAgents` | instance of it for TLC | |
| `StoreUpkeep` | bootstrap, legacy import, backup, restore, commit by commit | `StoreUpkeep_proofs` |
| `MCStoreUpkeep` | instance of it for TLC | |
| `RecalcChain` | one recalculation: backends, copies, clean-up | `LintRun_proofs` |
| `LintRun` | one lint command around it: gates, rules, waivers, exit code | `LintRun_proofs` |
| `MCLintRun` | instance of `LintRun` for TLC | |
| `WorkbookRules` | formula walk, shapes, spans, references and the ten rules, as operators | `WorkbookRules_proofs` |
| `MCWorkbookRules` | instance of it for TLC | |

The modules are separate views of one program; `LintRun` composes `RecalcChain`. `TaskControl` uses the workspace
lock as `ServiceLock` proves it to be unless a live process's file is unlinked (entered when free), and
`Inbox` uses the execution of a task as far as `TaskControl` leaves it: a task in the
table is queued, paused, running, ended or expired.

### 2.1 TaskControl

*State.* `tasks` is the table: per task its status, `metadata.run_owner`,
`metadata.approved_actions` and `metadata.pending_approval_id`; everything else of a row (texts, evidence,
timestamps) does not influence control. `approvals` and `claims` are the other
tables (`claims` holds the unreleased rows). `lock` is the token in the
workspace lock file. The rest is memory of the processes, lost when one ends:
`phase` (down, starting, ready, serving, cycled), `seen` (the live token read by
the constructor), `held` (the envelope objects of the batch), `stage` (how far
`_execute_task` got), `got` (`acquired_artifacts`) and `target` (the artifact
whose claim was checked and not yet inserted). `errand` is what each operator
command in progress (`Clerk`) holds: the verdict it has saved, or the row it has read
and changed. `granted` and `stranded` (approvals whose answer may be lost) are history
variables, `commands` counts commands for the bound.

*Actions and code.*

| Actions | Code |
|---|---|
| `Submit` | `submit_task` (coordinator.py:91) |
| `Resolve`; `Approve`, `Reject`, `PauseOrResume`; `SaveTask` | the save of the approval, the read of the task and its save (coordinator.py:612-710) |
| `KillCommand` | a command killed between its commits |
| `StartProc`, `RecoverInterrupted` | constructor and `recover_interrupted_tasks` |
| `TakeLock`, `Exit`, `Cancel` | `WorkspaceServiceLock`, `serve` and its `finally` |
| `Crash` | kill of a process |
| `RecoverCommand`, `Cycle` | `recover`, and `process` up to the batch |
| `DenyWrite`, `Admit` | `_execute_task` 821-846 |
| `RequestApproval`, `AwaitApproval` | the two commits of `request_approval` |
| `CheckClaim`, `RefuseClaim`, `InsertClaim`, `InsertFails` | `acquire` and its two failures |
| `MarkRunning`, `AgentReady`, `RunStarted` | the three saves of a running envelope |
| `Finish`, `ReleaseClaims` | 932-987 |

*Atomicity.* A step is a commit. The `Sync` stages hold the event loop of their
process (no await between them), so only other processes interleave there; at
the other stages any thread may move. `submit_task` is one step although it looks the
key up and inserts later: the unique key makes the later of two submitters fail. `Unwind` runs the `finally`
blocks of all executions of a process in one step.

*What TLC cannot see.* `LongRuns = FALSE` in every run: a claim does not reach
its ttl (3600 s) while its task executes. Nothing in the code enforces this: a
longer run loses its claims. `StartsApart = TRUE` in the passing runs and in
`TaskControl_lane_workers`: start-ups
do not overlap each other or a one-shot command; section 3 says what happens
without it. The lock file is a single step here (see `ServiceLock`). An `InsertFails` ends the process, as in `serve` and the commands; the console
reports the error and lives on, which is the weaker case (the other executions
go on).

*Left out.* Shadow mode (it writes metadata only), dead-lettering of
`retry_exhausted` tasks (only tests set the flag), delegation (a `submit` with a
fixed key), policy denials other than read-only (the shipped registry has none),
restore of a backup.

### 2.2 Inbox

*State.* `mail` is the messages table: status, `metadata.executable` and target of
each message; `sent` orders messages by creation. `job` is the status of the task
under the key `message:<id>`. The router is one process, the holder of the
workspace lock: `stage` is where its cycle is, `copy` the envelopes
`list_messages` returned and that are still to be routed, `found` the status of
the task `submit_task` returned, `thread` how far it is with each task. `desk` is
what a command (`inbox-promote`, `inbox-ack`) has read and not yet saved. `allowed`,
`acked` and `done` are history variables.

| Actions | Code |
|---|---|
| `Send`, `Propose` | `inbox_send`, `_enqueue_agent_proposal` |
| `Read`, `SavePromoted`, `SaveAcknowledged` | `promote_message`, `acknowledge_message`: read and save apart |
| `Cycle` | `recover` (expiry) and the listing of `route_pending_messages` |
| `Refuse`, `Hold`, `Submit`, `MarkRouted`, `SyncRouted` | the branches and commits of its loop |
| `Batch`, `Run`, `Finish`, `SyncDone` | `process`, `_execute_task` as far as a message depends on it, `_sync_source_message` |
| `Start`, `Crash`, `SetJob`, `RegisterLane` | restart with recovery, kill, pause and resume of a task, a lane comes into being |

*Abstractions.* Approvals of message tasks are `TaskControl`'s. A batch takes all
queued tasks (`max_tasks` is in `TaskControl`). The read and save of one
synchronisation are one step. `Expirable` says whose ttl may lapse and `Handled`
which messages commands touch, so that a run can exclude either. At most eight
proposals of one answer are accepted; here the number of messages is the bound.

### 2.3 ServiceLock

*State.* `file` is what has the name of the lock file: the token of its maker (one
per incarnation of a process, standing for its pid too) and whether the payload
is written; `stop` is the stop file, `beat` the heartbeat in the store, `end` the
variable `state` of `serve`, `phase` where each process is. A step is one call:
`Create` (`O_EXCL`), `Write`, the read with the look at the process (`Refused`,
`TakenForDead`), `Unlink` by name; then the loop of `serve` or `run_console`, the
last heartbeat, `Check` and `Release` of the file, `CleanUp` of the stop file.

`Mutex` is the abstract specification: a process enters when nobody is inside.
`ServiceLock` implements it under `CarefulSpec`, whose steps satisfy `UnlinksDead`: the
file an attempt unlinks is not that of a process that lives. Attempts overlap in every
other way. The code does not ensure `UnlinksDead`, because it reads the file, looks at its
process and unlinks the name in three calls (service.py:36-59): `ServiceLock_duplicate`
shows what follows, and the theorem that nothing else goes wrong. `UnlinksOpen`
distinguishes POSIX from Windows, where unlinking a file that is open for writing raises
and ends the starter; the runs are on Windows, which under `UnlinksDead` has all the steps
of POSIX and that failure. `TaskControl` takes
the lock in one step: that is this module's abstract specification.

### 2.4 LaneAgents

*State.* `row` is the lane's row in the store: status, current and prior agents,
runs since the last rotation, failed starts in a row. Memory of processes: `live`
(agents of `AgentManager` with a handle), `paused` (`_paused_lanes`), `edit` (an
operator's edit that has read the row), and of each coroutine `op`: at which await
it is and the row it holds. `sends` (runs of each agent), `known`, `failed` (since a start
last succeeded or a successor was made: the starts that failed with a `StartupError`, and
the successors that were tried), `crossed` (two operations have overlapped) and `standing` (a pause
made at rest) are history.
An agent is the number of its creation. Lanes share no state, so there is one.

| Actions | Code |
|---|---|
| `StartBatch`, `StartTask` | `run_lane` (coordinator.py:798-811) and the start of a task (875-905) |
| `BuildFails`, `ResumeSucceeds`, `ResumeFails`, `StartBreaks` | `get_or_create` (agents.py), the failed-start counter (coordinator.py:497-537), a start that fails with another exception, which is not counted (964-976) |
| `SendAccepted`, `SendBusy`, `SendFails`, `RunEnds`, `Closed` | `run_task`, its two failures, the `finally` (977-987) |
| `RotateLane`, `Disposed`, `CloseFails`, `Created`, `CreateFails` | `rotate_lane` (712-730), `rotate`, `dispose` and `create` (agents.py:36-130) |
| `ReadForEdit`, `SaveEdit` | pause, resume and model edits (594-610): read and save apart |
| `Crash` | kill of a process |

A step is what happens between two awaits; every save writes the whole row a
coroutine holds. `runs` stands for `run_count` and `task_boundary_count`, which move
together; the other reasons to rotate (age, health, size of the envelope,
corrections, another spec) are one nondeterministic reason. The properties are stated for operations that do not
overlap: with an edit or a rotation by hand in the middle of a run the whole-row
save forgets what the other did (section 3). The runs' CONSTRAINT `Uncrossed` drops
the states after an overlap, in which nothing is claimed; overlaps themselves are
steps of the model, and the proofs do not use the constraint.

### 2.5 StoreUpkeep

*State.* `db` is what the commands touch of the store: lane rows (handover path, has
it an agent), which lanes have tasks, how many messages refer to a legacy file, the
import ids. `laneOf` is the lane key in each handover file, `backups` the file of each
day, `cmd` where each process is and the copies it holds, `arriving` a task being
submitted. `excused` and `raced` are history.

| Actions | Code |
|---|---|
| `StartBootstrap`, `SkipHandover`, `ListAliases`, `CheckAlias`, `DeleteAlias`, `Blocked`, `Adopt`, `SaveAdopted`, `BootstrapEnds` | the loop of `bootstrap_handovers` (bootstrap.py:48-132) |
| `StartImport`, `CheckImport`, `SendImport`, `RecordImport`, `ImportEnds` | `audit_or_import_legacy_inbox` (legacy.py:30-99): message and import id in two commits |
| `StartRecover`, `RestoreBackup`, `BeginBackup`, `EndBackup`, `BackupExists`, `Prune` | `recover` (coordinator.py:732-752), daily backup, retention and restore (state.py:274-314) |
| `DayPasses`, `EditHandover`, `Submit`, `SaveTask`, `GetAgent`, `Crash` | the surroundings: midnight, people, lanes at work, kills |

SQLite's online backup is external: it is a snapshot, and a backup that was cut
short opens as an empty store. `RestoreBackup` takes any backup that is kept, as the
command line does. A legacy file may be mailed twice when a crash, a backup or another
import falls between message and import id, or a restore between the look at the ids and
the message: the restored store may hold the message already. `ImportedOnce` counts these
occasions and allows no other.

### 2.6 RecalcChain and LintRun

`RecalcChain` models `recalculate`: `source` is the input (readable, the origin of each
cached value), `workspace` the temporary directory, `copy` the copy staged last,
`engines` what runs on behalf of this run, `attempts` the records, `step` the place in
the chain. A cell's value is only *who computed it*: that is what `OneEngineValues`
needs, and it lets an injected value be told from one that was there before.

`LintRun` puts the command around it: `file` is the configuration as written
(severities, widened options, raised budgets, waivers, an unknown rule), `built` the day
its gates passed, `workbook` the values loaded, `rule` the place in the loop, `found`
and `ranOn` what each rule returned and when, `findings` and `exit` the report. What a
check finds is left open: at most one finding, anywhere (`WorkbookRules` has the checks).

| Actions | Code |
|---|---|
| `Probe`, `Measure`, `LoadConfig`, `ConstructConfig` | cli.py, `assert_readable`, `load_config`, the gates of `Config.__post_init__` |
| `Recalculate` ... `QuitRaises` | recalc/api.py and the three backends |
| `LoadCopy`, `LoadSource`, `CopyUnreadable`, `RecalcRaised` | the two loads of `_run_lint`, the exits of `main` |
| `PassOver`, `SkipRule`, `CheckRule`, `RuleRaises`, `PrintReport` | `lint()`, `Report.exit_code` |
| `Midnight`, `LoseSource`, `InterruptChain`, `InterruptLint` | the date, other programs, Ctrl-C at any step |

### 2.7 WorkbookRules

`draft` is a formula that is typed token by token; `book`, `names` and `edits` a
workbook that is edited: values and formulas typed, filled to the right with their
references moved, headers typed. These variables are inputs only, and `Cell`, `Name`, `Token` and
`Formula` are their types (`StoredInv` among the proofs; a formula never closes a function
it did not open, and an array constant is a list of numbers). What the module models is the
operators: `walk_formula`, `Shape`,
`resolve_name`, `Edges`, the spans (`infer_formula_runs`, `detect_period_axes`) and the
rules `XL001` to `XL104`. Each property compares an operator with a definition written
another way: the functions that enclose a token by counting, a run by its neighbours,
an aggregate over text by the cells its arguments cover, the header of a sheet by its
first, last and neighbouring cells.

Tokens are those the walk and the shapes tell apart, among them the commas inside the braces
of an array constant, which openpyxl's tokenizer types like those between arguments. A
reference is to cells (`range`, of this sheet, another one or a span of sheets), to whole
columns or rows (`whole`), which have no bounds on one side, or a name; a structured
reference is a name that is not defined. A name denotes any number of areas. In the run a label is
one of five strings, a number format numeric or not, a formula at most six tokens.

## 3. Runs

| Run | Instance | Question | Result |
|---|---|---|---|
| `TaskControl_lane` | one service with two starts, two tasks of one lane (writer; stale source with ttl), two approvals, two commands that may overlap | types; a waiting task names an approval that is or will be answered; approval gate; no orphan under a serving service; a running task does not stay running | holds |
| `TaskControl_worker` | a service and a read-only worker, two writers in two lanes on one artifact, three commands, start-ups apart | single writer; claims kept | holds |
| `TaskControl_two_workers` | a worker and a command, no service | recovery touches only interrupted runs (README.md:57) | violated |
| `TaskControl_lane_workers` | a service and a worker, two tasks of one lane, start-ups apart | runs of a lane are serial (README.md:48) | violated |
| `Inbox_safety` | two messages, one refused by the mode and one with a ttl, two lanes, two starts | types; work was allowed; routed mail has a task; delivered mail has a cause | holds |
| `Inbox_settles` | two messages, one start, nothing lapses or pauses, room for both in a cycle | a routed message is delivered or dead-lettered; executable mail for a known lane does not stay pending | holds |
| `ServiceLock_contended` | two services, a console, two starts each, attempts overlap, Windows, no file of a live process is unlinked | types; the lock file is a mutex; who serves is visible; cycles run behind their own heartbeat; a requested stop ends the service, unless it is taken away with another's | holds |
| `ServiceLock_duplicate` | the same, any file is unlinked | no duplicate services (README.md:98) | violated |
| `LaneAgents_lane` | a batch coroutine, a rotation by hand, a service, a command | types; no agent is lost from the lineage; a run has its lane's agent; an agent gets at most `RunLimit` runs each time it is the lane's (and one per crash or failed close); a successor is tried at `FailLimit` failed starts in a row, and after as many again if none could be made; a pause made at rest stands until it is resumed or rotated away | holds |
| `StoreUpkeep_commands` | two processes, two handovers, two lanes, a legacy file, two days; three commands, or six where no lane is touched | types; a legacy file is mailed once; no lane with tasks is removed and a handover belongs to one lane; pruning spares the days of retention and no older one | holds |
| `LintRun_run` | two rules, two cells, one waiver of seven, two days | types; exit 0 is earned; values of one origin; nothing left behind; every command ends | holds |
| `WorkbookRules_edits` | formulas of six tokens; two sheets of 2 x 3 cells, three edits, five sets of names, headers of two and three periods | literals are placed in their function and, array constants apart, argument; mixed runs are found; text in a bounded aggregated area is found; a constant is judged as an input exactly when a formula reads it; main headers that agree but for their column are found | holds |

### What the models show beyond the runs

The violated runs are listed under `findings` in `PROJECT.json` with the line of
the code and the sentence it disagrees with. The passing runs hold under the
instance they name. These changes of a constant break them, each for a reason in
the code:

| Property | Instance | What the code does |
|---|---|---|
| `RecoveryOnlyInterrupted` | a service and a command, `StartsApart = FALSE` | a command reads the live token (coordinator.py:72) before a service takes its lock and recovers after it started a task; README.md:59-61 says that tasks of the live service are never recovered by other processes |
| `NoOrphanWhileServing` | two services | recovery runs in the constructor, before the lock is tried: an owner that dies in between is not recovered; README.md:57-58 |
| `OneWriterPerArtifact`, `ExecutorHoldsClaims` | `LongRuns = TRUE` | a claim lapses after an hour whether or not its task still runs |
| `ExecutableRoutes` | `MaxMessages = 1` | held mail takes up the room of a cycle (coordinator.py:291), until it lapses, by default after a day; README.md:68 |
| `RoutedSettles` | `Expirable = Pausable = {m1}` | a task that stays paused keeps its message routed, and if it lapses meanwhile, nothing synchronises the two any more (state.py:1095, coordinator.py:806) |
| `AwaitingNamesItsApproval` | without `a \in stranded` | an answer given between the two commits of `request_approval` (coordinator.py:643, 647) is overwritten by the second, and a command killed between its commits leaves an answered approval of a task that waits; giving the answer again puts it right |
| `StopHonoured` | without the condition on `cleanup` | the stop file is removed after the lock is released (service.py:147) and may have been meant for the next service; README.md:101 |
| `RoutedSettles` | `MaxStarts = 2` | a crash between the end of a task and the synchronisation leaves the message routed for good: the task is no longer in a batch; README.md:69-70 says a message is pending, routed, delivered or dead letter |
| `LineageKept`, `RunOwnsAgent` | without `~crossed` | `rotate_lane` takes no lane lock, and edits save a row read before: an agent is dropped from the lineage without being disposed, or a run goes on with an agent that is no longer the lane's |
| `StartupHeals` | without `failed.tries` | the count of failed starts is cleared when a successor is tried (coordinator.py:497-537, agents.py:103-130): if it cannot be created, the agent that does not start fails `FailLimit` more starts |
| `ImportedOnce` | without the excuse in `RestoreBackup` | an import that found no id mails a file the restored store has mailed already (src/orchestrator/cli.py:262, state.py:304-311) |
| `LiteralsPlaced` | without `~Shifted` | the comma of an array constant counts as an argument's (tokens.py:78): in `=ROUND({1,99})` XL002 takes 99 for the exempt second argument; excel-library/docs/rules/XL002.md:7-8 |
| `MixedRunsFound` | `{"range", "whole"}` for `{"range"}` | whole columns and rows are passed through (tokens.py:126-128): `=SUM(A:A)` filled to the right is reported as a different shape |
| `AggregatedTextFound` | with whole columns in `Covers` | an area without all its bounds is skipped (rules/__init__.py:217-219); the "Known gap" of docs/rules/XL005.md |
| `BootstrapKeepsLanes` | without `~raced` | a lane judged empty (bootstrap.py:94) gets a task before it is deleted |

Met while translating, and visible in the models:

* A pause is asked about once per batch (coordinator.py:799-803): a lane paused during
  a batch still runs the tasks listed before, and the end of a run writes IDLE over
  PAUSED in the row (977-987). The root README.md:145 says that pause prevents the next queued task.
* With two services each keeps handles of agents the other has disposed.
* After an exception other than a cancellation the last heartbeat of a service says
  "running" (service.py:93, 129), against the comment at service.py:97-99.
* A backup that was cut short counts as the day's: no other is made that day.
* When every backend failed and the file has a complete set of cached values of its own,
  lint exits 0, not 2 (cli.py:92-94; excel-library/README.md:95-97).
* `XL001` finds the users of a name by its text (rules/__init__.py:106-111); if a
  sheet's name hides the workbook's, formulas on that sheet count as its users.
* The docstring of `normalize_formula_shape` says that references to a span of sheets
  pass through unchanged; the code cuts them at the last `!` and normalises the rest
  (tokens.py:142-146), so that they move like others, as the model has it.
* A start that fails with an exception other than `StartupError` (coordinator.py:964) is not
  counted: such a lane keeps its agent for as long as that goes on.
* A `ValueError` raised inside a rule ends with exit 3, which cli.py:99 reserves for
  unreadable input; any other exception is the interpreter's exit 1, the code of a
  report with errors.

### Bounds, and why they are enough

Two tasks, one artifact and two approvals let two executions meet on the
artifact, in one lane or in two, and one of them be asked about twice. Two
processes are what every race needs; `MaxStarts` bounds the incarnations: one or
two starts of each show a crash, the recovery by the next and the takeover of a
dead lock. `ApprovalId` bounds how often approvals are requested; a task that
needs one when the ids are used up stays in the batch, which only removes
behaviour. `MaxCommands` bounds the commands about a task: two that may overlap each
other and the service in `TaskControl_lane`, three in turn in `TaskControl_worker`,
where two writers need two grants. With starts and commands used up an instance rests,
so deadlock is not checked. `MaxTasks = 2` lets a batch hold both tasks. No symmetry is used.

`Inbox`: two messages are one held and one executable, or one that ends and one
that waits; two starts show every crash and what the next router makes of it;
one command at a time is enough for a late save, since commands only race with
the router here. `MaxMessages` is the number of messages; with 1 held mail starves
others, as said above.

`LaneAgents`: one lane needs one run coroutine (a process runs a lane's batch under a
lock), one rotation by hand and one other process. Three runs per agent are one to
keep, one to count and one at the limit; four executions pass the limit; two failed
starts reach theirs; two upsets (crash, edit, failed close, rotation by hand) give each
pair of them.

`StoreUpkeep`: two commands give every overlap, three starts a restart after a crash,
two lanes and two handovers every alias; with `Retention = 0` the second day prunes the
first. Mail needs more: import, backup, restore of an older store and an import beside it are
four commands and more, so the run's CONSTRAINT `Bounded` goes on to six where nothing has been
done about a lane (and three otherwise). Processes are symmetric and no property names one.

`LintRun`: one rule that is an error by default and needs values and one that is neither
are all the loop tells apart; of seven waivers (good, expiring, unsigned, for a place, for
another place, with an empty field, for a budget) a file holds at most one, because
waivers never combine; two days let one expire between any two steps. Two cells are
one written and one missed; one failed poll is before the deadline.

`WorkbookRules`: the span functions look one cell ahead, so three columns show a run, its
end and a gap; two rows and two sheets show that neither continues a run; three edits
write, fill and break one, or give one sheet a long and a short header and another sheet one to
compare with. Two headers in one row, and long ones that start in different columns, need
more columns; the theorem is about any number.

`ServiceLock`: two starters race for one lock, and a third process shows that the
loser of a race leaves others alone; two starts of each show a crash and the
takeover; a service beside a service is where a stop may be meant for another.
`CHECK_DEADLOCK FALSE` stands where the starts may be used up and
nothing is left to do.

### Fairness

`FairSpec` assumes weak fairness of `RecoverInterrupted`, `TakeLock` and of
`Execute(p, t)`: a live process executes its next statement, the event loop
serves every thread, and an agent that was prompted answers or fails (the
runtime has no deadline, so this is an assumption about the SDK). It assumes
nothing about people, about starting processes or about crashes; `RunsEnd` is
therefore conditional on a service that stays up in the end.

In `Inbox` the router's steps, `Run`, `Finish` and `SyncDone` are weakly fair, on the
same grounds; both liveness properties assume `StaysUp`, a router that is up in
the end. In `ServiceLock` a live process executes its next statement and a cycle
ends (`CarefulFairSpec`, among the steps that `UnlinksDead` allows); nothing has to start, to
fail or to be cancelled.

`LintRun` assumes that the command, one thread of control, goes on (`WF_vars(Command)`):
no backend hangs for ever in a single call, which only the connection to soffice has a
deadline against. The date, other programs and Ctrl-C need not move. `LaneAgents`,
`StoreUpkeep` and `WorkbookRules` state safety only and assume no fairness.

## 4. Proofs

`TaskControl_proofs` proves seven theorems for all constants that satisfy
`ConstantsAssumption`: any tasks, artifacts, lanes, processes and approvals. The first
three hold with overlapping start-ups and runs longer than the ttl; the others say what
they assume beyond it.

* `TypeCorrect`: `Spec => []TypeOK`. `TypeOK` is not inductive because
  `InsertClaim` adds the artifact that `CheckClaim` remembered; `TargetOK` says
  it is one of the task's. One lemma per group of actions (`OperatorType`,
  `LifecycleType`, `HousekeepingType`, `ExecuteType`).
* `ApprovalGate`: `Spec => []ApprovedBeforeClaim`. A grant travels: from the
  approval into the row's `approved_actions`, from the row into the copies
  processes hold, from a copy into the admitted stage, and from there into claims
  and the running status. `GateInv` states each link (`GrantedRows`,
  `GrantedCopies`, `GrantedErrands`, `GrantedThreads`, `GrantedClaims`, `GrantedRuns`);
  stale saves only move links that hold already.
* `WaitsAreAnswerable`: `Spec => []AwaitingNamesItsApproval`. No copy waits but that of
  a thread between the commits of its request (`AskingOK`), so no stale save brings a
  resolved wait back; that copy names its approval already (`AskedOK`); and a command
  keeps hold of the approval it answered (`CommandOK`) until it has saved the task, which
  ends the wait.
* `NoOrphans`: `Spec => []NoOrphanWhileServing`, from `OneExecutor(s)`: the processes other than
  `s` are no service, and if they are workers, they may not execute any task (commands
  may be as many as there are). What they do is then described once (`DeniedLeaves`,
  `OthersKept`). `ThreadInv`: within one process
  a lane has one execution (`LaneInv`), a process that does not execute holds nothing
  (`RestInv`), and a copy that runs carries its holder's token (`OwnCopies`). `OrphanInv`: a
  live token seen at the start can only be one's own, so once `s` has recovered, every
  running task carries its token; `ThreadInv` adds the thread that works on it. That the
  runs of a lane are serial across processes is not proved, since it is false
  (`TaskControl_lane_workers`); within one process it is `LaneInv`.
* `ClaimsAreHeld`: `Spec => []ExecutorHoldsClaims`, from `OneService(s)`: `SoleService(s)`
  (`OneExecutor(s)` for a service, and `StartsApart`) and runs within the ttl. `ServeInv` says that who serves
  has the lock; `HoldInv` that what a thread counts as acquired is in the table, and that
  it counts all artifacts of its task when it executes. Whoever deletes claims (`release`, recovery, the end of a process) is shown to
  delete none of a thread that goes on (`RecoverySpares`, `ReleaseHolds`).
* `OneWriter`: `Spec => []OneWriterPerArtifact`, from `ClaimsAreHeld` and the partial
  unique index (`IndexInv`), which needs no assumption.
* `RecoverySparesExecuted`: `Spec => RecoveryOnlyInterrupted`, from `SoleService(s)` and
  runs of any length. Only `s` executes (`OthersRest`), it then has the lock (`ServeInv`),
  so every recovery has read its token (`StartInv`), which the row carries (`OrphanInv`).
  `TaskControl_two_workers` refutes the same property where a worker executes without a
  service: the theorem says what README.md:57 needs in order to be true.

`Inbox_proofs` proves `TypeCorrect`, `OnlyAllowedWork`, `RoutedMailHasTask` and
`DeliveredMailHasCause` from one invariant, `InboxInv`: rows come back into the table
from the desk and from the router's list, so it says of every copy what the
property says of the table (`CopiesAllowed`, `CopiesSent`), and of the message whose
turn it is what the router remembers of its task (`Answered`). `Ordered` makes the
turn one message's. `SaveInv` states when saving a row is harmless, and each action
that saves one shows its premises.

`ServiceLock_proofs` proves of `CarefulSpec`, with any attempts overlapping, that every step maps to a step of
`Mutex` or a stutter (`LockIsMutex`), and that whoever serves is visible in the lock
file (`ServiceIsVisible`). The invariant `LockInv`: whoever is inside owns the file
that has the name, so that only one is. So the unlinking of a live process's file is the only way to
lose the lock, however attempts, crashes and late writes mix.

`TypeCorrect` of the same module is about `Spec` itself. `CyclesBehindBeat` adds its property to
`LockInv`, with which it is inductive: nobody but the process inside writes a heartbeat.

`LaneAgents_proofs` proves `TypeCorrect` (`HoldsRow`: a coroutine that saves holds a
row), `LineageIsKept`, `RunKeepsAgent` and `StartupsHeal` from one invariant `LineInv`: as
long as nothing has overlapped, at most one coroutine is out (`Alone`), the row it holds
and the row in the store agree but for what it is about to save (`Agreed`), the agents
follow each other in the order of their creation (`Chain`), the lane's agent is the one
that runs (`Owned`), and the starts that failed are those counted on the row and `FailLimit` for every
successor that was tried in vain (`Counted`). Each action is
described by its `Effect` (whose turn it is, what it does to the lists, whether it clears,
keeps or raises the count), and one lemma shows that every effect keeps `LineInv`; edits
and crashes come from the side (`AsideKeeps`). `PauseIsKept` has an invariant of its own,
`PauseInv`: while a pause stands, every coroutine is at rest and none can start.

`RunsAreBounded` proves `AgentRunsBounded` from `RunsInv`, beside `LineInv`: what an agent was
sent is covered by its turns that are over, the runs counted on the row while it is the
lane's, the run that is not counted yet, and what crashes and failed closes lost
(`Within`); and an operation that may still send has a count below the limit in its copy of
the row (`RunsHeld`). The prompts of a turn that ends are thereby at most `RunLimit`,
which the next turn starts from.

`LintRun_proofs` proves `TypeCorrect`, `ZeroEarned`, `OneOrigin` and `NothingRemains` for any
rules, settings, waivers, cells and days. `ChainInv` says whose turn each step of the
chain is (`TurnInv`), that a stored copy holds its backend's values only and no attempt
has succeeded before the last (`ValueInv`), and that what was started belongs to the
step the chain is in (`CleanInv`). `LintInv` adds where the workbook came from
(`CommandInv`), that the gates passed on the day `built` (`GateInv`) and, rule by rule, what
a turn leaves behind (`Settled`, `RuleInv`): off, skipped, or run on a day with a result
that a waiver of that day excuses or the report carries.

`RunIsBounded` is the half of `LintEnds` that is a safety property. `CommandLeft` counts the
steps a command has left: it starts with `NumRules + 4 * MaxPolls + 39`, every step of
`Command` takes at least one from it, the surroundings (midnight, Ctrl-C, other programs)
give nothing back, and it is zero exactly when the command has ended. What it leaves to
TLC is that a command that has not ended can always take a step (`ENABLED`) and, being
fair, does.

`StoreUpkeep_proofs` proves all four properties of its module, from no assumption but the
types of the constants. `TypeInv` adds to the types what a command holds at each step
(`Fits`) and that no command works for a day to come (`DaysPast`), from which
`RetentionIsKept` follows. `ImportsOnce`: `MailInv` counts the messages of a file together
with the imports about to send one against the excuses; `BackupInv` says of every backup
what it may hold to be restored, in whatever order, beside imports under way; `RecordInv` is
about what is on record, in the store and in every backup. `LanesKept`: `LaneInv` says, as long as
nothing raced, that the store and every backup are good (`GoodStore`), that who adopts a
handover is alone (`AloneInv`), and that the aliases it has not been through are those it
still has in hand (`AliasInv`). Steps that concern neither are described once (`Quiet`,
`Still`).

`WorkbookRules_proofs` proves the five properties of its module for sheets of any size,
formulas of any length and nesting, any names, labels, exemptions and aggregates:

* `StoredIsWellFormed`: `Spec => []StoredInv`, the types, of which the part that matters is
  that every formula nests its functions: filling to the right and copying keep it, because
  they change the corners of references only. All other theorems follow from `StoredInv`
  in one step, since their properties are about one state.
* `LiteralsArePlaced`: `WalkInv(f, i)` says what `walk_formula` holds after `i` tokens: the
  stack is the list of the functions still open, innermost last, each with the number of
  separators at its level, those of array constants included (`FramesInv`), and every literal and range seen has its place
  (`LiteralsInv`, `RangesInv`). The definition it is compared with knows no stack: it counts
  open functions (`OpenAt`).
* `AggregatedTextIsFound` and `InputsAreJudged`: the edges of the graph are the references of
  the formulas, each with the function it stands in (`EdgesAreReferences`, from
  `RangesInv`), and `resolve_name` is the spreadsheet's reading of a name.
* `MixedRunsAreFound`: `ScanInv` says what `infer_formula_runs` holds after a column: the
  blocks of two or more found so far, the one that is open, and that every two neighbours
  that belong are in one of them. Two formulas have one shape
  exactly if one is a copy of the other (`ShapeIsCopy`); a run of mixed shapes then has
  two neighbours that differ.
* `AxesDoAgree`: the same scan, over periods. The axes found are exactly the headers, for any
  number of them in a sheet or a row (`AxisIsHeader`, `HeaderIsAxis`: the blocks of
  `ScanInv` are maximal), `Before` orders them as `Outranks` does (`HeadersInOrder`), and so
  the axis that is compared is the main header (`MainAxis`), whose labels are compared one
  by one (`SameLabels`).
* `AxisIsUnambiguous` states no property of the run: among any number of axes of a sheet,
  `detect_period_axis` takes the one that is longest, then topmost, then leftmost, and no
  two rank alike, so the order in which they were found does not matter.

The induction over tokens and columns does not use the theorems of the library, which take
an operator as a parameter: `InductionOnNat` says that a set of naturals which has 0 and,
with each of its members, the next one, has all of them. It is applied to the set of steps
at which the invariant holds. The walk and the scan are recursive functions for that reason.

Only model-checked are the liveness properties (`RunsEnd`, `RoutedSettles`,
`ExecutableRoutes`, `StopHonoured`, `LintEnds`) and the three refutations. Liveness under
fairness and `ENABLED` are out of the prover's reach. Every invariant and every action
property of a passing run is stated by a theorem; where the theorem assumes more than the
constants' types (a single executor, start-ups apart, `UnlinksDead`), the run's instance
satisfies the assumption, and section 3 says what happens without it.

## 5. Not modelled

HTML, argument parsing, prompts, context envelopes, JSON exports, report formatting, SDK
calls, the reading of workbooks and of the configuration files: I/O or rendering without
state of their own. Further: shadow mode, delegation, the registry export; a hard kill of a
lint command (which leaves its temporary directory) and the free port found for soffice
and released before it binds. The reason for each component is in `PROJECT.json`.

## 6. Plan

1. Proofs: what a fair command needs for `LintEnds` as far as it is safety (that it is
   never stuck), and a bound like `RunIsBounded` for a router's cycle in `Inbox`.
2. Models: delegation, shadow mode and `retry_exhausted` in `TaskControl`; the reasons to
   rotate that are one choice in `LaneAgents`.
