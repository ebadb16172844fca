# A formal model of Taskurotta (gofer-flow)

Taskurotta runs graph workflows: a workflow is compiled (Radish) or loaded (TOML),
its nodes run as tasks of an event loop, and stores on disk coordinate the processes
around it: runners, approvals, watchers and the desktop app. The specifications here
model the parts whose correctness depends on the order of events. They are written
from the Python source under `src/gofer` and, for the desktop app, from the JavaScript
source under `frontend`; line numbers in a section refer to the file it names.

## 1. The system

| Component | State it keeps | Operations | Interacts by |
|---|---|---|---|
| Radish scheduler, `radish/workflow_runtime.py` | per node: pending activations, running groups, run counts; per lineage: satisfied nodes; loops; a completion stream; the first error | start, complete, fail, retry, open and close loops, merge signals, time out, cancel | tasks of one event loop send completions through a bounded stream |
| Radish node execution, `radish/runtime.py` | none of its own | run one handler, classify its outcome | called by the scheduler's tasks |
| Radish IR validation, `radish/ir_validation.py` | none | accept or reject a compiled workflow | gives the scheduler its preconditions |
| Runner queue, `core/runner.py` | two SQLite tables: runs and runners | enqueue, register, heartbeat, claim, cancel, finish, mark lost | worker processes, the CLI and the API share the database |
| Approval store, `core/approvals.py` | one JSON file per request | create, decide, wait, expire, claim and release a resume | the executor polls; the CLI and the API decide |
| File watcher, `core/watcher.py` | snapshots, debounce clocks, queues, running counts | add and remove workflows, poll, start queued runs | a poll thread, a thread per run and the threads of the server's requests under one lock; the file system |
| TOML executor, `core/executor.py` | frontier, run counts, loop and for-each state, node outputs, run log | run nodes, queue successors, resume from a log, stop | event loop tasks, stop files, approval files |
| Scheduled and continuous runs, `core/scheduler.py`, `utils/run_state.py`, `ui/server.py` | stop files, cron entries, monitored processes | start, stop, restart, adopt | files and processes |
| Revisions, artifacts, workspaces, `core/revisions.py`, `radish/artifacts.py`, `radish/workspaces.py` | documents and their histories on disk | save, restore, register | several files per save |
| Radish front end: lexer, parser, compiler, formatter, editor | none after a call | text to IR and back | files |
| Chat and authoring, `ui/chat.py`, `core/planner.py` | conversations, undo and redo stacks | ask, apply, undo | language models |
| Studio document editing, `App.jsx`, `CodeWorkspace.jsx`, `radish/editor.py` | the text of `workflow.rad` in the editor, on disk and in the view; the layout; timers and calls under way | type, save, autosave, edit the graph, move nodes, analyse, load | the renderer writes the file through the main process, the server writes it too |
| Terminal Git editor handoff, `electron/main.js`, `terminal-editor.cjs`, `App.jsx`, `CodeWorkspace.jsx` | terminal sessions, requests, open tabs, text and saves of the tabs | ask, register, open, type, save, complete, cancel | Git's client over a socket, the renderer by messages |
| HTTP API, CLI, rest of the desktop front end | views over the stores above | one request each | all of the above |

### What is hard, and what makes each part correct

- **Scheduler.** Several branches of several groups reach the same node; latches open
  per lineage; loops nest and can be broken, fail or be infinite; limits are charged one
  start at a time; a timeout or a failure may arrive between any two steps. It is correct
  when the latch never opens early, one group never runs a node twice at once, limits are
  exact, the scheduler never idles while something can start, a pass is a whole run, a
  break and a fatal failure stop what has not started, and every run ends.
- **Runner queue.** Several processes read and then write the same rows. It is correct
  when one worker executes a run, a final status stays, a cancel is honoured and a run is
  declared lost only when its worker is gone.
- **Approvals.** A decision, an expiry and a waiting executor write the same file. It is
  correct when a decision is final, an expired request is never approved, and one process
  resumes a run.
- **Watcher.** Polls, runs and edits of the configuration interleave. It is correct when
  the limits of concurrent runs hold also across a change of the configuration, queues stay
  bounded and in order, and what changed is noticed and started.
- **Studio.** The editor, the graph and the server write one file, and each answer replaces
  the document that the others show. It is correct when no edit is lost, and the file, the
  editor and the view agree when nothing is under way; the code is so only until edits cross.
- **Git handoff.** Git waits for a tab; the terminal, the window and the app may be closed at
  any moment. It is correct when each message has a tab, is saved before Git goes on, and Git
  always gets one answer.
- **TOML executor.** The same concerns as the scheduler, and a resume that rebuilds the
  frontier from a log. It is correct when a resumed run executes what was left and
  nothing that was done.
- **Scheduled and continuous runs.** A stop must win over a restart, and no workflow runs
  beside itself.

`PROJECT.json` lists the hazards with their lines.

## 2. Plan

1. `RadishScheduler` with its MC module and proofs — done, described below.
2. `RunnerQueue`, its abstract specification `RunLedger`, and the proof that the first
   implements the second — done, described in section 4.
3. `StudioDocument` and its proofs — done, section 5.
4. `TerminalEditor`, its MC module and proofs — done, section 6.
5. `FileWatcher`, its MC module and proofs — done, section 7.
6. `ContinuousRuns`: the monitor, stop files and restarts (`ui/server.py`, 306-366). A
   workflow that stops being continuous is forgotten while its thread runs; the limit of the
   server is checked apart from the start.
7. `WorkflowExecutor` and its resume: frontier, joins, loops, for-each, the run log; the
   frontier after a resume implements the frontier before the crash.
8. Proofs of the scheduler's accounts, latches, passes, order of starts, windows and breaks, of
   the watcher's limits, queues and order, and of the studio's text — done, section 9.

## 3. The scheduler: `RadishScheduler`

### State and actions

One behaviour is one call of `execute_workflow` (647-706). The variables are the fields of
`_WorkflowScheduler` that control depends on:

| Variable | Code |
|---|---|
| `pending`, `running` | the per-node dictionaries of activations (122-125); an element of `running` is a task of the task group |
| `completions` | the memory stream (135-140) |
| `satisfied` | `satisfied_by_lineage` |
| `loops` | `loops`, a record per `_LoopState` |
| `sequence`, `runCounts`, `totalRuns` | the counters of the same names |
| `records` | `records`, of which node, run, group, lineage and outcome are kept |
| `error`, `deferred` | the kind of `error`, and whether `deferred_loop_failures` is non-empty |
| `phase` | where `run` is: before its first step, in its loop, cancelling its task group, returned, or spinning in `_fill_loop_capacity` |

The code between two awaits is one action. `Begin` is `run` up to its first receive.
`AttemptSucceeds` and `AttemptFails` are the end of one attempt in `_run_activation`
(retry included). `CompleteFailure` and `CompleteNode` are one turn of the loop of `run`:
receive, the whole of `_process_completion`, and `_start_runnable` or the cancellation.
`CompleteSpinning` is the same turn when the call to `_fill_loop_capacity` never returns.
`TaskCancelled`, `Timeout`, `Quiesce` and `Fail` are the ways in which a run comes to its
end. The helpers of `_process_completion` are operators that map a record of the scheduler's
state to the next (`Enqueue`, `Satisfy`, `OpenLoop`, `FillLoops`, `SettleLoops`, `CloseLoop`,
`MergeLockedSignals`), so that `Advance` and `Control` compose them in the code's order.

Group ids are strings whose prefixes are the ids of the iterations a group lies in
(`live.startswith`, 443); the model keeps them as records with that set of prefixes in the
field `inside`. The order of a node's queue (`OrderedDict`) is the field `place`, and the
order of starts the field `sequence`; merged activations are where they differ.
`_start_runnable` is stated by what it chooses: `AreCandidates` takes as many from the front
of each queue as there is room, `AreAdmitted` starts them by number until `_reserve_run`
refuses one. A conditional route's predicate is a free choice.

`IsNode` states what `validate_ir_invariants` guarantees of a node, and is the assumption
of the theorems. Workflows in `MCRadishScheduler` satisfy it; TLC checks that on every run.

### Runs

| Run | Workflow and bounds | What it shows |
|---|---|---|
| `radish_cycle` | a review cycle entered by two groups that meet in a join, one retry, an allowed failure, `max-runs` 7 and 3, a fail terminal, a timeout | latch, queue and capacity under every order of completions; limits and accounts are exact; fatal outcomes halt |
| `radish_loop` | three iterations, two at once, a join in each, failures, a break | window, latches of an iteration, break, start order, room for completions |
| `radish_nested` | two iterations that each open a loop of none or two, whose work may open an infinite loop; breaks of the outer loop and, inside and outside of it, of the infinite one; `MaxRuns` 8, a timeout | a pass is a whole run; every run ends, however it ends, unless it hangs |

Every workflow is small but has each construct twice where two matter: two groups at a
join, two iterations live at once with a third to begin, two nested loops, a batch of starts
that straddles a limit. `MaxRuns`, where set, also bounds the cycles, as it does in the code;
no other bound cuts behaviours.

The properties, by the question they answer:

- *May something run?* `NeedsCompletedFirst` (the latch, per lineage),
  `NoDuplicateActivation` (per group), `CapacityRespected`, `RunLimits`, `LoopWindow`,
  `LatchCoalesces`, `ArrivalOrder`.
- *Must something run?* `WorkConserving`: between two steps no runnable activation waits for
  a node with room.
- *What may no longer run?* `BreakEndsLoop`, `FatalRunHalts`.
- *Does the result tell the truth?* `PassIsComplete`, `RunsAccounted`.
- *Does it end?* `CompletionsFit`, `Terminates`. `Terminates` sets apart the runs that hang in
  `_fill_loop_capacity` (`CompleteSpinning`, which `radish_nested` reaches): an infinite loop
  none of whose routes match is filled for ever inside one synchronous call, which no timeout
  can interrupt.

### Fairness

`Fairness` says that the event loop runs what is ready and that handlers end: weak fairness
of `Begin`, of the end of an attempt per node, of the receive of a completion, of a
cancelled task's end and of the two ends of `run`. The retry of an attempt is bounded, so
the attempts of a node end. Starting and receiving are stated on a few variables
(`WF_phase`, `WF_<<completions, records>>`): steps that receive are exactly those that change
these variables. That the clock of a workflow with a timeout runs out is not assumed.

### Disagreements between code and documents

`radish_nested_break` contradicts a line of `radish/planning` that `PROJECT.json` quotes: a
break of the outer loop lets the loop inside begin further iterations, because only the named
loop is closed and the settle refills the others. `BreakStopsIterations` states that line;
`BreakEndsLoop` is the part of it that holds.

Three properties say in their statements where the code keeps no promise, and hold of every
workflow as they are:

- `LoopWindow` leaves out a loop with loops in its iterations, since `_settle_loop_groups`
  computes the live groups before inner loops are refilled and takes an iteration for ended
  whose inner loop goes on; a loop inside one that was broken, since the iteration of the break
  is given away by the settle before the break's own routes are followed (338, 356); and a run
  that is being cancelled.
- `LatchCoalesces` leaves out what the completion of a loop unlocks: it returns before the merge
  (347).
- `ArrivalOrder` leaves out a merged activation beside activations in iterations: it has the least
  number of what it replaces and the last place in the queue.

## 4. The runner queue: `RunLedger`, `RunnerQueue`

### State and actions

| Variable | Code |
|---|---|
| `runs`, `runners` | the two tables of `core/runner.py` (478-505); `created` is the order of `created_at`, `arrived` that of the inserts, `fresh` whether `last_seen_at` lies within `RUNNER_STALE_AFTER_SECONDS` |
| `stamps` | the time `enqueue` takes (249) before it connects and inserts |
| `workers` | a process of `runner start`: where it is in `run_worker_once`, the rows that `claim_next` fetched, the run it has, the cancel event, the result of the workflow |
| `callers` | a process that calls `cancel_run` or, through any listing, `mark_lost_runs`: what it read before it writes |
| `crashes` | bounds `Crash` |

`sqlite3` opens a transaction at the first statement that writes. Every operation that reads
and then writes is therefore two actions, and what it read is kept in between:
`CancelRead`/`CancelWrite`, `SweepRead`/`SweepWrite`, `Poll`/`Claim`, `Check`/`Finish`. The
writes of one operation are one transaction and one action. `enqueue` takes its time (`Stamp`)
and inserts later (`Enqueue`), since the insert may wait for another writer. `Start`
(`register_runner`) and `Heartbeat` only write. `Begin`, `Monitor` and `End` are the steps of
`execute_queued_run`, its monitor thread and its workflow. Two processes may register under
the same runner id, since `--id` is the user's choice.

`RunLedger` says what the queue promises of a run: it is queued once, leaves the queue once,
dispatched to one runner or withdrawn, and keeps that runner. `ImplementsLedger` maps its
`stage` and `owner` to the columns `status` and `runner_id`.

### Runs

| Run | Bounds | What it shows |
|---|---|---|
| `queue_races` | two runs of one priority, stamped and inserted in any order, two runners, a caller | `ImplementsLedger`; `RunningIsExecuted`: finishes, sweeps and cancels leave no row behind that runs nowhere; `DispatchOrder`: old rows never let a run pass an older one that was in the table before it |
| `queue_ends` | two runs, one for one runner and one for none, a worker that may crash, a caller, a workflow that may run for ever | `QueuedIsDispatched`, `CancelReachesWorker` |

Two runs and two workers are enough for each race between a read and a write: it takes the
process that read, one that writes in between, and a second run to be mistaken for the first, or
to be passed by it. That workers may share a runner id, that a restart revives no run
(`LedgerImplemented`), and that runs differ in priority and in whom they suit while several
workers claim, is left to the proofs. `MaxCrashes` is the only bound; symmetry is used for safety
alone.

`DispatchOrder` needs that the older run was inserted first as well. A run whose time was taken
before and whose insert came after the run that was claimed may be passed: the worker has not
read it. No document promises the strict order of enqueues.

### Fairness

`Fairness` says that processes that run go on: a worker takes its next step, its monitor
looks again (every 0.2 s, 583), and an operation that has read writes. It also lets the users
start their workers, also after a crash. `StopSpec` adds that a workflow whose event is set ends.

### Disagreements

- `queue_twice`: two workers execute one run, because `claim_next` does not look at how many
  rows its guarded update changed. The table is right, which `ImplementsLedger` shows; the
  processes are not.

Seen in the model and stated by no property: `cancel_run` writes without a guard what followed
from an older status, so that a running run may become "Canceled before dispatch", and a run
that ended may stay "cancel_requested" for ever. `mark_lost_runs` may give up a run that its runner
claimed after the read or that runs for more than a minute, and `finish_run` then writes over
the lost status. All that is after the dispatch and leaves no running row, so `ImplementsLedger`
and `RunningIsExecuted` say nothing of it; `PROJECT.json` lists these hazards without a property.

## 5. The studio's document: `StudioDocument`

### State and actions

The desktop studio shows one `workflow.rad` three times: as text in the editor, as a graph,
and on disk. `App.jsx` is the view, `CodeWorkspace.jsx` the editor, `electron/main.js` writes
the file for the editor, and `radish/editor.py` serves the document and writes the file for
the graph. A text is the set of the edits in it and a layout the set of the moves, so that the
revision of either, a hash in the code, is the set itself.

| Variable | Code |
|---|---|
| `disk` | `workflow.rad` and the layout in `workflow.metadata.json` |
| `editor` | the model of the editor, the text it takes for saved, the state it published, its autosave timer |
| `saving` | how far `save()` is (`CodeWorkspace.jsx` 1009-1053), and which graph edit waits for it |
| `view` | `radishEditorStateRef` |
| `load`, `analysis`, `layoutCalls`, `calls` | requests under way: the load, the analysis, saves of the layout, `mutateActiveRadish` |
| `pending` | `radishMetadataPendingRef` and its timer |
| `crossed` | no code: whether edits have crossed (below), a history that only properties read |

The renderer is one thread, so a handler up to its next await is one action, and the server
reads a document and writes it in two (`MutationRead`, `MutationWrite`). `Save`, `Replies` and
the actions named for a step of a request are the continuations.

### Runs

| Run | Bounds | What it shows |
|---|---|---|
| `studio_edits` | an edit of the text and one of the graph, any request may fail, fairness; with them a second edit of the text, or one by another program, or a move | `SourceKept`: no edit of the studio is lost; `LayoutKept`: no move the file had is taken back; `AgreeAtRest`: at rest editor, view and file hold the same edits of the studio; `TypedIsSaved`; `GraphEditEnds` |
| `studio_close` | two edits of the text, autosave off | violated, see below |

`MCStudioDocument` chooses at the start which of the three worlds a behaviour is in (`scope`) and
withholds the edits of the others, which no fairness asks for: the run checks the three and not
their product.

Two typed edits are what it takes to type while a save of the first is under way, and one of
each other kind meets them at every await. The user is not restricted: text is typed in every
stage of a save and of a graph edit, and graph edits are made at any time.

*Where the code keeps no promise.* The editor writes the file without a revision and a graph
edit replaces the text of the editor, so that two edits on their way to the text at once may
undo each other. `Crossing` says when they are: the server has a graph edit while the editor has
text to save, saves, or while the server has another one; or text was typed before the document
arrived. Nothing in the renderer prevents it. `crossed` notes that it happened, and
`SourceKept`, `TypedIsSaved` and the second half of `AgreeAtRest` speak of behaviours until then,
which include text typed while a save writes, awaits or reads the document again, foreign
edits, failures and graph edits in any order with saves. That the editor never rests with text
to save holds whatever crossed, and so do `LayoutKept` and `GraphEditEnds`. What is lost after a
crossing is listed below.

Fairness is that timers fire and that requests are served, fail or are answered; nobody has to
act. The system may stop (`CHECK_DEADLOCK FALSE`): a user may stop editing.

### Disagreements

- `studio_close`: with autosave off, text typed between the request for the document and its
  answer is shown as saved, and the tab closes without the prompt that `CHANGELOG.md` 41-42
  promises.

Seen in the model, excepted by `crossed` or stated by no property:

- the editor writes over an edit another program made since it read the file, though
  `radish/spec/editor-protocol.md` 31-33 has source saves compare a revision: `writeTextFile` has
  none (`main.js` 1874-1888);
- text typed and saved before the document arrives is missing from the view for good, since the
  load replaces the view whatever happened meanwhile (`App.jsx` 713-721), and text typed during a
  graph edit is replaced by its reply;
- a move made while a save of the layout is under way is dropped when the answer comes
  (`App.jsx` 1298).

## 6. The Git handoff: `TerminalEditor`

### State and actions

| Variable | Code |
|---|---|
| `disk`, `answer` | the message files, and what each client was told (`terminal-editor.cjs`) |
| `handler`, `session`, `requests`, `app` | the main process: how far `handleTerminalEditorConnection` is with each client, `terminalSessions`, `terminalEditorRequests`, the window |
| `sent`, `completing` | messages between main process and renderer |
| `asks`, `opening`, `tabs`, `watched` | `App.jsx`: the requests noted by path, `openLinkedCodeFile` calls with the tabs they captured, `codeOpenPaths`, and `saveBeforeClosePaths` as last rendered |
| `editor`, `autosave` | a tab's text and its save; the setting |
| `stray` | writes under way whose editor was closed or hidden: they still reach the file |
| `failures` | bounds the failing reads, writes and opens |

`Ask`, `Check`, `Register` and `Refuse` are the steps between the awaits of a connection;
`Receive`, `Open` or `OpenFails` (`App.jsx` 820-828 may throw, and nobody catches it) and `Loaded`
open the tab; `CloseTab`, `SaveReturns` and `Complete` are its close,
the save it awaits, and the answer. `CloseTerminal`, `TerminalExits`, `WindowClosed`, `BeforeQuit`
and `ProcessExits` end things at any moment.

### Runs

| Run | Bounds | What it shows |
|---|---|---|
| `editor_handoff` | one message and two edits; or one message, one edit and one failure; or messages in two files; fairness | `RequestsTracked`: a waiting client always has somebody who owes it an answer; `AnswersStand`: the first answer stays; `HandoffSaved`; `StrandedOnlyByOpening`: a request loses its tab, or the save before its close, to an opening only; `GitReturns` |
| `editor_no_project` | one message, no failure | violated, see below |

`MCTerminalEditor` chooses at the start which of the three worlds a behaviour is in (`scope`); every
step that fairness asks for stays possible in each. Two edits are what it takes to type while a
close saves, and two files what it takes for one opening to undo another. Two messages in one file
are left to the proofs. The user is not restricted: messages are asked for and opened at once,
files are opened by hand before, and text is typed into a tab while it closes. `MaxFailures` and
`MaxStray` (one stray write at a time) are the bounds; clients, paths and edits are finite.

*Where the code keeps no promise.* `HandoffSaved` states three exceptions: text typed while the
close saves (`CodeWorkspace.jsx` 252), a request noted since App last rendered
`saveBeforeClosePaths` (`App.jsx` 3246), and a file that others wrote since the tab read or saved
it. `StrandedOnlyByOpening` names the two openings that take a tab away or never bring it: the
request's own that failed (820-828) or found no project (740), and one of another file that
replaces the tabs by those of an older rendering (743). `GitReturns` leaves out a request that
has no tab for one of these reasons.

Left out: edits are added and never undone; there is one window; a shell does not exit while Git
runs in it.

Fairness: some handler or message that can go on does, which is all of them in the end, since each
client asks once; opens, reads and writes end; the app quits with its last window
(`main.js` 522-526, not on macOS) and its process exits; and, strongly, the user closes every
tab some time, since a close that must save first is refused while the tab is saved. Git waits
as long as the tab is open, by design. The system may stop, when Git has its answers.

### Disagreements

- `editor_no_project`: a message asked for while no workflow with a project root is active is
  noted and never opened (`openCodeFile` returns, `App.jsx` 740), and Git waits until its terminal
  is closed. `CHANGELOG.md` 12-13 says that messages open in the Code workspace and are saved
  before the request completes.

The exceptions of `HandoffSaved` and `StrandedOnlyByOpening` are further cases in which the code
does not do what that line says: text typed while the close saves is dropped, and Git goes on
without it; a message whose opening fails has no tab; and of two messages that open at once the
second replaces the tabs by the list its call captured, without the first.

## 7. The file watcher: `FileWatcher`

### State and actions

| Variable | Code |
|---|---|
| `disk`, `defs` | the watched files, and what the workflow files say of their watch |
| `watched` | every `WatchedWorkflow` made so far: configuration, snapshot, queue, running count, and whether its debounce runs (`recent`, for `last_triggered_at`) |
| `workflows` | `_workflows`: which of them are in force |
| `globalRunning` | `_global_running_count` |
| `poll` | the poll thread in `poll_once` |
| `runs` | the threads of the runs: running, or starting more after their end |
| `requests` | the threads of the server that sync the watcher (`ui/server.py` 189-209) |

A registration is an object of its own, because the poll thread and the runs keep one that was
replaced or removed meanwhile. What one thread does while it holds the lock is one action, and
so is a reading of files; `poll_once` is `PollBegins`, `PollScans` or `PollScanFails`, `PollQueues`,
`PollStarts`; the end of `_run_workflow` is `RunEnds`, `RunLists`, `RunStarts`; `add_workflow` is
`AddChecks`, `AddScans` or `AddScanFails`, `AddRegisters`. A file is the number of its last change;
the files of a registration are read at once. A snapshot has only the files that exist, so a
file that came and went between two polls is not noticed, and the model's snapshot then stays
as it was (`Noticed`). What changed is listed as `_diff_events` lists it (`Listed`). Debounce is a flag that `Settle` clears at any
time. Counts of dropped batches, `start` and `shutdown` are left out, and so is the command
`watch` (`cli/commands/watch.py`), which registers before it polls and never again.

### Run

`watch_polls`: one workflow with two files, watched one change at a time (limit 1, queue of 1),
then one file in batches with a debounce (limit 2, queue of 2), or not at all; a limit of the
server of 2; three changes in all. One workflow is enough for two registrations to compete for the
limit of the server, which is where the code is delicate; two files for a diff that overflows
the queue at once, and three changes for one that runs, one that waits and one that
overflows. `MaxChanges` and the one request are the bounds.

- `GlobalLimitHeld`, `OwnLimitHeld`: the counts are the numbers of runs and within their
  limits, whatever was registered anew or removed while they ran. `README.md` 726 says that a
  workflow cannot raise the limit of the server.
- `OverflowDropsOldest`: the queue keeps the newest, as the same line says.
- `InOrder`: what runs, waits and was just found of one file is in the order of the changes.
- `ChangeIsNoticed`, `QueueDrains`: every change is noticed, and every queue of a workflow in
  force empties.

Fairness: the poll thread and the runs go on, and the files of each workflow can be read some
time (strongly: any single reading may fail).

Not promised by the code, and stated by no property: batches and unseen changes survive a
change of the configuration (the new registration starts empty and with a fresh count); a
removed workflow starts nothing more (the poll that listed it still starts its runs); and what
two requests at once leave registered (`add_workflow` checks and registers in two steps).

## 8. Faults

Each module has a section of faults: variants of its definitions with the slip that
a change of the code could introduce (a forgotten guard, an off-by-one, a missed
removal). `PROJECT.json` pairs each property of each passing run with one that breaks it,
which shows that the run's bounds reach the case the property is about.

## 9. Proofs

### `RadishSchedulerProofs`

For every workflow that satisfies `IsNode`, with any finite number of nodes:

- `TypeCorrect`: every lineage and loop that an activation, a task or a loop names exists,
  and tasks are numbered within the runs charged to their node.
- `CapacityAlways`: `CapacityRespected`.
- `LimitsAlways`: `RunLimits`.

The inductive invariant is `Inv`: `TypeOK`, `CapacityRespected`, `RunLimits` and
`CompletionsOnce`. The last is needed because a completion removes its task from `running`:
only when each completion in the stream belongs to a task of its own do the facts about
`running` survive the step. `TypeOK` is itself inductive only because it says of loops what it
says of activations: an iteration inherits its parent's lineage and loops.

The proofs follow the structure of the module. For each operator that transforms the state a
lemma says that it keeps `IsState` and what it leaves alone (`EnqueueGood`, `FillGood`,
`SettleGood`, `OpenGood`, `CloseGood`, `MergeGood`, `AdvanceGood`, `ControlGood`).
`CandidatesFit` bounds the running tasks of a node after a batch of starts by its
max-concurrency; `AdmittedWithin` bounds the starts by the limits, by looking at the last
activation the batch admitted (`GreatestExists`). `StartGood` combines them, and each action
has a lemma of its own; `StepInv` collects them.

### `RadishRunProofs`

For every such workflow whose nodes differ in their place in the order of names
(`RankAssumption`: a rank is a position in `sorted(nodes)`, 142):

- `NoDuplicates`: `NoDuplicateActivation`.
- `NeedsFirst`: `NeedsCompletedFirst`.
- `NeverIdle`: `WorkConserving`.
- `RunsAlwaysAccounted`: `RunsAccounted`.
- `CompletionsAlwaysFit`: `CompletionsFit`.
- `PassesWhole`: `PassIsComplete`.
- `FatalAlwaysHalts`: `FatalRunHalts`, an action property.

None is inductive. `RunInv` adds what they rest on:

- `Tree`: every lineage is the root or an iteration that its loop began, and in an iteration
  the only group is the iteration itself. Loops differ in the number of their birth, which is
  the order in which `_settle_loop_groups` fills them.
- `Numbered` and `Unique`: no two signals that wait have a number or a node and group in
  common. `_enqueue` passes over a group that waits or runs at the node, and only in the root is
  there anything to merge (`WaitingAlone`).
- `Latched` and `Sourced`: what runs has its latch open, and what opened it was recorded in
  that lineage or around it.
- `Settled`: a loop that is open is full or has no items left, and each live iteration has
  work. With nothing pending and nothing running every loop has therefore ended, which is
  what a pass needs.
- `Distinct` and `Balanced`: the tasks and the records are numbered apart, and together they
  are the runs charged to each node. `CompletionsFit` follows from the capacity of every node.
- `Honest`: while the run goes on nothing fatal was recorded and no failure was forgotten.

The lemmas have the shape of the code again: one about each operator for what it keeps of
`Sound` (`EnqueueSound` to `ControlSound`), one for each action, and the theorems read off
the invariant.

### `RadishLoopProofs`

For the same workflows:

- `WindowKept`: `LoopWindow`.
- `BreaksAlwaysEnd`: `BreakEndsLoop`, an action property.
- `ArrivalsInOrder`: `ArrivalOrder`, an action property.
- `LatchesCoalesce`: `LatchCoalesces`, an action property.

`OrderInv` adds to `RunInv`:

- `Nested`: the loops an activation is in are those around its iteration, and a loop that was
  opened in others lies in them. It is what makes "inside" a matter of groups alone.
- `Aligned`: what waits in iterations, and what waits in the root, has the same order by place
  and by number; only a merged activation has a place that is not its number, and only in the
  root, where the merge leaves nothing else at its node.
- `Roomy`, while the run goes on: no loop knows more iterations than it may have (`Bounded`),
  and each iteration of an open loop that is at work is one the loop knows (`Windows`), as long as
  the hypothesis of `LoopWindow` holds of the loop. Within a step this is stated with the group
  whose completion is handled (`Roomy(s, {a.group})`), because what that group sends enters its
  iteration only after the loops were settled once (`ControlRoomy`, `AdvanceRoomy`).

Each operator has a lemma for what it adds (`Appends`, `Entered`, `Begins`, `Merges`, `Closes`), and
from these follow what it keeps of the order and of the windows. `Reaches` describes the state that
a step reaches before it starts what is runnable; every step but those that only end something has
one (`StepReaches`), and the invariant and the action properties are read off it.

Only model-checked: liveness (`Terminates`).

### `RunnerQueueProofs`

For any number of runs, runners, workers, callers and crashes, with workers that may share
runner ids:

- `LedgerImplemented`: `ImplementsLedger`.
- `OrderAlways`: `DispatchOrder`.
- `RunningAlways`: `RunningIsExecuted`.
- `TypeCorrect`: `TypeOK`.

The invariant `Inv` says what remains true of what a process read before: rows that were read
exist (`RowsExist`), a run that a worker has or that a caller saw outside the queue has left it
(`BusyLeft`, `SeenLeft`), and the rows a worker read hold every queued run that was inserted before
one of them (`OlderRead`). The last one needs that inserts are numbered in their order
(`Numbered`); the stamps need no invariant, since the property asks for both orders. Together they are why unguarded writes can do no more harm than the
disagreements of section 4. The lemmas `ClaimEffect`, `KeptCallers`, `QuietWorkers`,
`LeavingWorkers` and `FinishEffect` state what the actions do to the columns that matter, and
the invariant and the refinement are proved from them. `FirstExists` shows that the order of
`claim_next` has a first row, by well-founded induction on finite sets.

Liveness of the queue is only model-checked.

### `StudioDocumentProofs`

For all edits, moves, options and failures:

- `TypeCorrect`: `TypeOK`.
- `LayoutAlways`: `LayoutKept`.

`LayoutKept` is not inductive: that the server refuses a stale revision helps only if the
layout sent with a current one contains it. The invariant `Grown` says so: the layout of the
view contains the one its revision is of, and each save of the layout that is under way
contains its base.

### `StudioSourceProofs`

For all edits, options, failures and other programs, and any user:

- `SourceAlways`: `SourceKept`, an action property.
- `AgreesAtRest`: `AgreeAtRest`.

The editor writes `workflow.rad` without a revision and the server with one; nothing in either
program keeps them apart. The invariant `UntilCrossed` says that a crossing is noted, that
`SourceInv` holds until then, and that text to save has a timer, a save or an error (`Scheduled`),
crossed or not. While nothing crosses, one graph edit at most is at the server, when the editor
has nothing to save and no save runs (`Alone`); it is made on what the file has (`Sends`); a save
writes a text that holds what the file has (`Stored`); and text typed in any stage of a save
grows from what the save wrote, read and will publish (`Saves`). `Waits` says whose a running save
and a layout call are. `Shows` ties the view to the editor, also through an analysis or a load
that is answered late.

### `TerminalEditorProofs`

For any clients, terminals, files and failures:

- `TypeCorrect`, `TrackedAlways` (`RequestsTracked`), `AnswersAlways` (`AnswersStand`).
  `RequestsTracked` is inductive together with `OneHand`: what the handler of a connection still
  checks is not registered yet, nor known to the renderer.
- `StrandedAlways` (`StrandedOnlyByOpening`): each step that ends no opening keeps the tabs of
  noted requests and the paths to save, or completes the requests.
- `HandoffAlways` (`HandoffSaved`), with the invariant `Tidy`: requests are noted under their own
  path, and an editor is `Sound`: what it saved lies within its text, and it is dirty exactly when
  they differ.

None assumes anything of the user or of an active project.

### `FileWatcherProofs`

For any number of workflows, files, changes and requests at once, any limits, and any
interleaving of the poll thread, the runs and the requests:

- `TypesHold`: `TypeOK`.
- `GlobalLimitAlways`, `OwnLimitAlways`: `GlobalLimitHeld`, `OwnLimitHeld`.
- `NewestAlwaysKept`: `OverflowDropsOldest`.
- `AlwaysInOrder`: `InOrder`.

The invariant `WatchInv` holds of every registration, in force or replaced. `Limited` and
`Counted` relate the two counts to the set of runs: the count of the server is exact; that of a
registration is exact in force and an upper bound afterwards, since the end of a run no longer
lowers it (the run looks its workflow up by identity). `Known` says that a snapshot, also one
that a request still holds, is of the past. `Good` says that what runs, waits and was just
found is of changes up to the snapshot, in their order (`Ordered`), and that where changes wait
one by one, a file that has any in the queue has its last one there, or just found, unless what
was just found fills the queue alone (`Newer`). What a scan finds is newer than all that the
snapshot knew, and goes to the end of the queue.

The proofs follow the threads: a lemma for each of the three sequences that the code edits
(`Newest`, `Batches`, the head and the tail of a queue that starts), one for each action.

`NewestAlwaysKept` needs that a snapshot keeps the version of a file that stays absent, or else
it would have a change that nobody noticed. In the code this holds, because a snapshot has no
entry for such a file.

### What is left to TLC

Every liveness property of every module, which the prover cannot state; the scheduler's
properties named above; and the disagreements, which are counterexamples.

## 10. Not modelled

- *Of the queue:* labels and capabilities that change when a runner registers again, a
  database that stays locked, and the texts of errors.
- *Of the scheduler:* handlers (files, HTTP, processes, agents), values, predicates over values,
  schemas and the wording of errors, which are choices in the model.
- *Of the studio and the handoff:* a change of the workflow, the editor mounted again (which
  forgets its timer), answers that are lost after the server acted, several windows.
- *Approvals.* Requests, decisions and claims to resume are JSON files that every process reads
  and rewrites without a lock (`core/approvals.py` 186-190, 250-254). Hardly any invariant over
  a record survives that: a decision is overwritten by a waiter's rewrite, a torn file is no
  request, two processes claim one resume. The hazards name these.
- *The TOML executor and its resume, continuous and scheduled runs, revisions:* next in the
  plan; each is as large as a module above.
- *Front ends, services, validation, the language:* functions of one call, I/O or rendering.
  The JavaScript of the repository is for the most part rendering (`DagCanvas.jsx`, most of
  `App.jsx`) and vendored tooling for agents (`.agents/skills`), which has no part in the
  program.
- Whether the watcher runs two workflows side by side is left to one workflow with two
  registrations; two files of workflows are beyond what TLC finishes with liveness.

`PROJECT.json` lists the components with their status and the hazards without a property.
