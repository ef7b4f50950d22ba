# ai-controller in TLA+

ai-controller is a Node.js process that takes instructions from Telegram (and
from its own timers), runs coding tasks with the `claude` command line program
and git tasks with `git` on a set of local repositories, asks for approval of
the risky ones, remembers what happened, and can undo what a task did. This
directory holds TLA+ specifications of its core, the configurations that
model-check them with TLC, and proofs about them that TLAPS checks.

Paths below are relative to the repository's `src/` (`planner/TaskPlanner.ts`
and so on); `PROJECT.json` maps every definition to its lines.

1. The system -- 2. The modules -- 3. The runs and their bounds -- 4. Fairness --
5. What disagrees with the code's own words -- 6. Other observations --
7. What is proved -- 8. What is not modelled

## 1. The system

One process, one event loop. A step between two `await`s is atomic; everything
else interleaves: messages, button presses, timers, exits of child processes,
file operations. Nothing locks a repository. State lives in memory except for
the files of Project Memory, the operation journal, the plan history, the
recommendation state, and the artifacts.

```
Telegram --- LongPoller -- Adapter/Router -- ApplicationService --+
                |                                                 |
        TelegramApprovalProvider                                  v
                ^                                        ExecutionPipeline
timers -- BackgroundRuntime -- workers -- Orchestrator -->        |
                                                                  v
   ExecutionStateTracker( MemoryRecordingControllerCore( ApprovalEngine( ControllerCore )))
          ^                        |                         |               |
          +-- WorkflowOrchestrator-+--- ProjectMemoryService |               v
              (steps re-enter at the top)              ApprovalPolicy   TaskPlanner
                                                                             |
                               claude child, git engines, journal  <--- workflows
```

### Components

| Component | State | Operations | What makes it correct | Module |
|---|---|---|---|---|
| planner: `TaskPlanner` | slot counter, map of abort controllers, one suspended `run()` per call | `run`, timer, `cancel` | slots and controllers are those of the calls in flight; a result names the abort that happened and stays; a checkpoint covers the run's edits; every run returns | `TaskPlanner`, `JobSlots` |
| telegram: `TelegramApprovalProvider` | map of pending requests, their timers | `awaitDecision`, `handleCallback`, `reject`, timer | decided once, by who may; caller and user are told the same; always decided | `ApprovalProvider`, `ApprovalGate` |
| executionstate, memory recording, approval, controller, orchestration | tracker's map with depths; the place of each execution | `execute` of each layer, `WorkflowOrchestrator.run`, `cancelCurrentTask` | tracked is what awaits its approval or works; a pending approval has one asker; each step is gated; stop at the first failure; each crossing recorded once | `ExecutionStack` |
| memory: `ProjectMemoryService` | `events.jsonl`, `failure-state.json`, write queue | `record`, clears, reads, repair, replay | no update lost unless a write ends half way; the log of serial calls replays to the counts | `FailureState` |
| journal, gittransaction, gitengines, undo (`SafeUndoFramework`) | journal file of operations with states; what git has | append, update, begin/commit/rollback, sync, rebase, merge, resolve, undo | no entry lost unless updates overlap or a rewrite ends half way; otherwise undisturbed, the journal agrees with git; nothing published is undone; nothing runs on a stopped repository | `GitJournal` |
| undo: `UndoService` | none (reads tracker, memory, working tree) | `buildUndoPlan`, `executeUndoPlan`, the choice between the two undos | undos unwind newest first; an undo takes back no edit of others that it could have seen | `TaskUndo` |
| gitstate, recovery, gitorchestration, git (`GitHealthService`) | none but the repository's files | classification, transition table, plan, preflight, policies, `/recover`, `/abort` | who is refused has a way on; what was killed is found out | `RepositoryStates`, `Recovery` |
| pipeline, strategy, planning, coordination, decisions, context, intelligence, session | session | decide, dispatch, bypass or block | old data lets no more through the circuit breaker than the requests in flight and the half-written reads account for; an implementation starts off the default branch unless that changed after the decision | `Pipeline` |
| runtime (monitoring), attention, monitoring, policy, control, recommendations | `recommendation-state.json`, marks, cooldowns, started and ticking flags | tick, reconcile, persist, notify, start, stop, restart | limits hold, each streak is told once, a tick looks at every repository up to the first that cannot be read | `Monitoring`, `Recommendations` |
| runtime (autonomous), autonomousexecution, autonomy, plan*, scheduling | `autonomous-plans.jsonl`, ticking flags | record, schedule, attempt, `/autonomous-execute` | cycles are consecutive, streaks true, attempts spaced | `AutonomousLoop`, `AutonomousPlans` |
| artifacts | content and sidecar files, index in memory | `save`, `deleteMany`, `rebuild`, start-up | the index agrees with the disk; what is listed can be fetched | `Artifacts` |
| telegram: long poller, router; claude, github, config, repositories, admin, status, diagnostics, reporting, startup, assistance, planstate | an offset, or nothing | I/O, parsing, reading | | see section 8 |

### How they interact

* The composition root, `index.ts`, stacks four objects with the same
  interface `execute(request)`. A workflow crosses the two outer ones as a
  whole, and then each of its steps crosses all four **again, under the
  correlationId of the workflow**. So the tracker counts depths, one
  correlationId makes several approval requests, and one workflow leaves
  several events.
* The approval of a request happens above the planner: while it waits for that
  button it holds no slot, and may find none when the button is pressed. A
  rebase, and a sync of a branch that has diverged, ask once more from inside
  `run()`, under the same correlationId: those wait with the slot held and the
  timer of the task running.
* `/task cancel` reads the tracker, then the approval provider, then the
  cancellation policy, then the planner, without an `await` in between.
* The pipeline reads Project Memory, git and the session, decides, and has the
  stack execute; the outcome reaches Project Memory some time after the answer.
  Counts are read without the queue that orders the writes, so that a read may
  find the file truncated, which counts as no failures.
* Two logs say what was done last, one of tasks and one of git operations;
  `/undo` compares their newest entries by time.
* A health report is made from git's files and the newest journal entry. It is
  what policies, preflight, planner and state machine all judge.
* The monitoring worker and the autonomous workers read the same
  recommendations, at times of their own, and share no lock with the user.

### Hard behaviour

Concurrency of the event loop (timer against press against cancel against exit
of a child); processes that outlive the call that started them; reuse of one
identity by successive requests; update-and-log in different orders; decisions
on data that is old by then; readers that see a file half written; crashes
between the two steps of a write; restarts that lose what was only in memory
while its traces stay in the chat or on disk. `PROJECT.json` lists each as a
hazard, with its line and the properties that would notice it going wrong.

## 2. The modules

| Module | Models | Proofs | Run |
|---|---|---|---|
| `JobSlots` | what `TaskPlanner.run()` promises its callers (abstract) | | `planner` |
| `TaskPlanner` | the planner | `TaskPlannerProofs` | `planner` |
| `ApprovalGate` | what an approval provider promises (abstract) | | `approval` |
| `ApprovalProvider` | the provider over Telegram | `ApprovalProviderProofs` | `approval` |
| `ExecutionStack` | the four stacked cores, over `JobSlots` and `ApprovalGate` | `ExecutionStackProofs` | `stack` |
| `FailureState` | Project Memory's counts and log | `FailureStateProofs` | `failure` |
| `GitJournal` | git operations, journal, undo of them | `GitJournalProofs` | `git` |
| `TaskUndo` | undo of tasks beside running tasks and edits | `ExecutionStackProofs` | `undo` |
| `Recommendations` | the recommendation engine (operators) | | `monitoring`, `pipeline`, `autonomous` |
| `Monitoring` | the monitoring worker and what it drives | `ApprovalProviderProofs` | `monitoring` |
| `Pipeline` | the pipeline and the engines it decides with | `PipelineProofs` | `pipeline` |
| `AutonomousPlans` | the plan engines (operators) | | `autonomous` |
| `AutonomousLoop` | recording and executing plans | `AutonomousLoopProofs` | `autonomous` |
| `RepositoryStates` | state, plan, policies, preflight (operators) | `RecoveryProofs` | `recovery` |
| `Recovery` | `/recover` and `/abort` beside git commands | `RecoveryProofs` | `recovery`, `recovery_unasked` |
| `Artifacts` | artifact files and their index | `TaskPlannerProofs` | `artifacts` |

Three proof modules hold the proofs of a second component after those of the
one they are named for; the specifications of `TaskUndo`, `Monitoring` and
`Artifacts` have names of their own for that (`UndoSpec`, `RuntimeSpec`,
`StoreSpec`, and so on).

`MC*` modules give the constants of the instances their values where a `.cfg`
cannot. The refinement is what makes the composition honest: `ExecutionStack`
does not see timers, snapshots, prompts or child processes; it uses `JobSlots`
and `ApprovalGate`, and the runs `planner` and `approval` check that the
detailed modules implement them, their fairness included (`ImplementsJobSlots`,
`ImplementsApprovalGate`). `Recommendations` is shared by the three modules
that act on its output, so that they cannot disagree about it.

### TaskPlanner

One action per stretch of `run()` between two awaits. `phase` is the await the
call is suspended at: `before` (snapshot), `executing` (the race), `after`
(snapshot), `artifacts`. `Start` is everything from the limit check to the
first await: counter, controller and timer are taken in one step, which is why
the limit cannot be overrun. The race settles in `WorkflowEnds`, `Timeout` or
`Cancel`, or, when the abort came during the first snapshot, in
`BeforeSnapshot`. `Leave` is the `finally` block. The process of the workflow
is separate from the call: it edits (`Edit`) as long as it lives, and a race
that was lost does not end it. The content of the working tree is a version
number that every edit increments, which is all that a checkpoint can cover or
miss. `Kind` stands for the task types, which differ here in two ways only:
whether they are cancellable, and whether they are undoable.

### ApprovalProvider

A request is a pair of a correlationId and a number, because one correlationId
makes several. The map, like the code's, is keyed by correlationId alone; the
timer of a request, its send and the buttons of its prompt are keyed by the
request. `Settle` is shared by the four ways to decide. `PromptShown` and
`SendSucceeds`/`SendFails` are apart since Telegram may show a prompt whose
confirmation is lost or late. `Restart` clears the process and leaves the chat.

### ExecutionStack

`at` is the place of an execution; the suspended places are those where it
waits for an event, the others those a continuation runs through. An event is
handled only when every execution is suspended (`Quiet`): that is JavaScript's
run to completion, and the properties of what an event handler can see are
stated under `Quiet`. `Enter` and `Exit` are the tracker's; `EnterStep` is a
step's way down to the approval; `GateDecides`, `Plan`, `JobProgress` and
`LeaveStep` its way on and back; `CloseWorkflow` the end of the workflow's own
crossing. `Cancel` follows the early returns of `cancelCurrentTask`. A task of a
type in `Asking` may ask again from within its job (`AskWithin`; `within` says
whether it may or does), and its workflow then ends no sooner than it is
answered, while the timer may end the job over it. The engine that asks ignores
the abort, so the prompt outlives the job, and answering it (`AnswerWorkflow`)
moves nothing in the stack.

### FailureState

`disk` is `failure-state.json` (missing, torn or whole), `log` is
`events.jsonl`, `queue` the promise chain of `withFailureStateLock`. A call
goes through `append`, `queued`, `write` (it has read the counts) and `writing`
(it has truncated the file); clears go through them in the other order. Any
append or write may fail (`Fails`), the process may die anywhere (`Crash`), and
`Restart` is the start-up repair. Two history variables: `ledger`, the counts
after the updates that reached the file, in the order of the queue, which no
fault and no restart touches; and `cutOff`, that a write has ended after the
truncation, by an error or a crash, since when the file may say less.

### GitJournal

The processes are operations (a git task from `CommandOrchestrator.execute`
on) and confirmed undo requests; `pc` is the await a process is suspended at.
`Clear` is the health report and the policies, `Begin` the reading of the ref
to come back to, `Record` the append of the journal entry, `Succeed` and `Fail`
the git command, whose effects are `Advance`, `Discard`, `Push` and `Checkout`.
`FailTransaction`, `FailRecorded` and `FailOpen` are the three ways the code
answers an error: roll back, write "failed", or leave the entry open, which is
what the engines do and what `/health` relies on. `Read`, `Truncate` and `Fill`
are `OperationJournal.update` down to the rewrite in place. An undo is `Plan`,
`Refetch`, `Reset`, and then the same update.

There are eight kinds of operation, one per combination of effect, failure and
undo strategy. A history is the sequence of the operations in it, so that what
an undo discards is visible. What git itself does (a soft reset is refused in a
stopped merge, a stopped rebase has HEAD on no branch, a commit concludes a
merge) is part of the actions, since the code relies on it. The model does not
choose between "nothing to do" and an error before the entry: both are
`Withdraw`. A confirmed `/discard` is an operation too, which passes neither
planner nor policies (`AsDiscard`; every other is `AsTask`). `ledger` is a
history variable: the journal if each update were atomic and ended. `past`
records what has disturbed a run, a rewrite that ended after the truncation
(`"halfway"`, by `Break`) among them; each property names the disturbances
it excludes, and holds under all others.

### TaskUndo

The working tree is a function from files to who wrote them last, which is
what makes a lost edit visible. A task is tracked, in the planner, between its
snapshots, and may leave a `child` that still edits; its result reaches
`events.jsonl` later (`appending`), in any order. An undo is `Check` (refused
while the tracker has a task), `Find`, `Decide` (drift check, and the choice
between task and commit by time), then `Restore`, `Delete` and `RecordUndo`,
each behind an await. `past` names the disturbances (comment of `Disturbance`
in the module): without any, the tree is what the last standing task left.
`crossed` is what others have written to since an undo compared the files, which
it does not look at again. One
of them is that two tasks are between their snapshots at once, which a limit
above one allows: the checkpoint of either then covers edits of the other.

### Monitoring

A tick walks through the repositories: `Read` the recommendations, `Reconcile`
them with the store (which sets the marks), `Truncate` and `Fill` the file,
`Send`, `Deliver`. A `Read` may fail, as often as it likes, and then ends the
tick, since the `try` of the code is around the loop. `ticking` and `running`
are the flags of the worker and the
runtime; a stop does not end a tick that has begun, so that `Tick` has two
elements. Time is what it decides: an hour is quiet or not, a recommendation
has aged or not, a cooldown or an interval has passed. `alerted` and `unsaved` are
history variables. It is assumed that the interval of the limit is longer than
the cooldown, as in the defaults of `policy/types.ts`.

### Pipeline

A request goes through `TakeSnapshot` (reads of git, memory and session),
`Decide` (insights, readiness, recommended action, plan, program, all
operators), and then its task or the steps of `ship`, each `Begin` and
`Refuse`, `Perform` or `Fail`; `Save` counts its outcomes afterwards, one by
one. The repository is the set of facts about it. What the request has read it
keeps, however old. The failure counts are read as they are or, since the file
they share with all repositories may be in the middle of a write, as none; a
write that ends half way loses them (`Save`, `LoseFailures`). `slips` is a history
variable: how often a task that its count blocks was let through by such a
reading since that count was last zero. `Counted`, `MaxSlips` and the two
`Max...Failures` are bounds; a count at its bound reads like any above it.

### AutonomousPlans and AutonomousLoop

`AutonomousPlans` has the engines: plan, evolution from the last cycle,
patterns, readiness, sequence, schedule. `AutonomousLoop` has the recording
worker (`Fire`, `ReadLatest`, `AppendEntry`, `RecordFails`), the execution
worker (`Wake`: schedule, `Check`: recent history, `WorkerAttempts`: schedule
again, `WorkerEnds`) and `/autonomous-execute` (`TriggerAttempts`). The pipeline
that executes is its answer: shipped or not. `tried` is a history variable.

### RepositoryStates and Recovery

`RepositoryStates` has, as operators over a health report, what each judge says
of it. `Recovery` has git's marker files and locks, the newest journal entry as
far as the report looks at it, one orchestrated command and one `/recover`.
`Validate`, `AskForStep`, `StepDecided`, `RunStep` are the workflow's stretches;
`Decisions` is what the approval provider can answer, which for an id that
names no chat is only "denied". `TakeLock`, `KillGit`, `LockAges`,
`BeginForeign` are what others do in the repository.

### Artifacts

`content` and `sidecar` are the two files of each artifact, missing, partial or
whole; `index` the map in memory. `save()`, `deleteMany()` and `rebuild()` are
suspended at each await, and a save, a removal or a rebuild may fail or be
killed there. `StartUp` is `createArtifactModule`.

## 3. The runs and their bounds

| Run | Question | Instance | Distinct states |
|---|---|---|---|
| `planner` | slots, reported aborts, undo of ended runs, finality; does each admitted run return; is it a `JobSlots` | 2 runs, 1 slot, 2 edits, all kinds | 80 000 |
| `approval` | map and timers, truthful answers; is each request decided; is it an `ApprovalGate` | 2 Telegram ids and another, 2 requests each, an operator and a stranger | 215 000 |
| `stack` | tracking, gating, stopping, recording, the answers of `/task cancel`; does everything submitted finish | a workflow of two steps, a rebase that asks twice, a plain task, 1 slot, a busy repository and an empty one | 80 000 |
| `failure` | is an update lost, does a failed one block the queue, does the log replay to the counts when calls do not overlap | 2 calls, 2 task types, 3 events, a fault | 1 360 000 |
| `git` | is an entry lost, do journal and git agree, is anything published undone, is what stopped git found, does anything run while git has stopped | 2 operations of any of 8 kinds, 2 undos, 1 job, 2 branches, a fault | 1 930 000 up to symmetry |
| `undo` | do undos unwind, newest first, and spare everybody else's edits | 2 tasks in 2 slots, a commit, an undo request that may come again, 2 files, a fault, one kind of disturbance per history | 5 480 000 up to symmetry |
| `monitoring` | do limits hold, is a streak told once over restarts, is every urgent recommendation that a tick reaches noticed | 2 repositories, 2 overlapping ticks, one notification per interval, a quiet and a loud hour, 2 disturbances, any number of failed reads | 1 060 000 |
| `pipeline` | how far do the circuit breaker and the default-branch rule hold on data that is old or half written | 2 requests to implement, explain or ship, threshold 2, failures of implementations and ships are counted | 2 650 000 up to symmetry |
| `autonomous` | are cycles numbered, streaks true, attempts spaced | 2 repositories, 2 overlapping ticks, 3 cycles, 2 faults | 373 000 |
| `recovery` | does who is refused have a way on, is what was killed found out | 6 operations, rebase and bisect from a terminal, 2 faults | 1 050 000 |
| `artifacts` | does the index agree with the disk, can what is listed be fetched | 2 artifacts, 2 deletions, 2 rebuilds, 2 faults | 4 460 000 |
| `recovery_unasked` | is the approval of a recovery step put to anybody | fetch and rebase, a fault | **violated** |

Each passing run takes between a few seconds and two and a half minutes with two
workers.

### Why the bounds are enough

* *Two runs, one slot*: runs meet only in the counter (one holder, one refused)
  and the tree (one editor, one whose window the edit falls into). One edit
  before, within or after a window distinguishes all orders.
* *Two requests per correlationId*: what an earlier request leaves behind (a
  prompt, a late send) meets the next one. Two Telegram correlationIds show
  that they do not interfere, one that is not parsable is denied at once.
* *A workflow of two steps*: the first is cancellable and not gated, the second
  the reverse, so each step sees a different gate, policy and outcome; the
  plain task and the rebase compete for the slot, and the rebase waits for its
  second approval with it. A diverged sync differs in not being gated above.
* *Two calls in flight* make every overlap of two updates; `MaxLog` bounds the
  history, `Threshold = 2` stands for 5 so that the log reaches it, and one
  fault puts a failed write or a crash at every point of the overlap.
* *Two operations, two undos, one fault*: every pair of kinds in either order
  and, after a timeout has freed the slot, at the same time; the second undo
  meets what the first has left.
* `undo`: two tasks and a commit make every order of three undoable things, the
  request may come again after each; two slots let the tasks overlap. A
  disturbance ends most claims, so two in
  one history show nothing a history with one does not; `OneDisturbance` says
  so as a state constraint, and then leaves the second file alone, unless it is
  written to while an undo is between its comparison and its end.
* `monitoring`: the second repository is what a failure of the first may keep
  the walk from; two ticks are all that can be in flight, since one that begins
  after a stop and start finds the flag of the first. A limit of one is reached
  by the first notification.
* `pipeline`: two requests let one pass on the count the other is about to
  raise; `FAILURE_BLOCK_THRESHOLD = 2` has a state below, at and above it.
  `MaxSlips = 1` lets one misreading through before the count is zero again, and
  `MaxFailures = 4` is the most that the property then allows; what tries on top
  of it would show a breach. The outcomes of a ship's commit are not counted
  here (`Counted`), which the theorem makes up for. `MaxShipFailures = 1` is the
  threshold of the insight it feeds.
* `autonomous`: three cycles make a streak that begins, goes on and ends, or
  that is interrupted; with `CHRONIC_CYCLE_THRESHOLD = 2` one of them is chronic.
* `recovery`: the operations cover each way to conflict, to be refused and to
  ask; a rebase stops with HEAD detached and a bisect is what the program never
  begins itself. Two faults kill a command and then what recovers it.
* `artifacts`: two ids, so that a list, a deletion and a rebuild can have passed
  one and not the other; two rebuilds, since a command may overlap another.

`CHECK_DEADLOCK FALSE` stands where bounded logs, requests or faults leave
nothing to do in the end: FailureState, GitJournal, TaskUndo, Pipeline. All
others are checked for deadlock. Every module has a type invariant (`TypeOK`,
`UndoTypeOK`, `RuntimeTypeOK`, `StoreTypeOK`). All are theorems (section 7) but
that of `AutonomousLoop`, which can be checked by adding `INVARIANT TypeOK` to
its configuration, and holds.

## 4. Fairness

* `TaskPlanner`: the timer fires, snapshots and artifact records complete or
  fail (both are wrapped in a catch), and a claude child that was sent SIGTERM
  exits. Nothing is assumed of a workflow that was not aborted, of a git
  workflow even if it was, nor of users: a hanging workflow stays a behaviour,
  and `AdmittedRunReturns` needs the timer instead. That a snapshot ends is an
  assumption about git and not something the code enforces: the snapshots are
  taken outside the race, and `GitCommandRunner` gives its commands no timeout.
* `ApprovalProvider`: only the timers. Nobody has to press anything, no send
  has to come back.
* `ExecutionStack`: continuations run (the event loop), the gate decides, and
  `run()` returns, by the task's timer if its workflow awaits an approval. The
  last two are the liveness that the refinements check of the detailed modules.
* `FailureState`: file operations end, by success or failure. No restart is
  owed, so `CallsFinish` is about a process that stays up.
* `Monitoring`: a tick that has begun goes on, since each of its awaits ends, and
  the armed interval timer fires in the end. Users need not resume, the process
  need not be restarted.
* `GitJournal`, `TaskUndo`, `Pipeline`, `AutonomousLoop`, `Recovery`,
  `Artifacts`: none. A git command may hang, and nothing is claimed to finish.

## 5. What disagrees with the code's own words

`recovery_unasked` is a run of its own (`PROJECT.json`, "findings"): the step of
a recovery that removes a stale lock asks for its approval under the
repository's id (`recovery/RepositoryRecoveryWorkflow.ts:39`), in which the
provider finds no chat; it denies without a prompt. TELEGRAM_COMMANDS.md says that it "is
itself approval-gated" (:158-160) and that "individual steps
may prompt for approval" (:164). So a stale lock is never removed, nor what
was interrupted with it recovered, the abort being the step after.

The following properties state other sentences of the repository. The modules
define them, marked "Known not to hold", and no configuration lists them: add
one to the run's configuration (`INVARIANT` or `PROPERTY`; for the second,
with `SPECIFICATION Spec`) and TLC shows how it fails.

| Property | Run | What is said | What the code does |
|---|---|---|---|
| `AbortedRunIsUndoable` | `planner` | `planner/TaskPlanner.ts:94-97`: a cancelled run "is exactly as undoable as a successful one" | `:77` takes the second snapshot when the race rejects; the killed child may still write |
| `StepApprovedOnOwnPrompt` | `approval` | EXECUTION_PIPELINE.md:152-154: the reuse of a correlationId is "safe because steps run strictly sequentially, never concurrently" | decided prompts keep their buttons, and a press decides whatever request of the id is pending then (`telegram/TelegramApprovalProvider.ts:100`) |
| `ReplayAgrees` | `failure` | `memory/ProjectMemoryService.ts:330-335`: the replay is what `recordTaskOutcome` would have produced | overlapping calls are logged and counted in different orders (`:173`). `SerialReplayAgrees` is what holds |
| `BlocksAreSeen` | `failure` | SYSTEM_DESIGN.md:156-157, 164-165: five failures in a row block a task type | a reader may find the file truncated by a write, which reads as "no failures" (`:159`) |
| `FailedWritesLoseNothing` | `failure` | `memory/ProjectMemoryService.ts:206-213`: reading a broken file as empty "keeps ordinary operation just as resilient as startup", which rebuilds it | a write that fails after the truncation (`:243`) loses every count of every repository; the next update makes the file whole again, so that the repair at start-up finds nothing to rebuild |
| `StartupContinues` | `failure` | `memory/ProjectMemoryService.ts:289-292`, `index.ts:134-136`: start-up continues with a valid file | a torn line of the log makes the replay throw, and with it `main()` (`:346`) |
| `EntriesStay` | `git` | architecture.md:132, DEPLOYMENT.md:27: the journal is "append-only" | every change of a status rewrites the file (`journal/FilesystemJournalStorage.ts:45`): overlapping updates undo each other, and one that fails or is killed half way loses all entries |
| `DriftBlocksUndo` | `undo` | SYSTEM_DESIGN.md:485-486: drift blocks the undo | the files are compared once (`undo/UndoService.ts:55`) and restored later: what is written in between is lost |
| `EveryRepositoryIsNoticed` | `monitoring` | `runtime/MonitoringWorker.ts:70`: a tick is "evaluating every registered repository" | the `catch` is outside the loop (`:92`, `:104`): a repository whose recommendations keep failing keeps all that come after it from being looked at, for ever |
| `UndoKeepsLaterWork` | `git` | `application/ApplicationService.ts:485-490`: only the latest operation is ever undone | what `/resume` finishes stays "in-progress", so the next undo passes it over and resets to before the operation that came earlier (`gitengines/ConflictResolutionEngine.ts:93`) |
| `UndoWaitsForGit` | `git` | `gitorchestration/PreflightValidationPolicy.ts:32-33`: no mutating operation while one is in progress | the undo goes through neither preflight nor health report (`undo/SafeUndoFramework.ts:75`) |
| `StaleLocksAreRemoved` | `recovery` | `recovery/RecoveryPlanner.ts:44`: "Remove the stale git lock file left by an interrupted process." | the step names `index.lock` whenever there is one (`:47`), though the stale lock may be `HEAD.lock` and this one that of a command at work |
| `NothingSlipsThrough` | `pipeline` | SYSTEM_DESIGN.md:156: "Five consecutive `sync` failures block `sync`" | the file of the counts may be half written when they are read (`memory/ProjectMemoryService.ts:157-161`): a blocked task is then let through, and may fail once more each time |
| `ReadyToShipShips` | `pipeline` | `recommendations/RecommendationEngine.ts:142`: "unshipped changes and no blockers prevent shipping" | a clean branch that is ahead counts as ready, and `ship` is then refused at its commit for want of changes |

## 6. Other observations

None of these has a property of its own; each is a behaviour of the models.

* *Cancellation.* `cancel()` answers true, and the user is told "Cancelled",
  while the snapshot or the artifacts of a run that has succeeded are taken.
  "already-cancelling" is also the answer when the timeout, and nobody else,
  aborted the task (`AlreadyMeansAborted` says what it does mean). An execution
  that waits for the approval above the planner holds no slot, so two executions
  of one repository are tracked at a time although the limit is one. A rebase or
  diverged sync that waits for its second approval is answered
  "cancelled-approval" by `/task cancel`, which rejects the prompt and leaves the
  job to end by itself. If the task's timer is faster, that prompt stays, and
  pressing it lets git rebase without a slot and without a record in the
  tracker, since the engine looks at no signal.
* *Undo of git operations.* That of "create branch" always fails, since `git
  branch -D` refuses the branch that is checked out; that of a push asks under
  the repository's id and can only be denied. A reset in a stopped rebase moves
  the detached HEAD, and the journal then says "rolled-back" of what the branch
  still has.
* *Undo of tasks.* A crash or a failed append between the restore and its record
  makes every later `/undo` of that task report drift.
* *Pipeline.* A session opened by a read-only claude task lifts the
  default-branch block from a later implementation, and the session may expire
  or be reset between decision and start; the plan's rationale "An active
  Claude session exists" (`planning/PlanningEngine.ts:53`) is also given when
  there is none. A `ship` whose push was denied has committed, so that the next
  ones fail at the commit until their failures block it.
* *Autonomous execution.* The worker checks the recent history of the repository
  that heads its schedule, the orchestrator reads the schedule again: they need
  not be the same. A chronic advisory entry at the head of the schedule starves
  all shipping behind it. The schedule is of the live plan, although its header
  says it changes only with a new cycle. A torn last line of the history makes
  every record and schedule throw until it is mended. Worker and
  `/autonomous-execute` can execute in one repository at once. A repository
  whose recommendations fail is left out of the cycle, so that its streaks
  begin anew.
* *Recovery.* Were the approval of a removal ever given, it could remove a live
  lock (`StaleLocksAreRemoved`, section 5). With both locks stale only one is removed, and a stale
  lock without an operation in progress is never offered for removal while the
  state reads clean. The report is validated once, before all steps, although
  TELEGRAM_COMMANDS.md:157 has each step re-validate. Neither `/recover` nor
  `/abort` looks whether a task is running. A torn journal line makes every
  health report throw, and so refuses every git command, `/recover` and `/abort`.
* *Monitoring.* `restore()` throws on a torn `recommendation-state.json`, and
  start-up with it. An alert whose delivery failed or was suppressed after its
  mark was set is not announced again in its streak. `RuntimeControlService`
  has no caller in the program; the model lets anybody call it.
* *Artifacts.* A rebuild that overlaps a deletion may put an artifact back into
  the index whose files are gone, or fail and leave the index partial. A torn
  sidecar makes every rebuild, hence every start-up, throw until somebody
  removes it, where TELEGRAM_COMMANDS.md:501-507 has the rebuild recover. If the
  second removal of a deletion fails, the artifact stays listed without content.

## 7. What is proved

For all values of the constants, under the assumptions named in the modules:
types, finiteness, that "no value" is none of the values (in `TaskUndo`, none of
the trees either), and that the repositories of `Monitoring` are the elements of
a sequence, as those of the registry are. TLC evaluates each assumption in the
runs. Each theorem that is listed in `PROJECT.json` follows from an inductive
invariant that TLC was given first.

* `TaskPlannerProofs`: `SlotsAccounted`, `LimitHolds`, `AbortsAreTruthful`,
  `EndedRunsAreUndoable`, `ResultsAreFinal`, `PlannerImplementsSlots`. The
  inductive invariant adds, for each
  suspension point, what has already happened (`PhaseInv`), that a workflow
  which decided the race has exited (`ResultInv`), and that snapshots and
  edits are ordered by version (`WindowInv`). Four lemmas say what taking,
  keeping and giving back a slot does to the cardinality of the calls in
  flight; each action uses one of them. `ResultIsFinal` needs the invariant:
  the second settling of a race is excluded only because `executing` implies
  that there is no result. The refinement takes each action to one of `JobSlots`
  or to a stutter; it needs the invariant where the abstract guard speaks of the
  number of calls in flight and the code's of its counter.

  For `Artifacts`: `StoreTypeCorrect`, `ListedCanBeFetched`, `IndexIsTrue`.
  `FilesInv` holds whatever fails: until the sidecar of an artifact is whole
  nobody but its save knows of it (`SaveInv`), and wherever it shows its content
  is there or its deletion was asked for (`ContentInv`). `Undisturbed` adds, for
  `IndexAgrees`, that index and sidecars differ only in artifacts that a call is
  on its way to (`Kept`): one being saved, one whose removal from the index is
  next, one that a rebuild has still to read.
* `ApprovalProviderProofs`: `EntriesMatch`, `ApprovalsAreAuthorized`,
  `AnswersAreTruthful`, `FirstOnOwnPrompt`, `ProviderImplementsGate`. The key is
  that the entry of a
  correlationId is always that of its last request and undecided, so the timer
  which drops an entry "whoever's it is" drops its own. `FirstOnOwnPrompt` is
  the part of `StepApprovedOnOwnPrompt` that does hold.

  For `Monitoring`: `RuntimeTypeCorrect`, `LimitsHold`, `StreakIsToldOnce`. One
  tick at most is in flight (`TickInv`), and what it carries is one record per
  repository and kind (`ReportInv`, `OneRecord`); so nothing is sent between
  the check of a limit and the delivery that counts (`LimitsInv`). `StreakInv`
  says that whatever the user was told of is marked in memory, or will not be
  told again, and on disk, or the tick that told is about to write it, so that
  a restart reads the mark.
* `ExecutionStackProofs`: `TypeCorrect`, `TrackingIsTruthful`,
  `GatingIsComplete`, `WorkflowsStop`, `CrossingsAreRecorded`, `AlreadyIsTrue`,
  for workflows of any length. The
  invariant ties the place of an execution to its depth, its job and its gate, and
  a workflow that asks to its job, at work or timed out (`Asks`).

  For `TaskUndo`: `UndoTypeCorrect`, `UndosSpareOthers`, `UndosGoBackwards`,
  `TreeUnwinds`. What a task has between its snapshots is its own (`Alone`,
  `OwnWrites`), so that an undo whose drift check passed holds nothing else,
  but for what has been written since (`Undrifted`, outside `crossed`).
  `LogOrder` says that the log has the undoable results in the order of their
  tasks but for those on their way, so that what an undo finds is the newest
  that stands (`TargetIsNewest`). `Chain` is the argument of
  unwinding: of two standing tasks that follow each other the later found what
  the earlier left (`Links`), the first found what undone ones found
  (`Starts`), and the tree is what the last left (`Ends`), except for an undo
  that is half way (`Halfway`). The attempt to prove it corrected the model:
  that two tasks which are between their snapshots at once count as mixed.
* `FailureStateProofs`: `TypeCorrect`, `UpdatesAreKept`,
  `RebuildAgreesWhenSerial`. That no update is lost is proved for as long as no
  write has ended half way (`cutOff`); crashes and failures at every other point
  are in it. The holder of the queue is the only one past
  `queued`, and what it has read is still on disk. That the counts of a log with
  one more event are those of the log, changed by the event, is an induction
  over the length of the log; it is made with a least counterexample, as is
  every induction here (`LeastNatural`).
* `GitJournalProofs`: `TypeCorrect`, `NoEntryIsLost`,
  `NothingRunsOnAStoppedRepository`, `StoppedOperationIsFound`,
  `PublishedIsNeverLost`, `JournalAgreesWithGit`. The first four rest on four
  invariants, each under the disturbances it tolerates: an update that has read the file is
  alone and current, unless updates have overlapped or a rewrite has ended half
  way (`ReaderIsCurrent`, from which `NoEntryIsLost`); what works is alone, and an operation
  at work means that git has not stopped (`Calm`: only an operation stops git,
  and it ends by it); stamps rise, so that a recorded entry is the newest
  (`StampsRise`, by the cardinality of the stamped entries); and what has
  stopped git is open and newest, and no undo is after it (`OpenStaysNewest`,
  which needs the other three: an undo picks a "completed" entry of a file
  that is current).

  The last two are about the histories, and rest on `Standing`, the operations
  whose effect git has at a moment: those the journal has as completed, with the
  one whose entry is about to be and without the one whose undo has been carried
  out. Only `Succeed` adds to it, and what it adds is the newest
  (`SucceedStands`); only `Reset` takes from it, and what it takes is the newest
  (`ResetFalls`); the rewriting of the journal leaves it as it is
  (`OthersStand`, which needs that an update finds its entry, `Found`). HEAD is
  then where the newest standing `switch` or `create` has put it, and was so for
  what stands below each operation when that one began (`HeadsFor`): an undo
  therefore resets the branch its operation ran on, and never deletes a branch,
  since HEAD is on the newest that was made. For `PublishedIsKept`, what was
  pushed is on its branch and under every operation that began there later
  (`KeptFor`). For `JournalIsTrue`, each branch is as the newest standing
  operation that touched it has left it, again at every height (`TipsFor`), but
  for the one commit that is being rolled back.
* `RecoveryProofs`: `TypeCorrect`, `RefusalsHaveAPlan`, `KilledAreRecovering`.
  `RefusalHasAPlan` is a fact about every report there can be
  (`ReportHasAPlan`) once the types are known. `KilledIsRecovering` needs that the
  marker of a killed operation and its open entry go together: as long as the
  marker stands, only a fetch is let through, which opens no entry that counts.
* `PipelineProofs`: `TypeCorrect`, `TheBreakerHolds`,
  `ImplementationsAreOffDefault`. A request that is to count an outcome was let
  through on a count below the threshold, which others may have raised since,
  or by a misreading, which `slips` has counted; each of the others was in
  flight as well, and counting takes a request out of those that are still
  trying, so that count and trying together never pass threshold, requests and
  misreadings. A count that is lost begins anew at zero, and with it its
  misreadings. Cardinality lemmas for the three ways the set of the trying
  changes carry the argument.
* `AutonomousLoopProofs`: `CyclesAreNumbered`, `StreaksAreTrue`,
  `AttemptsAreFarApart`. Whoever is about to append has read the line that is
  still the last, since `ticking` lets one tick in at a time and a crash ends
  it; then the new cycle extends, begins or resolves each streak of the one
  before it. What was tried lately is in the recent history unless a fault is to
  blame, which the check looks at.

Model-checked only: all liveness, and with it the fairness half of the two
refinements (`ImplementsJobSlots`, `ImplementsApprovalGate`), which is out of the
prover's reach; `TypeOK` of `AutonomousLoop` (the schedule chooses a least entry,
whose existence is an induction over finite sets).

## 8. What is not modelled, and why

* Running `git`, `gh` and `claude` and parsing their output: I/O whose results
  appear as choices. `ClaudeAdapter`'s refusal of a second call never applies,
  since each task has an adapter of its own.
* The command parser, the response formatter, the message splitter, keyboards
  and logs (the largest files of the program): wording, which no property is
  about.
* The long poller and the router keep an offset that a restart forgets. What a
  lost or doubled update does is what a user who sends it never, or twice, does,
  which every module allows.
* Configuration, repository registry, environment checks: filled or run once at
  start-up and only read from then on; their values are the CONSTANTS.
* Status, diagnostics, reporting, administration, assistance, plan state: pure
  readers of state that other modules hold, for display.
* `scripts/`: they verify the program, or operate it, from outside.
* Time: durations are abstracted to what they decide. Conflicts' contents, the
  choice among divergence strategies, messages and prompts are
  nondeterministic or left out.
* How the modules above `ExecutionStack` would behave composed with it in one
  state space: `Pipeline` cuts the stack down to what it lets through. That the
  stack does let exactly this through is argued by `ExecutionStack`'s
  properties, not by a refinement.
