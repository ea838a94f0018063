# Formal models of Kriya's commit, execution and review protocols

Kriya lets a model propose a change to a workspace, verifies the change in
isolation, and then writes it into the workspace. These modules model the parts
of Kriya in which a mistake costs somebody their work or their say: how a
verified candidate reaches the source files and what the durable records say
about it meanwhile; how a plan is executed over several runs when some of its
steps have effects outside the workspace; how a person's decision reaches the
run that waits for it; and how the tools of other processes are started, called
and taken away.

Paths below are relative to `src/`.

## 1. The system

### 1.1 The parts that are modelled

| Part | State it keeps | Operations | Made correct by |
|---|---|---|---|
| **Run record** `kriya/control/run_record.py` | lifecycle, list of commit cycles with their results, state of a direct tool execution, final status | `transition`, `begin_commit`, `settle_commit`, `recover`, `abandon_tool_execution` | an open commit is never out of sight, a finished record does not lie, history is append-only |
| **Run coordinator** `kriya/control/run_coordinator.py` | the workspace lock, the lease of the running process, the current record, the clock of the generation budget | `begin_mutating_run`, `mark_run_stage`, `begin_run_commit`, `settle_run_commit`, success and failure exits; claim, pause and follow the clock | each exit leaves a record that its cycles justify; the budget counts work and no human wait |
| **Source transaction** `kriya/repository/commit.py`, `atomic_write.py` | the targets, the evidence file, staged copies beside the targets, snapshots in memory | `commit_revision_grounded_batch` | all or nothing, and evidence that says which |
| **Terminal commit seam** `kriya/workflow/terminal_commit.py` | the cycle being committed, the staged contract registry | `commit_terminal_candidate` | record, evidence, registry and files tell one story |
| **Recovery and gate** `kriya/control/recovery.py`, `commit_state.py` | nothing of its own; reads and settles the files of the others | `assess_workspace_commit_state`, `recover_workspace` with and without `--complete-partial` | the next run starts only on settled work, and every death can be settled |
| **Control persistence** `kriya/control/persistence.py`, `repository/atomic_write.py` | JSON files under the authority root | load, save with an expected revision, stage and promote the pending registry | a save is durable or raises, and a state that opens a gate is confirmed durable before it is relied on |
| **Plan execution** `kriya/workflow/enforce_loop.py`, `workflow_controller.py`, `resume_support.py` | the control state (`control/state.py`): each subtask's state, the attempt of each tool, where the completions are | the subtask loop, resume, discard and adoption of completions | an effect in doubt blocks, what is reused exists, a commit is whole |
| **Tool disposition** `kriya/control/tool_disposition.py` | the decision ledger | abandon, retry | one decision, one change, whatever dies in between |
| **Launch and review** `kriya/control/launch.py`, `launch_approval.py`, `review_channel.py`; host `ui/standalone/src/main/review_channel.ts` | the launch record and decision documents; the channel's open review; the host's shown review and awaited decision | request, offer, await, decide, expire, finish; relay, time out | what the workflow is told is what was accepted and is on record |
| **MCP client** `kriya/mcp/mcp.py` | each connection's state and pending requests; the manager's clients; the registry's tools | start, request, read, close; `start_all`, `shutdown_all` | answers reach their request, nothing outlives its connection, a failed start leaves nothing |

How they interact. A mutating run takes the exclusive workspace lock, passes the
gate, and saves a new record. It then plans, generates and verifies without
touching the workspace. To commit a work unit, the seam records the intent in
the run record (`begin_run_commit`), stages the after-state of the contract
registry beside the live one when the candidate changes a contract, and calls
the batch. The batch writes IN_PROGRESS evidence, stages a copy of each
candidate beside its target, checks the targets once more, replaces them one by
one, and writes COMMITTED; a failure in between restores the targets and writes
ROLLED_BACK, or leaves the evidence open. Back in the seam the targets are read
back, the registry is promoted and the cycle is settled. `kriya runs recover`
takes the same lock later, reads the evidence and the targets of whatever was
left open, and settles evidence, registry and record, in that order.

An approved plan is executed by the enforce loop in a separate worktree. MODEL
subtasks write there; TOOL subtasks call a tool, perhaps of an MCP server, whose
effect is outside and cannot be taken back. The control state is saved before
and after each of them. A run that stops loses its worktree; a later run that is
asked to resume decides from the control state what it may reuse, and the gate
refuses to begin one while a tool's effect is in doubt, until an operator
abandons or re-arms it. A run started from the desktop asks a person before it
commits: it puts the review on the launch record, offers it over a private
channel, and waits; the desktop host relays the answer.

What is hard about the commit. Four files on disk (targets, evidence, registry, record)
change in separate steps; each can fail, the process can be interrupted by an
exception between any two instructions, or be killed; other programs write the
targets at any time, since nothing locks them; and recovery itself is such a
process.

What is hard about the rest. A save can fail after it became visible, and what
is visible can be gone after a power loss. Dispositions are two saves in two
files. Reviews overlap, supersede each other and are interrupted on one event
loop while deadlines pass, frames are in flight both ways and either end may
go. MCP servers answer late, twice or never and exit at any time, while a close,
a time-out and the reader meet at each `await`.

### 1.2 The parts that are not modelled

| Part | Why not, or what is planned |
|---|---|
| Retention `kriya/control/retention.py` | which records and evidence a prune removes and what still refers to them: one sequential pass under the workspace lock whose only interruption is a death between two removals; the first thing to model next |
| Direct tool runs `kriya/cli.py`, `tool_disposition.py` (second half) | only the record's side is modelled (RunLifecycle); the protocol is the one of a plan's tool, in one step |
| Milestones, checkpoints of the direct path, plan revision, owner recovery | decisions about one work unit from digests and model output; in the plan where they refer to committed runs |
| Candidate transaction, worktree | I/O with git; that a sandbox is lost with its run enters ToolExecution |
| Inference runtime, attempt evidence `kriya/core/` | I/O with model servers; an append-only log |
| Run ownership, contracts, artifacts, decisions, trace, history | data models and append-only output; the contract registry enters through the seam |
| Workflow pipeline `kriya/workflow/` (95,000 lines), agents, prompts | construction of prompts and analysis of model output; their state is text. Its control is a bounded loop of one task |
| Tools, containment, static analysis, code intelligence, analyzer, memory, knowledge, skills, plugins | I/O with programs the repository does not contain, or indexes rebuilt from the tree |
| Policy, configuration, model routing | sequential decision tables, covered by table tests |
| Application services, KUP, client, command line, platform, foundation, metrics | facades, wrappers and reports |
| `ui/` (except the host's end of the review channel), `demo-v2/`, `benchmarks/`, `evidence/`, `handover/`, `scripts/`, `plugins/`, `skills/`, `tests/` | clients, data and tests |

## 2. The modules

```
RunRecord ──────────┬── RunLifecycle ──── RunLease ──── MCRunLifecycle
 │ (operators on a  │                       └──────── RunLifecycle_proofs
 │  record)         │                      │
 ├─ RunRecord_proofs ──────────────────────┤
 │                  │                      │
 └──────────────────┴── TerminalCommit ─── TerminalCommit_proofs
                         │      └───────── CommitRecovery ─┐
CommitBatch ─────────────┘                                 ├ CommitRecovery_proofs
  │  └── CommitBatch_proofs ───────────────────────────────┘
  └ INSTANCE AtomicCommit

ToolExecution ── ToolExecution_proofs
HumanReview ──── HumanReview_proofs
McpClient ────── McpClient_proofs
```

A line is `EXTENDS`; only `AtomicCommit` is instantiated.

**RunRecord** has no variables. A record is a TLA+ record of `lifecycle`,
`commits` (a sequence of cycles with a transaction id and a result, `"none"`
while unsettled), `tool`, `commit_result` and `terminal_status`. Each method of
the class that changes a record is an operator from record to record (`Mark`,
`Succeed`, `Fail`, `BecomeUncertain`, `BeginCommit`, `SettleCommit`, `Recover`,
`AbandonTool`), and its refusal conditions are an operator `Can...` beside it.
Ids are the constant `Tx`; hashes, timestamps, the revision and the JSON form
are left out.

**RunLifecycle** is the state machine of one record: `record` and `live`, the
process holding the lock. The actions are what the coordinator, the two tool
commands and the recovery command save. The record has to protect itself, so
any operation may be tried in any order.

**RunLease** adds the other state of the lease: the clock of the generation
budget. `asking` is the set of coroutines that ask a person (its size is
`human_wait_depth`), `generation_clock` the start of the budget, `budget_started`
the copies the work units keep, and `worked` a history variable. `Claim` is any
reader of the clock, `Follow` the opening of a work unit, `Ask` and `Answered` the
two ends of `generation_clock_paused`. A step of the lease is a step of the run or
of the clock, and the clock is reached only while the run is active.

**AtomicCommit** is what a transaction promises: targets change freely while
the verdict is `open`, `Commit` needs every target to be the candidate,
`RollBack` needs every target to be the original (either may have been written
by somebody else), and otherwise only somebody else writes targets.

**CommitBatch** is `commit_revision_grounded_batch` with its evidence file. `pc`
names the place in the code; an action is one system call or one group of
statements nobody else can see between, and most have a failing twin. A target
is one of `base`, `new`, `other` (written by somebody else) and `unmoded` (the
original bytes before the mode is set). `staged` are the copies the code knows,
`orphans` those it lost track of, `lost` those it could not create again.
`InterruptTry`, `InterruptPersist` and `Escape` are exceptions that are not
`Exception`; `Crash` is death at any place.

**TerminalCommit** composes the batch with the record and the contract registry
(`contract`, `registry`, `pending`). `seam` is the place in
`commit_terminal_candidate` and in the exit of the run after it. While `seam =
"batch"` the steps are those of CommitBatch (`RunBatch`).

**CommitRecovery** adds the recovery command and the gate. `at` is its place;
it can start only when the run is gone and the lock is free, it can fail at any
write (`RecoveryStepFails`) or die (`RecoveryDies`), and can be started again.

**ToolExecution** is the execution of one approved plan over up to `MaxRuns`
runs. `disk` is the control state as a reader sees it, `stable` as a power loss
leaves it, `mem` the run's own. `pc` and `cursor` are the place in the loop; a
save that nobody catches either succeeds or leads to `raised` (`Saves`), with
the document visible or not; the saves of a tool's own states have an action
each for success and failure. `did` says what became of the last execution of
each tool and `work` where the files of each MODEL subtask are: neither is known
to the code after a death, and the properties compare them with what the code
recorded. `StartPlan` is the resume decision with its several checks, of which
the equality of contracts, plan and workspace is one free Boolean. `ledger` and
`op` are the operator's command between its two saves. `separate` chooses
between the worktree of production and the in-place execution of the tests.

**HumanReview** is one launch: the waiting process with a coroutine per review,
the launch record (`record`, `disk`), the two directions of the channel
(`inbox`, `outbox`), and the host with the person in front of it. The coroutines
run on one event loop: an action is what happens between two awaits. `late`
counts the reviews whose deadline has passed; a wait takes the deadline of the
review that is current when it begins (`due`).

**McpClient** has a client per server, the manager, the registry and the tasks
that call tools. `sent` is what a server may answer, any number of times, at any
later moment. `call` is the request of each task with the serial numbers of the
request and of the answer it was given: the ids are the code's, the serials are
only for `AnswerIsItsOwn`.

Definitions marked "Faulty variant" are forms a plausible mistake would give
the definition after them. Nothing in a specification uses them.

## 3. The runs

| Run | Instance | Distinct states | Shows |
|---|---|---|---|
| `run_lifecycle` | 3 transactions, 2 human waits, 2 work units, 4 ticks, symmetric | 721,402 | records stay sound in any order of operations; the budget counts work only |
| `commit_batch` | 3 operations: a write with an odd mode, a delete with an odd mode, a plain write; 1 outside edit | 24,125 | the batch is atomic, honest and completable |
| `commit_batch_durable` | 1 write | violation | the intent may not be durable when staging begins |
| `terminal_commit` | 2 operations (a write with an odd mode, a delete), with and without a contract, 1 edit | 45,003 | record, evidence, registry and files agree |
| `terminal_commit_stale` | 1 write | violation | a settled COMMITTED cycle with its registry not promoted |
| `commit_recovery` | as `terminal_commit`, 1 fault of recover | 848,111 | the gate is safe, each death is recoverable, still atomic; recovery completes |
| `commit_recovery_order` | 1 write, 1 fault | violation | a record settled before its evidence |
| `tool_execution` | 3 subtasks, the last two tools; worktree and in place; 3 runs, 2 failed saves or power losses | 5,008,646 | doubt blocks, reuse is sound, commits are whole, resumes repeat nothing |
| `tool_abandoned_again` | 1 tool, 2 runs, worktree, no faults | violation | an abandoned tool executed again |
| `human_review` | 2 reviews, 1 failed save, 1 host time-out | 227,191 | outcomes are on record, no decision is lost, waits end |
| `human_review_retry` | 1 review, 1 host time-out | violation | the person is told another decision than the one accepted |
| `mcp_client` | 2 servers, 2 calling tasks, 5 tool requests at most | 286,147 | answers and connections match, failed starts leave nothing, waits end |

Deadlock is not checked: runs, launches and connections end, and everything they
leave stays as it is.

### 3.1 Properties

RunLifecycle:
* `OpenCommitIsVisible`: an unsettled cycle is the last one of a
  COMMIT_ELIGIBLE record, and a cycle settled UNCERTAIN keeps the record
  UNCERTAIN. The gate and recovery look at the lifecycle first; a cycle hidden
  behind another lifecycle would be missed by both.
* `TerminalTellsTheTruth`: the final lifecycle, `commit_result` and
  `terminal_status` agree with the list of cycles.
* `HistoryIsKept`: no step drops, reorders or re-settles a proven cycle.
* `FinishedStaysFinished`: a failing run is ended by the handler of its error, by
  the exit of the lease, or by both: what the first recorded, with the terminal
  fields and the cycles, no later step changes, except the recovery of an
  UNCERTAIN run.

RunLease:
* `BudgetCountsWorkOnly`: what a claimer sees as spent is the time since the first
  claim in which nobody was asked, whether that claim came before, inside or
  between the waits and however these overlap; a work unit's copy agrees with the
  clock when nobody asks and never gives it more time than the clock.

CommitBatch:
* `ImplementsAtomicCommit`: refinement, with the evidence file read as the
  verdict.
* `CallerToldTheTruth`: the result or exception agrees with the evidence and
  the targets.
* `PartialCommitCanBeCompleted`: a mixed batch has a copy of each write still
  missing, except one whose re-creation failed.
* `SettledBatchLeavesNoCopy`: no temporary file is left beside a source file
  after a settled result. An interrupted call ends without one, and the code does
  leave the copy that `_stage_content` was writing (`commit.py:431` cleans up after
  an `Exception` only): that copy is the business of recovery.

TerminalCommit:
* `RecordAgreesWithEvidence`: a settled cycle has evidence with that ending,
  and open evidence has an open cycle.
* `SuccessMeansDelivered`: SUCCESS implies that files and registry are the
  candidate's.
* `RegistryNeverAhead`: the registry changes only after COMMITTED evidence.

CommitRecovery:
* `GateAdmitsOnlySettledWork`: with the lock free and the gate open, record,
  evidence, targets and registry belong to one side. Exempt is the registry of a
  commit interrupted after its COMMITTED evidence and settled from it
  (`SettledOnInterrupt`), which is `NoSilentStaleRegistry`'s case.
* `EveryCrashIsRecoverable`: open evidence with the lock free is one of the
  cases recovery settles, unless somebody else wrote a target, a copy could not
  be written, or death fell between a target's bytes and its mode.
* `RecoveryImplementsAtomicCommit`: the refinement, for run and recovery
  together.
* `RecoveryCompletes`: liveness, see below: an open gate, a finished record and no
  temporary file left, an interrupted call's among them.

ToolExecution:
* `DoubtShutsTheGate`: when no run and no command holds the lock, an effect that
  may have happened, was not seen to succeed and was disposed of by nobody shows
  in the control state. It relates what happened outside to what is on disk,
  after failed saves, deaths and power losses.
* `ReusableWorkIsThere`: a completion recorded as the workspace's is an effect
  that succeeded or a file that is there, in the visible and in the stable state.
* `CommitIsWhole`: a plan is committed only when each effect succeeded and each
  MODEL subtask's files are in the candidate or were committed before.
* `OneAttemptPerDecision`: however often a command is repeated after a death,
  the attempt number is at most one more than the retries on the ledger.
* `DoubtCanBeDisposedOf`: while some disposition of every blocking subtask is
  accepted, no step changes that, except a power loss that takes a visible state
  back. The rule that a recorded decision binds the state it was made on could
  shut the gate for good; it does so only in the case named under 3.2.
* `ResumeNeverRepeatsAnEffect`: a run that reuses earlier states executes no tool
  whose effect happened or may have in that execution, unless a retry says so.

HumanReview:
* `OutcomeIsOnRecord`: the workflow is told approved or declined only of what was
  accepted and is on disk, and no document ever says what was not accepted.
* `BothEndsAgree`: whatever was superseded, expired or interrupted meanwhile, the
  person is told "accepted" only of the decision the waiting run took for that
  review, and what the run took is told or on its way. A host that timed out is
  the case of 3.2.
* `ReasonIsTrue`: why a review was not decided is told truly.
* `HostIsAnswered`: while the host awaits a result, the decision is still to be
  judged, its result is on its way, or the channel is gone.
* `EveryWaitEnds`: liveness.

McpClient:
* `NoRequestOutlivesItsConnection`, `AnswerIsItsOwn`, `RegisteredServersAreLive`,
  `AllOrNothing`, `EveryWaitEnds`: as their names say; each is broken by an order
  of close, reader, time-out and start that a test would have to hit.
  `EveryWaitEnds` covers `start_all` with its rollback, `shutdown_all`, each close
  and each written request.

### 3.2 Disagreements with the repository's own words

* **`DurableIntentFirst`** (`kriya/repository/commit.py:569-574`: evidence is
  persisted, "fsynced file + directory", before a byte reaches the workspace).
  The directory's fsync is best effort (`atomic_write.py:208-227`), so staging
  goes on when it failed.
* **`NoSilentStaleRegistry`** (`kriya/workflow/terminal_commit.py:402-403`:
  "Never a silent stale registry"). An interrupt after the batch wrote COMMITTED
  is handled by settling the cycle from the evidence (378-385): the cycle is
  COMMITTED, the registry is still the old one, and recovery, which only looks
  at open cycles, leaves it so.
* **`EvidenceBeforeRecord`** (`kriya/control/recovery.py:740-741`: "Evidence is
  settled before the records that reference it"). When settling the evidence
  fails, recovery goes on and settles the record from its earlier assessment.
  The gate stays shut, since the evidence is still open, and a later recovery
  settles it: the order is broken, the result is not, which
  `GateAdmitsOnlySettledWork` and `RecoveryCompletes` show.

* **`AcceptedIsWhatWasDecided`** (`ui/standalone/src/main/approval_host.ts:8-9`:
  "the waiter's `result` frame is the only proof a decision was accepted"). The
  host matches a result to the decision it awaits by the review's id
  (`review_channel.ts:164`). After its time-out (125) the person may decide again,
  the other way; the late result of the first decision then answers the second.
* **`AbandonedIsNotExecuted`** (`kriya/control/tool_disposition.py:4` and `:277`,
  `state.py:63`: "never executed again"). A plan that stopped in its worktree is
  refused for resume (`enforce_loop.py:1360`) and starts fresh, without the
  markers and the attempt numbers.

Met while modelling, without a run of their own:

* `tool_disposition.py:21-23` says a crash between ledger and state is completed
  by re-running the command. Two cases are not. When the other action is applied
  first, the first command answers ALREADY_APPLIED (242) though it never was. And
  when the state a decision was recorded on was visible but not durable and a
  power loss takes it back, the same command is refused
  (DISPOSITION_STATE_CHANGED_SINCE_RECORDED, 262); if that happened to both
  actions, no command opens the gate. It takes two faults (a save that fails after
  it became visible, and the power loss) and two commands that died; the state
  taken back need not differ in the tool itself, a MODEL subtask that ended is
  enough. `DoubtCanBeDisposedOf` excepts the step of that power loss and no other.
* An interrupted wait calls the channel's `abandon`, which forgets whichever
  review is open: when a superseded wait is interrupted, the newer review is
  dropped and its wait ends as expired. `ReasonIsTrue` names the case.
* A decision in flight at a supersession, or a late answer after an expiry, makes
  the host close the channel for good (OUT_OF_ORDER), whereas
  `tests/_review_channel_host.py:42` describes the host as "skipping the stale
  ones a newer review superseded, as the real host does".
* `kriya/mcp/mcp.py:514` drains the pipe outside the request's time-out: a long
  call to a server that stops reading waits as long as the server lives, though
  484-486 say no request may hang. `EveryWaitEnds` says it of written requests
  only.
* `run_coordinator.py:225-227` says the attempt budget check, too, sees the budget
  frozen during a human wait. It reads a work unit's copy (276), which is set only
  when the wait ends: during the wait the copy gives less time than the clock, never
  more. Nothing checks it then unless another work unit runs during the wait.
* A retry's attempt number is lost like an abandoned marker when the plan starts
  fresh; a start of a server that is cancelled from outside is neither closed nor
  rolled back (`except Exception`).

### 3.3 Bounds, and why they are enough

* `N`: two operations are the fewest in which some are applied and some are
  not, three the fewest in which a loop is left in the middle, with something
  before and after it. Each size has a write and a delete, a default and an odd
  mode. The theorems about the batch, the seam and recovery hold for every `N`.
* `MaxEdits`: one write by somebody else can hit any target at any time. The
  theorems hold for any number.
* `MaxFaults` bounds the failures and deaths of recover; a batch stops at its
  first failure and needs no bound except in the rollback, where each operation
  can fail.
* ToolExecution: a MODEL subtask and two tools are the fewest in which a tool can
  be in doubt behind work of either kind and a second effect waits behind it; the
  theorems hold for every plan. Three runs let an execution be resumed twice
  or begun afresh and resumed; two faults let a save fail after it became visible
  and a power loss take it back. One operator command can be repeated any number
  of times.
* HumanReview: two reviews are the fewest that supersede one another; deadlines,
  interruptions and frames are unbounded except by the protocol.
* McpClient: two servers are the fewest of which one fails after another started;
  five requests let ids of time-outs and late answers meet; the theorems hold for
  any number of each.
* `Tx`: three cycles show a first, a last and one between. The theorems about
  the record hold for every set.
* RunLease: two waits overlap or follow each other; four ticks are one before, one
  inside each of two waits, and one after. The theorem holds for any number.

### 3.4 Fairness

`RecoveryCompletes`: `WF_allVars(RecoverStep)`: a recover
that runs goes on, as a sequential program does unless it fails or dies, and
those steps are not fair and are bounded by `MaxFaults`.
`SF_allVars(StartRecovery(TRUE))`: the operator runs `kriya runs recover
--complete-partial` again as long as there is something to recover; strong,
because a recovery that is under way disables the next. Nothing is assumed of
the run itself: it may stop for ever at any place, and the property speaks only
of states in which it is gone and the lock is free.

`HumanReview!EveryWaitEnds`: the event loop resumes each coroutine that can go on
(`WF` of `Wait(r)`) and the clock advances. Nothing is expected of the person or
of the host, which may answer nothing and never go away.

`McpClient!EveryWaitEnds`: every step of `start_all`, `shutdown_all` and of a close is bounded by
a time-out of the code (`mcp.py:280`, `:398-429`), and so is a request that was
written; `WF` says that these end. The reader closes a connection whose server is
gone. Nothing is expected of a server, of a caller, or of the one who shuts down.

## 4. The proofs

Assumptions: `BatchAssumption` (at least one operation; `Deletes` and `OddMode`
are subsets of the operations; `MaxEdits` is a natural number),
`CommitAssumption` (`Tx` is not empty), `RecoverAssumption` (`MaxFaults` is a
natural number), `LeaseAssumption` (finitely many waits; `MaxTime` is a natural
number), `PlanAssumption` (at least one subtask; `Tools` is a subset of the
subtasks, `Sandboxes` of the Booleans; the bounds are natural numbers),
`ReviewAssumption` (at least one review; the bounds are natural numbers),
`McpAssumption` (at least one server; `MaxRequests` is a natural
number; `boot` is not a caller). TLC evaluates each on every run of its module.

**RunLifecycle_proofs.** `Sound(r)` is stated of a record: it is well typed,
`Visible` and `Truthful`. Each operator of RunRecord has a lemma that it
preserves `Sound` under its guard. The lemmas about records that the seam needs
too are in **RunRecord_proofs**. The lemmas about sequences (`ClosedProperties`,
`ProvedByProperties`, `WithLastResultProperties`) say what closing, proving and
settling do to a list of cycles; `SummaryTruth` says that the summary of a list
without open cycles agrees with it. `TypeCorrect`, `OpenCommitAlwaysVisible`
and `TerminalAlwaysTellsTheTruth` follow from the invariant; `HistoryAlwaysKept`
and `FinishedRunsStayFinished` are action properties proved from it by the same
case analysis. Neither safety property is inductive alone: that FAILURE has no
open cycle needs that an open one is visible.

The same module proves of the lease that it takes nothing from the run
(`LeaseKeepsTheRun`: what is proved of `Spec` holds of `LeaseSpec`), and
`BudgetAlwaysCountsWorkOnly`. Its invariant `ClockInv` adds that a wait began in
the past and that nothing is counted or copied before the first claim; the step
that matters is the last one out of the waits, after which the clock is what
claimers were told before.

**CommitBatch_proofs.** None of the batch's properties is inductive: whether
the evidence may settle depends on how far the loops are. `IInv` has one
conjunct per place in the code, saying there what the targets on either side of
the loop's cursor hold, which writes still have a copy, and what the evidence
is; `Always` holds everywhere, after a crash too. `NextInv` has one step per
action. The theorems are `TypeCorrect`, `CallerAlwaysToldTheTruth`,
`PartialCommitAlwaysCompletable`, `SettledBatchAlwaysClean`, and
`BatchImplementsAtomicCommit`, in which every action is mapped to a step of
AtomicCommit or to a stutter.

**CommitRecovery_proofs.** The batch's `IInv` survives the seam and recovery;
`RInv` adds what recovery needs: it runs only when the run is gone
(`RecoverWhere`), it holds open evidence until it settles (`RecoverEvidence`),
the state it settles to is the one the targets are in (`RecoverGoal`), and what
it still has to apply has its copies (`RecoverCopies`).
`RecoveryAlwaysImplementsAtomicCommit` is the refinement for commit and any
number of recoveries. The second half of the module, on the gate, is described
after the seam's.

**TerminalCommit_proofs.** `StoryHolds`: one invariant that says, for each place
of the seam, what the record's cycle, the evidence, the registry and the files
are. The batch's `IInv` is part of it; the record's side uses RunRecord_proofs.
From it: `CommitTypeCorrect`, `RecordAlwaysAgrees`, `SuccessAlwaysDelivers` and
`RegistryNeverRunsAhead`.

**CommitRecovery_proofs, the gate.** Record, evidence and registry of one transaction may be
settled by different recoveries, each dying somewhere, so no place of a single
recovery says what they are. `GInv` states instead what the disk keeps proving:
evidence that is settled either way owes the record and the registry that way
(`OwesCommit`, `OwesRollBack`), before-states are read before anything is applied
(`Grounded`), and the staged copies that are left are those of operations not
applied (`Consumed`, `Leftovers`). `BackedAlways` is the invariance of `RInv` and
`GInv`; `RecoverTypeCorrect`, `GateIsSound` and `EveryCrashCanBeRecovered` follow.
`GInv` was model-checked with two edits and two faults (3.65 million states)
before it was proved.

**McpClient_proofs.** `Inductive` is the invariance of `Typed`, `Matched` and
`Tracked`, each inductive once those before it are known. `Typed`: the types, and
the ids sent stay within their bound. `Matched`: an id in use belongs to one task
and is not above the client's last id, a waiter's request was sent, so an answer's
serial is the request's. `Tracked`: a pending request's connection is not closed,
a registered server is a live client's, and every server started in this call is
in `todo` until it is stopped. `TypeCorrect`, `RequestsEndWithTheConnection`,
`AnswersMatch`, `RegistryIsLive` and `StartIsAtomic` follow.

**HumanReview_proofs.** A save that failed leaves the disk ahead of the memory or
behind it, and either may be what a later save starts from. So `Recorded` asks of
both that they back what the workflow was told and say no more than was accepted
(`Backs`); with `Places` (what was told of a review ends its wait, and an accepted
decision is known until then) this is inductive. The type invariant needs `Places`:
a review that is offered was not decided before. `HostIsAnswered` is inductive
itself, given the types: a decision that leaves the queue is answered in the same
step. `TypeCorrect`, `OutcomeAlwaysOnRecord`, `HostAlwaysAnswered`, `ReasonIsAlwaysTrue` and
`BothEndsAlwaysAgree` follow. The last is inductive with `OneInFlight`: before any
time-out, either the one decision the host awaits is still to be judged or its one
result is in flight, and that says what the waiter took.

`ReasonIsTrue` needs more (`Reasoned`), for a reason is told later than its cause:
* `Current`: the review on record is the last one whose request was saved, and it
  is pending until its wait ends; so a decision that cannot be recorded either
  failed in its save or finds a later review on record.
* `Expired`: a wait whose review is not open any more was overtaken before it finds
  out, by its deadline, by a review offered later, by an interrupted wait, or by the
  end of the channel.
* `Faulted`: the requests that could not be saved are at most as many as the
  failed saves, so a failed save of a decision is one more (`NotOfferedFinite` and
  the theorems on cardinalities).

**ToolExecution_proofs.** A failed save or a power loss may make any of three
documents the one a later step starts from: the visible control state, the durable
one, and the run's own. The invariant says of all three what they must not claim:
* `Chronology`: an execution is never of a later run than a document that survives,
  and a run under way is later than every decision on the ledger. So what a run
  writes is bound by no earlier decision.
* `Disposing`: a command between its two saves has its decision on the ledger and
  its subtask still awaits it.
* `MarksAreOrdered`: a document has at most one tool started, failed or abandoned,
  and in a state of the workspace everything before it is completed. So a run that
  stops at the first marked tool has left no other doubt behind or before it.
* `Progress`: place by place, what the run's own document says before and from the
  cursor on, and where it equals the visible and the durable one.
* `WorkIsThere`: what a document calls completed is there, for good or for the run
  that made it, by the document's scope.
* `DoubtIsShown`: an effect in doubt is shown by every document, and these are of
  the run that executed it; while the run lives, it is at one of five places.
* `AttemptsAreCounted`: a document's attempt number is bounded by the retries
  recorded of lower attempts. The bound the property states is not inductive: a
  retry repeated after a death finds its own entry, and only that the entry's attempt
  is lower shows that it is not counted twice.
* `RunnableIsFree`: what a resume would execute, it may: it never ran in the
  execution resumed, was armed again, or a retry of it is on the ledger.

Each writing action has one lemma that says what it may leave on disk (`...Does`,
with `Leaves`), and each part of the invariant one lemma per kind of change; the
invariance proofs cite these. `IInv` was model-checked with three subtasks, a MODEL
subtask before or between two tools, and two faults before it was proved.
`TypeCorrect`, `DoubtAlwaysShutsTheGate`, `ReusableWorkIsAlwaysThere`,
`CommitIsAlwaysWhole` and `OneAttemptPerDecisionAlways` follow from it; the action
properties `ResumeRepeatsNoEffect` and `DoubtCanAlwaysBeDisposedOf` are proved from
it by cases on the step. The last one is what is left of an invariant (`Disposable`)
that is false: with a MODEL subtask before a tool, TLC finds the power loss named
under 3.2.

Every invariant and action property of the passing runs is a theorem. Only
model-checked: the three liveness properties (`RecoveryCompletes` and
the two `EveryWaitEnds`), which with fairness and ENABLED are out of the prover's
reach, and the five runs that expect a violation.

## 5. What the models leave out

* An empty batch (returns before any evidence), directories the batch creates,
  and the shape checks of the preflight: they refuse before anything is written.
* The revision counter of a record and timestamps. Saves under one lock do not
  meet each other. A save that fails after its file became visible is
  represented by its success, followed by the failing exit.
* Power loss after the intent: `durable` speaks of the evidence's directory
  entry only.
* A candidate equal to its original. Somebody else's write is never exactly the
  original or the candidate.
* Evidence of schema 1, files of another workspace, files that do not parse.
* TerminalCommit and CommitRecovery have one commit cycle, RunLifecycle has
  several; a digest mismatch is settled UNCERTAIN and recovered like any other.
* ToolExecution: plans revised while they run, drift of the workspace as a thing
  of its own (it is among the reasons to refuse a resume), states saved before
  attempt numbers existed, direct tool runs. A control state is saved whole, so
  only one version is ever visible but not durable.
* HumanReview: frames that break the grammar, name another launch or carry a
  wrong capability (the host echoes what it was sent), the review's diff, two
  decisions of one instant from two processes (one process waits per launch).
* McpClient: whether a call is allowed, a start or close that is cancelled from
  outside, the server's own requests, a second `start_all`.
* Double faults around staging: that a copy could not be written and that the copy
  could not be removed either is one failing step (`StageFails`).
* The loop's own error handler (`enforce_loop.py:3573-3639`) with its save is part of
  the run's end (`RunEnds`): it saves the same documents as `Discard` and `Adopt`,
  each of which may fail.
* A leftover copy (`orphans`) is never used as a copy. An interrupt inside the
  loop that stages copies again is one step (`Restage`, `Escape`).

## 6. Plan

1. Done: RunRecord, RunLifecycle, RunLease, AtomicCommit, CommitBatch, TerminalCommit,
   CommitRecovery, ToolExecution, HumanReview, McpClient, and the proofs of
   section 4.
2. **Retention**: records, evidence and the references between them; dying
   between removing a record and its evidence; the counts. Property: a prune
   removes nothing that anything retained refers to. The module's own comment
   (`kriya/control/retention.py`, before the removals) says that evidence left by a
   crash is removed by "the next prune"; it is then unreferenced evidence, of
   which the newest are kept.
3. Several transactions at once in recovery; milestones that refer to committed
   runs; checkpoints of the direct path.
4. Proofs: what the plan's next modules promise; RunLease and McpClient against
   abstract specifications of a budget and of a call, if these say more than the
   invariants do.
