--------------------------- MODULE ToolExecution ---------------------------
(***************************************************************************)
(* How an approved plan is executed over several runs, and what becomes of *)
(* a TOOL subtask whose external effect may or may not have happened:      *)
(* kriya/workflow/enforce_loop.py and workflow_controller.py (the loop),   *)
(* workflow/resume_support.py (what a resume reuses), control/state.py and *)
(* persistence.py (the control state), control/tool_disposition.py (the    *)
(* operator's abandon and retry), control/commit_state.py (the gate).      *)
(*                                                                         *)
(* The control state is one document. disk is what a reader sees, stable   *)
(* what a power loss leaves. Every save is durable or raises, and one that *)
(* raises may have become visible all the same: the loop catches that for  *)
(* a tool's own states, elsewhere it ends the run. The plan runs in a      *)
(* separate worktree, and what MODEL subtasks write there is lost with the *)
(* run unless the plan commits; the branches for a plan that runs in the   *)
(* workspace itself, which the repository's tests put it in, are modelled  *)
(* too.                                                                    *)
(*                                                                         *)
(* Left out: plans revised while they run, drift of the workspace between  *)
(* runs (it is among the reasons to refuse a resume), states without       *)
(* attempt numbers, and direct tool runs (see RunLifecycle).               *)
(***************************************************************************)
EXTENDS Naturals, FiniteSets

CONSTANTS
    N,          \* the plan's subtasks are 1..N, in execution order
    Tools,      \* those executed by a tool, the others by the model
    Sandboxes,  \* TRUE: plans run in a separate worktree, FALSE: in the workspace
    MaxRuns,    \* bound on the runs begun
    MaxFaults   \* bound on failed saves and power losses

ASSUME PlanAssumption ==
    /\ N \in Nat \ {0}
    /\ Tools \subseteq 1..N
    /\ Sandboxes \subseteq BOOLEAN
    /\ MaxRuns \in Nat
    /\ MaxFaults \in Nat

VARIABLES
    disk,       \* the control state a reader sees
    stable,     \* the control state that survives a power loss
    ledger,     \* the operator's dispositions in the decision ledger
    separate,   \* create_git_worktree returns another path than the workspace
    work,       \* where the files of each MODEL subtask are
    did,        \* the last execution of each tool: what happened, in which run
    first,      \* the run that began the present execution of the plan afresh
    pc,         \* the place of the run that holds the lock, "idle" without one
    asked,      \* it was asked to resume, and found the plan and the workspace the same
    mem,        \* its control state
    resumed,    \* the subtask states it adopted from an earlier run
    cursor,     \* the subtask it is at
    op,         \* the disposition a `kriya runs` command has recorded
    runs,       \* runs begun
    faults      \* failed saves and power losses

files == <<disk, stable, ledger, separate>>
run == <<pc, asked, mem, resumed, cursor, runs>>
vars == <<files, work, did, first, run, op, faults>>

Subtasks == 1..N
Models == Subtasks \ Tools

\* Plain "failed" stands for "needs_review" as well: both can be run again.
ModelStates == {"absent", "pending", "in_progress", "completed", "failed"}
ToolStates == {"absent", "pending", "completed", "failed",
               "tool_started", "tool_failed", "tool_abandoned"}
States == ModelStates \cup ToolStates

Actions == {"abandon", "retry"}

\* A control state no subtask was recorded in (ControlState.new).
Fresh(id) ==
    [run |-> id, scope |-> "none", st |-> [s \in Subtasks |-> "absent"],
     attempt |-> [s \in Tools |-> 0]]

NothingResumed == [s \in Subtasks |-> "absent"]

----------------------------------------------------------------------------
(* The control state and its saves *)

With(c, s, state) == [c EXCEPT !.st[s] = state]

\* undisposed_tool_subtask_ids: an effect that awaits an operator.
Undisposed(c) == {s \in Tools : c.st[s] \in {"tool_started", "tool_failed"}}

\* gate_clearing_tool_subtask_ids: states that let the next run pass.
GateClearing(c) == {s \in Tools \ Undisposed(c) : c.attempt[s] > 0}

Save(c) == disk' = c /\ stable' = c

Fault == faults < MaxFaults /\ faults' = faults + 1

\* DurableWriteError: the new document may be visible all the same.
SaveFails(c) ==
    /\ disk' \in {disk, c}
    /\ stable' \in {stable, disk'}
    /\ Fault

\* A strict read relies on a gate-clearing state only once it is durable.
Confirmed ==
    IF GateClearing(disk) = {} THEN UNCHANGED <<disk, stable>> ELSE Save(disk)

Idle == pc = "idle" /\ op = <<>>

GoTo(place) == pc' = place

\* A save whose failure nobody catches: the exception ends the run.
Saves(c, place) ==
    \/ Save(c) /\ GoTo(place) /\ UNCHANGED faults
    \/ SaveFails(c) /\ GoTo("raised")

LetGo ==
    /\ GoTo("idle")
    /\ asked' = FALSE /\ mem' = Fresh(0) /\ resumed' = NothingResumed /\ cursor' = 0

----------------------------------------------------------------------------
(* A run begins: gate, planning, resume, sandbox *)

\* The gate refuses while an effect awaits an operator, and while a state that
\* would open it cannot be confirmed durable.
BeginRun(resume) ==
    /\ Idle
    /\ runs < MaxRuns
    /\ Undisposed(disk) = {}
    /\ Confirmed
    /\ runs' = runs + 1 /\ GoTo("planning") /\ asked' = resume /\ mem' = Fresh(runs')
    /\ UNCHANGED <<ledger, separate, work, did, first, resumed, cursor, op, faults>>

\* A typed stop before the loop (no plan, a refused goal, a worktree that could
\* not be made): execute() saves the control state it began with.
TypedStop ==
    /\ pc \in {"planning", "sandbox"}
    /\ Saves(Fresh(mem.run), "over")
    /\ UNCHANGED <<ledger, separate, work, did, first, asked, mem, resumed, cursor, op, runs>>

\* The states the run starts its plan from; the markers of effects that may
\* have happened are carried through its first save.
Carried(adopted) ==
    [s \in Subtasks |->
        IF adopted[s] = "completed" THEN "completed"
        ELSE IF s \in Tools /\ adopted[s] \in {"tool_started", "in_progress"} THEN "tool_started"
        ELSE IF s \in Tools /\ adopted[s] \in {"tool_failed", "tool_abandoned"} THEN adopted[s]
        ELSE "pending"]

StartFrom(adopt) ==
    LET adopted == IF adopt THEN disk.st ELSE NothingResumed
        some == adopted # NothingResumed
        start == [run |-> mem.run, st |-> Carried(adopted),
                  scope |-> IF some THEN "workspace" ELSE "none",
                  attempt |-> IF some THEN disk.attempt ELSE mem.attempt]
    IN  /\ resumed' = adopted
        /\ mem' = start
        /\ Saves(start, "sandbox")
        /\ first' = IF ~some /\ disk' = start THEN mem.run ELSE first

\* Faulty variant: the scope of the recorded completions is not asked for.
StartPlanAnyScope(same) ==
    /\ pc = "planning"
    /\ StartFrom(asked /\ same)
    /\ asked' = (asked /\ same)
    /\ UNCHANGED <<ledger, separate, work, did, cursor, op, runs>>

\* A resume reuses the earlier states when the contracts, the plan and the
\* workspace are the same and the completions are in the workspace; otherwise
\* the plan starts fresh.
StartPlan(same) ==
    /\ pc = "planning"
    /\ StartFrom(asked /\ same /\ disk.scope = "workspace")
    /\ asked' = (asked /\ same)
    /\ UNCHANGED <<ledger, separate, work, did, cursor, op, runs>>

\* Faulty variant: completions are recorded as if they were in the workspace.
MakeSandboxInPlace ==
    /\ pc = "sandbox"
    /\ mem' = [mem EXCEPT !.scope = "workspace"]
    /\ work' = [s \in Models |-> IF work[s] = "sandbox" THEN "nowhere" ELSE work[s]]
    /\ cursor' = 1
    /\ GoTo("loop")
    /\ UNCHANGED <<files, did, first, asked, resumed, op, runs, faults>>

\* create_git_worktree: what an earlier sandbox held is gone.
MakeSandbox ==
    /\ pc = "sandbox"
    /\ mem' = [mem EXCEPT !.scope = IF separate THEN "candidate" ELSE "workspace"]
    /\ work' = [s \in Models |-> IF work[s] = "sandbox" THEN "nowhere" ELSE work[s]]
    /\ cursor' = 1
    /\ GoTo("loop")
    /\ UNCHANGED <<files, did, first, asked, resumed, op, runs, faults>>

----------------------------------------------------------------------------
(* The subtask loop *)

At(k) == pc = "loop" /\ k = cursor /\ k \in Subtasks

\* The subtask is over: the next one, or the end of the loop.
Following == IF cursor = N THEN "finish" ELSE "loop"

Advance == cursor' = cursor + 1 /\ GoTo(Following)

\* The loop is left before the end; no later subtask runs.
Break == GoTo("finish") /\ UNCHANGED cursor

\* A subtask completed in the workspace is not run again; of a tool the
\* authority is decided once more, and a refusal ends the run.
SkipCompleted(k) ==
    /\ At(k)
    /\ resumed[k] = "completed"
    /\ Advance \/ (k \in Tools /\ Break)
    /\ UNCHANGED <<files, work, did, first, asked, mem, resumed, op, runs, faults>>

\* An unresolved, failed or abandoned tool stops the run; nothing is executed.
StopAtMarker(k) ==
    /\ At(k)
    /\ k \in Tools
    /\ resumed[k] \in {"tool_started", "in_progress", "tool_failed", "tool_abandoned"}
    /\ Break
    /\ UNCHANGED <<files, work, did, first, asked, mem, resumed, op, runs, faults>>

StartModel(k) ==
    /\ At(k)
    /\ k \in Models /\ resumed[k] # "completed"
    /\ mem' = With(mem, k, "in_progress")
    /\ Saves(mem', "model")
    /\ UNCHANGED <<ledger, separate, work, did, first, asked, resumed, cursor, op, runs>>

\* The subtask's own generation and gates passed, or did not.
EndModel(passed) ==
    /\ pc = "model"
    /\ mem' = With(mem, cursor, IF passed THEN "completed" ELSE "failed")
    /\ work' = IF passed THEN [work EXCEPT ![cursor] = IF separate THEN "sandbox" ELSE "workspace"]
                ELSE work
    /\ cursor' = IF passed THEN cursor + 1 ELSE cursor
    /\ Saves(mem', IF passed THEN Following ELSE "finish")
    /\ UNCHANGED <<ledger, separate, did, first, asked, resumed, op, runs>>

\* Faulty variant: a tool is recorded in progress, as a MODEL subtask is.
StartedInProgress(k) == With(mem, k, "in_progress")

\* STARTED with its attempt number, an attempt an operator re-armed keeping its.
Started(k) ==
    [With(mem, k, "tool_started") EXCEPT
        !.attempt[k] = IF mem.attempt[k] = 0 THEN 1 ELSE mem.attempt[k]]

\* Faulty variant: an abandoned tool is run like one that failed before its effect.
ToRunAbandoned(k) ==
    k \in Tools /\ resumed[k] \in {"absent", "pending", "failed", "tool_abandoned"}

ToRun(k) == k \in Tools /\ resumed[k] \in {"absent", "pending", "failed"}

\* STARTED is durable before the effect.
StartTool(k) ==
    /\ At(k) /\ ToRun(k)
    /\ mem' = Started(k)
    /\ Save(mem')
    /\ GoTo("effect")
    /\ UNCHANGED <<ledger, separate, work, did, first, asked, resumed, cursor, op, runs, faults>>

\* Faulty variant: the failure is logged and the tool runs.
StartToolRegardless(k) ==
    /\ At(k) /\ ToRun(k)
    /\ mem' = Started(k)
    /\ SaveFails(mem')
    /\ GoTo("effect")
    /\ UNCHANGED <<ledger, separate, work, did, first, asked, resumed, cursor, op, runs>>

\* TOOL_STARTED_NOT_DURABLE: nothing is run and the state goes back.
StartToolFails(k) ==
    /\ At(k) /\ ToRun(k)
    /\ SaveFails(Started(k))
    /\ Break
    /\ UNCHANGED <<ledger, separate, work, did, first, asked, mem, resumed, op, runs>>

\* The registry, the mode or the authority phase refuses: no effect.
RefuseTool ==
    /\ pc = "effect"
    /\ mem' = With(mem, cursor, "failed")
    /\ Saves(mem', "finish")
    /\ UNCHANGED <<ledger, separate, work, did, first, asked, resumed, cursor, op, runs>>

BeginEffect ==
    /\ pc = "effect"
    /\ did' = [did EXCEPT ![cursor] = [end |-> "maybe", run |-> mem.run]]
    /\ GoTo("running")
    /\ UNCHANGED <<files, work, asked, mem, resumed, cursor, op, runs, faults, first>>

EndEffect(end) ==
    /\ pc = "running"
    /\ did' = [did EXCEPT ![cursor].end = end]
    /\ GoTo("returned")
    /\ UNCHANGED <<files, work, asked, mem, resumed, cursor, op, runs, faults, first>>

Ended(end) == pc = "returned" /\ did[cursor].end = end

\* COMPLETED is durable before success is told.
SaveCompleted ==
    /\ Ended("yes")
    /\ mem' = With(mem, cursor, "completed")
    /\ Save(mem')
    /\ Advance
    /\ UNCHANGED <<ledger, separate, work, did, first, asked, resumed, op, runs, faults>>

\* TOOL_COMPLETED_NOT_DURABLE: the run goes on from STARTED, as needs_review.
SaveCompletedFails ==
    /\ Ended("yes")
    /\ SaveFails(With(mem, cursor, "completed"))
    /\ Break
    /\ UNCHANGED <<ledger, separate, work, did, first, asked, mem, resumed, op, runs>>

\* A failure not proven to be before the effect ends the attempt, whether or
\* not its record can be made durable.
SaveFailed ==
    /\ Ended("failed")
    /\ mem' = With(mem, cursor, "tool_failed")
    /\ \/ Save(mem') /\ UNCHANGED faults
       \/ SaveFails(mem')
    /\ Break
    /\ UNCHANGED <<ledger, separate, work, did, first, asked, resumed, op, runs>>

----------------------------------------------------------------------------
(* The end of the run *)

\* The completions go with the sandbox, the markers of effects stay.
Discarded(c) ==
    [c EXCEPT !.st = [s \in Subtasks |-> IF @[s] = "completed" THEN "pending" ELSE @[s]]]

\* A subtask did not complete, a terminal gate failed, or nothing was committed.
Discard ==
    /\ pc = "finish"
    /\ Saves(IF separate THEN Discarded(mem) ELSE mem, "over")
    /\ UNCHANGED <<ledger, separate, work, did, first, asked, mem, resumed, cursor, op, runs>>

\* All subtasks completed and the terminal gates passed: the candidate is
\* committed (see TerminalCommit) ...
Commit ==
    /\ pc = "finish" /\ cursor = N + 1
    /\ work' = [s \in Models |-> IF work[s] = "sandbox" THEN "workspace" ELSE work[s]]
    /\ GoTo("committed")
    /\ UNCHANGED <<files, did, first, asked, mem, resumed, cursor, op, runs, faults>>

\* ... and the completions are recorded as the workspace's.
Adopted == [mem EXCEPT !.scope = "workspace"]

Adopt ==
    /\ pc = "committed"
    /\ Save(Adopted)
    /\ GoTo("over")
    /\ UNCHANGED <<ledger, separate, work, did, first, asked, mem, resumed, cursor, op, runs, faults>>

\* A failure after the commit is only reported ...
AdoptFails ==
    /\ pc = "committed"
    /\ SaveFails(Adopted)
    /\ GoTo(IF separate THEN "reported" ELSE "raised")
    /\ UNCHANGED <<ledger, separate, work, did, first, asked, mem, resumed, cursor, op, runs>>

\* ... and execute() saves the state the loop returned.
SaveReturned ==
    /\ pc = "reported"
    /\ Saves(mem, "over")
    /\ UNCHANGED <<ledger, separate, work, did, first, asked, mem, resumed, cursor, op, runs>>

\* The run is over, an exception ended it, or the process dies anywhere.
RunEnds ==
    /\ pc # "idle"
    /\ LetGo
    /\ UNCHANGED <<files, work, did, first, op, runs, faults>>

----------------------------------------------------------------------------
(* The operator's disposition of a tool subtask *)

Eligible(act, s) ==
    disk.st[s] \in IF act = "abandon" THEN {"tool_started", "tool_failed"}
                   ELSE {"tool_started", "tool_failed", "tool_abandoned"}

\* The state an action leads to.
Disposed(c, act, s) ==
    IF act = "abandon" THEN With(c, s, "tool_abandoned")
    ELSE [With(c, s, "pending") EXCEPT !.attempt[s] = @ + 1]

\* The ledger's record of the action on the attempt the operator inspected.
Entry(act, s) ==
    [run |-> disk.run, subtask |-> s, action |-> act, attempt |-> disk.attempt[s], prior |-> disk]

SameDisposition(d, e) ==
    /\ d.run = e.run /\ d.subtask = e.subtask
    /\ d.action = e.action /\ d.attempt = e.attempt

Recorded(e) == {d \in ledger : SameDisposition(d, e)}

\* Faulty variant: whatever was recorded before refuses the command.
BoundOnce(e) == Recorded(e) = {}

\* A record left by a crash binds only the state it was made for.
Bound(e) == \A d \in Recorded(e) : d.prior = e.prior

\* Faulty variant: the state is changed when the decision is recorded.
RecordDispositionAndApply(act, s) ==
    /\ Idle
    /\ Eligible(act, s)
    /\ Save(Disposed(disk, act, s))
    /\ op' = <<act, s>>
    /\ UNCHANGED <<ledger, separate, work, did, first, run, faults>>

\* Steps 1 to 4 of the command: under the lock, on the state it just read, the
\* decision becomes durable unless an earlier command recorded it.  What is not
\* eligible, stale or bound to another state is answered and changes nothing.
RecordDisposition(act, s) ==
    /\ Idle
    /\ Eligible(act, s)
    /\ Bound(Entry(act, s))
    /\ Confirmed
    /\ ledger' = IF Recorded(Entry(act, s)) = {} THEN ledger \cup {Entry(act, s)} ELSE ledger
    /\ op' = <<act, s>>
    /\ UNCHANGED <<separate, work, did, first, run, faults>>

\* Step 5: the new state is durable.
ApplyDisposition ==
    /\ op # <<>>
    /\ Save(Disposed(disk, op[1], op[2]))
    /\ did' = [did EXCEPT ![op[2]].end = IF op[1] = "abandon" THEN "abandoned" ELSE "rearmed"]
    /\ op' = <<>>
    /\ UNCHANGED <<ledger, separate, work, run, faults, first>>

DispositionFails ==
    /\ op # <<>>
    /\ SaveFails(Disposed(disk, op[1], op[2]))
    /\ op' = <<>>
    /\ UNCHANGED <<ledger, separate, work, did, first, run>>

OperatorDies ==
    /\ op # <<>>
    /\ op' = <<>>
    /\ UNCHANGED <<files, work, did, first, run, faults>>

PowerLoss ==
    /\ disk' = stable
    /\ LetGo
    /\ op' = <<>>
    /\ Fault
    /\ UNCHANGED <<separate, stable, ledger, work, did, first, runs>>

----------------------------------------------------------------------------
Init ==
    /\ disk = Fresh(0) /\ stable = Fresh(0) /\ ledger = {}
    /\ work = [s \in Models |-> "nowhere"]
    /\ did = [s \in Tools |-> [end |-> "no", run |-> 0]]
    /\ separate \in Sandboxes /\ first = 0
    /\ pc = "idle" /\ asked = FALSE /\ mem = Fresh(0) /\ resumed = NothingResumed /\ cursor = 0
    /\ op = <<>> /\ runs = 0 /\ faults = 0

Next ==
    \/ \E resume \in BOOLEAN : BeginRun(resume)
    \/ TypedStop
    \/ \E same \in BOOLEAN : StartPlan(same)
    \/ MakeSandbox
    \/ \E k \in Subtasks : SkipCompleted(k) \/ StopAtMarker(k) \/ StartModel(k)
    \/ \E passed \in BOOLEAN : EndModel(passed)
    \/ \E k \in Tools : StartTool(k) \/ StartToolFails(k)
    \/ RefuseTool \/ BeginEffect
    \/ \E end \in {"yes", "failed"} : EndEffect(end)
    \/ SaveCompleted \/ SaveCompletedFails \/ SaveFailed
    \/ Discard \/ Commit \/ Adopt \/ AdoptFails \/ SaveReturned
    \/ RunEnds
    \/ \E act \in Actions, s \in Tools : RecordDisposition(act, s)
    \/ ApplyDisposition \/ DispositionFails \/ OperatorDies
    \/ PowerLoss

Spec == Init /\ [][Next]_vars

----------------------------------------------------------------------------
(* Properties *)

ControlState ==
    [run : 0..MaxRuns, scope : {"none", "workspace", "candidate"},
     st : [Subtasks -> States], attempt : [Tools -> Nat]]

\* The variables have their types, and a tool's states are never a MODEL subtask's.
TypeOK ==
    /\ \A c \in {disk, stable, mem} : /\ \A s \in Models : c.st[s] \in ModelStates
                                     /\ \A s \in Tools : c.st[s] \in ToolStates
    /\ disk \in ControlState /\ stable \in ControlState /\ mem \in ControlState
    /\ \A d \in ledger : /\ d.run \in 0..MaxRuns /\ d.subtask \in Tools
                         /\ d.action \in Actions /\ d.prior \in ControlState
    /\ work \in [Models -> {"nowhere", "sandbox", "workspace"}]
    /\ did \in [Tools -> [end : {"no", "maybe", "yes", "failed", "abandoned", "rearmed"},
                          run : 0..MaxRuns]]
    /\ pc \in {"idle", "planning", "sandbox", "loop", "model", "effect", "running",
               "returned", "finish", "committed", "reported", "over", "raised"}
    /\ asked \in BOOLEAN /\ resumed \in [Subtasks -> States] /\ cursor \in 0..(N + 1)
    /\ op = <<>> \/ op \in Actions \X Tools
    /\ runs \in 0..MaxRuns /\ first \in 0..MaxRuns /\ faults \in 0..MaxFaults
    /\ separate \in BOOLEAN

\* An effect that may have happened, was not seen to succeed and was disposed of
\* by nobody: whenever the lock is free, after any failed save, death or power
\* loss, the control state shows it, and so the gate refuses the next run.
DoubtShutsTheGate ==
    \A s \in Tools :
        /\ Idle
        /\ did[s].end \in {"maybe", "failed"}
        /\ ~\E d \in ledger : d.subtask = s /\ d.run = did[s].run
        => s \in Undisposed(disk)

\* What a later run may reuse is there: a completion recorded in the workspace
\* is an effect that succeeded or a file that was committed, in the state that
\* is visible and in the one a power loss would bring back.
ReusableWorkIsThere ==
    \A c \in {disk, stable} :
        c.scope = "workspace" =>
            \A s \in Subtasks : c.st[s] = "completed" =>
                IF s \in Tools THEN did[s].end = "yes" ELSE work[s] = "workspace"

\* A plan is committed only whole: each effect succeeded, and each model subtask's
\* files are in the candidate or were committed before.
CommitIsWhole ==
    pc = "committed" =>
        /\ \A s \in Tools : did[s].end = "yes"
        /\ \A s \in Models : work[s] = "workspace"

\* One decision re-arms a subtask once: however often a command is repeated
\* after a crash, the attempt number is one more than the retries recorded.
OneAttemptPerDecision ==
    \A c \in {disk, stable}, s \in Tools :
        c.attempt[s] <= 1 + Cardinality({d \in ledger : /\ d.run <= c.run /\ d.subtask = s
                                                         /\ d.action = "retry"})

\* A gate shut by an effect can be opened: some disposition of it is accepted.
Disposable ==
    \A s \in Undisposed(disk) : \E act \in Actions : Eligible(act, s) /\ Bound(Entry(act, s))

\* A recorded decision binds the state it was made on, and still no run, command,
\* failed save or death shuts the gate for good: only a power loss can, that takes
\* back a state on which decisions were recorded and not carried out.
DoubtCanBeDisposedOf ==
    [][Disposable => Disposable' \/ (disk # stable /\ disk' = stable)]_vars

\* The effect of the tool begins.
Executes(s) == did[s] # did'[s] /\ did'[s].end = "maybe"

\* A run that reuses the states of an earlier one never executes a tool again
\* whose effect happened, or may have, in the execution it resumes, unless an
\* operator decided to retry it.
ResumeNeverRepeatsAnEffect ==
    [][\A s \in Tools :
        /\ resumed # NothingResumed
        /\ did[s].end \in {"maybe", "yes", "failed", "abandoned"}
        /\ did[s].run >= first
        /\ ~\E d \in ledger : d.subtask = s /\ d.action = "retry" /\ d.run >= did[s].run
        => ~Executes(s)]_vars

\* tool_disposition.py: "it will not be executed again".  A run that was asked to
\* resume and found the same plan does not execute what an operator abandoned.
AbandonedIsNotExecuted ==
    [][\A s \in Tools : asked /\ did[s].end = "abandoned" => ~Executes(s)]_vars
=============================================================================
