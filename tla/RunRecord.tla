------------------------------ MODULE RunRecord ------------------------------
(***************************************************************************)
(* The durable run record of kriya/control/run_record.py as a value, and   *)
(* its operations as operators from a record to a record.  An operation    *)
(* that the code refuses with IllegalRunTransitionError has a predicate    *)
(* Can... that says when it is accepted.                                   *)
(*                                                                         *)
(* Abstracted: revision and timestamps (every operation advances them),    *)
(* the evidence fields annotate() sets, and the candidate hash.  A commit  *)
(* cycle keeps its transaction id, its result (None is "open") and whether *)
(* it carries a contract-registry transition.                              *)
(***************************************************************************)
EXTENDS Sequences, Naturals

CONSTANT Tx        \* transaction ids a run may use for its commit cycles

Stages == {"NEW", "RUNNING", "PLANNING", "CANDIDATE", "VERIFYING",
           "COMMIT_ELIGIBLE", "COMMITTED"}
Terminals == {"SUCCESS", "FAILURE", "UNCERTAIN", "RECOVERED"}
Lifecycles == Stages \cup Terminals

CommitSources == {"RUNNING", "PLANNING", "CANDIDATE", "VERIFYING", "COMMITTED"}

\* _STAGE_TRANSITIONS: the forward edges transition() accepts from each stage.
StageEdges(s) ==
    CASE s = "NEW"             -> {"RUNNING"}
      [] s = "RUNNING"         -> {"PLANNING", "CANDIDATE", "SUCCESS"}
      [] s = "PLANNING"        -> {"CANDIDATE", "SUCCESS"}
      [] s = "CANDIDATE"       -> {"VERIFYING", "SUCCESS"}
      [] s = "VERIFYING"       -> {"CANDIDATE", "SUCCESS"}
      [] s = "COMMITTED"       -> {"PLANNING", "CANDIDATE", "SUCCESS"}
      [] OTHER                 -> {}

Proven  == {"COMMITTED", "ROLLED_BACK", "NOT_COMMITTED"}
Settled == Proven \cup {"UNCERTAIN"}
Results == Settled \cup {"open"}

ToolStates == {"none", "started", "completed", "failed", "abandoned"}

Cycle == [tx : Tx, result : Results]

Record ==
    [ lifecycle : Lifecycles,
      commits   : Seq(Cycle),
      commit_result   : Settled \cup {"none", "NO_COMMIT", "PARTIALLY_COMMITTED",
                                      "DIRECT_TOOL_EXECUTION"},
      terminal_status : Terminals \cup {"none", "NEEDS_REVIEW"},
      tool      : ToolStates ]

\* RunRecord.new
NewRecord ==
    [ lifecycle |-> "NEW", commits |-> << >>, commit_result |-> "none",
      terminal_status |-> "none", tool |-> "none" ]

----------------------------------------------------------------------------
(* What a record says of its commits *)

Cycles(r) == DOMAIN r.commits

Terminal(r) == r.lifecycle \in Terminals

Unsettled(r) == {i \in Cycles(r) : r.commits[i].result = "open"}

\* open_commit_cycles: what recovery must prove, unsettled or UNCERTAIN.
OpenCycles(r) == {i \in Cycles(r) : r.commits[i].result \notin Proven}

CommitStateUnknown(r) == r.lifecycle = "UNCERTAIN" \/ OpenCycles(r) # {}

NeedsRecovery(r) == ~Terminal(r) \/ r.lifecycle = "UNCERTAIN"

UnresolvedTool(r) == r.tool = "started"

LastResult(commits) == commits[Len(commits)].result

\* Faulty variant: the last cycle alone decides.
SummaryOfLast(commits) ==
    LET results == {commits[i].result : i \in DOMAIN commits}
    IN  IF commits = << >> THEN "NO_COMMIT"
        ELSE IF ~(results \subseteq Proven) THEN "UNCERTAIN"
        ELSE LastResult(commits)

\* summarize_commit_result: one run-level result derived from the cycles.
Summary(commits) ==
    LET results == {commits[i].result : i \in DOMAIN commits}
    IN  IF commits = << >> THEN "NO_COMMIT"
        ELSE IF ~(results \subseteq Proven) THEN "UNCERTAIN"
        ELSE IF LastResult(commits) = "COMMITTED" THEN "COMMITTED"
        ELSE IF "COMMITTED" \in results THEN "PARTIALLY_COMMITTED"
        ELSE LastResult(commits)

----------------------------------------------------------------------------
(* Stage markers and terminal transitions *)

CanMark(r, s) == ~Terminal(r) /\ s \in StageEdges(r.lifecycle) \ {"SUCCESS"}

Mark(r, s) == [r EXCEPT !.lifecycle = s]

\* SUCCESS needs every cycle settled and the last one COMMITTED, or no cycle.
CanSucceed(r) ==
    /\ ~Terminal(r)
    /\ "SUCCESS" \in StageEdges(r.lifecycle)
    /\ Unsettled(r) = {}
    /\ Summary(r.commits) \in {"COMMITTED", "NO_COMMIT"}

\* explicit is the caller's commit_result ("none" when it gives none).
Succeed(r, explicit) ==
    [r EXCEPT !.lifecycle = "SUCCESS",
              !.terminal_status = "SUCCESS",
              !.commit_result = IF explicit # "none" /\ r.commits = << >>
                                THEN explicit ELSE Summary(r.commits)]

\* An unsettled or uncertain commit can never be downgraded to a failure.
CanFail(r) == ~Terminal(r) /\ ~CommitStateUnknown(r)

Fail(r, explicit) ==
    [r EXCEPT !.lifecycle = "FAILURE",
              !.terminal_status = "FAILURE",
              !.commit_result = IF r.commits # << >> THEN Summary(r.commits)
                                ELSE IF explicit # "none" THEN explicit
                                ELSE "NOT_COMMITTED"]

CanBecomeUncertain(r) == ~Terminal(r)

\* Faulty variant: the UNCERTAIN exit overwrites settled cycles as well.
ClosedAll(commits) ==
    [i \in DOMAIN commits |-> [commits[i] EXCEPT !.result = "UNCERTAIN"]]

\* The commits with every unsettled cycle closed as UNCERTAIN.
Closed(commits) ==
    [i \in DOMAIN commits |->
        IF commits[i].result = "open"
        THEN [commits[i] EXCEPT !.result = "UNCERTAIN"] ELSE commits[i]]

\* Faulty variant: the UNCERTAIN exit leaves unsettled cycles unsettled.
BecomeUncertainLeavingOpen(r) ==
    [r EXCEPT !.lifecycle = "UNCERTAIN",
              !.terminal_status = "UNCERTAIN",
              !.commit_result = "UNCERTAIN"]

\* The UNCERTAIN exit.
BecomeUncertain(r) ==
    [r EXCEPT !.lifecycle = "UNCERTAIN",
              !.terminal_status = "UNCERTAIN",
              !.commit_result = "UNCERTAIN",
              !.commits = Closed(r.commits)]

\* _fail_active_run: UNCERTAIN when the commit state is unknown or the error
\* is an UncertainCommitError, FAILURE otherwise.
FailureOutcome(r, uncertainError) ==
    IF CommitStateUnknown(r) \/ uncertainError
    THEN BecomeUncertain(r)
    ELSE Fail(r, "none")

----------------------------------------------------------------------------
(* Commit cycles *)

CanBeginCommit(r, tx) ==
    /\ Unsettled(r) = {}
    /\ r.lifecycle \in CommitSources
    /\ \A i \in Cycles(r) : r.commits[i].tx # tx

BeginCommit(r, tx) ==
    [r EXCEPT !.lifecycle = "COMMIT_ELIGIBLE",
              !.commits = Append(r.commits, [tx |-> tx, result |-> "open"]),
              !.commit_result = "none"]

CanSettleCommit(r) == r.lifecycle = "COMMIT_ELIGIBLE" /\ Unsettled(r) # {}

WithLastResult(r, result) ==
    [r EXCEPT !.commits[Len(r.commits)].result = result]

\* Faulty variant: the cycle's result is taken for the next lifecycle state.
SettleCommitByName(r, result) ==
    [WithLastResult(r, result) EXCEPT !.lifecycle = result, !.commit_result = result]

SettleCommit(r, result) ==
    IF result = "UNCERTAIN"
    THEN BecomeUncertain(WithLastResult(r, result))
    ELSE [WithLastResult(r, result) EXCEPT
            !.lifecycle = IF result = "COMMITTED" THEN "COMMITTED" ELSE "CANDIDATE",
            !.commit_result = result]

----------------------------------------------------------------------------
(* Explicit recovery and the disposition of an unresolved tool execution *)

\* proof gives each open cycle the result the caller proved, and nothing else.
CanRecover(r, proof) ==
    /\ NeedsRecovery(r)
    /\ DOMAIN proof = OpenCycles(r)
    /\ \A i \in DOMAIN proof : proof[i] \in Proven

ProvedBy(commits, proof) ==
    [i \in DOMAIN commits |->
        IF i \in DOMAIN proof
        THEN [commits[i] EXCEPT !.result = proof[i]] ELSE commits[i]]

Recover(r, proof) ==
    LET commits == ProvedBy(r.commits, proof)
        review == \/ \E i \in DOMAIN commits : commits[i].result = "COMMITTED"
                  \/ r.lifecycle = "UNCERTAIN" /\ OpenCycles(r) = {}
                  \/ r.tool = "abandoned"
    IN  [r EXCEPT !.lifecycle = "RECOVERED",
                  !.commits = commits,
                  !.commit_result = Summary(commits),
                  !.terminal_status = IF review THEN "NEEDS_REVIEW" ELSE "FAILURE"]

CanAbandonTool(r) == r.tool = "started" /\ r.lifecycle # "SUCCESS"

AbandonTool(r) == [r EXCEPT !.tool = "abandoned"]
=============================================================================
