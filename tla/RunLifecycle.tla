---------------------------- MODULE RunLifecycle ----------------------------
(***************************************************************************)
(* One mutating run seen through its durable record: what the run          *)
(* coordinator (kriya/control/run_coordinator.py) writes while the run     *)
(* holds the workspace lock, and what `kriya runs recover` and             *)
(* `kriya runs tool-abandon` may write once the lock is free.              *)
(*                                                                         *)
(* The coordinator reads, changes and saves one record under one lock, so  *)
(* a save is one step.  A save that fails leaves the record as it was and  *)
(* is a stutter here, except where the run ends all the same (ExitUnsaved).*)
(* Any caller may ask for any operation in any order: the record itself    *)
(* must refuse what is not allowed.                                        *)
(***************************************************************************)
EXTENDS RunRecord

VARIABLES
    record,   \* the run's RunRecord
    live      \* the run's process holds the lock and its lease is active

vars == <<record, live>>

----------------------------------------------------------------------------
(* Writes of the running process *)

\* mark_run_stage: best effort; an illegal or repeated marker is skipped.
MarkStage(s) ==
    /\ live
    /\ s # record.lifecycle
    /\ CanMark(record, s)
    /\ record' = Mark(record, s)
    /\ UNCHANGED live

\* A direct tool run records STARTED with its RUNNING marker, before the effect.
StartTool ==
    /\ live
    /\ CanMark(record, "RUNNING")
    /\ record' = [Mark(record, "RUNNING") EXCEPT !.tool = "started"]
    /\ UNCHANGED live

\* ... and the tool's outcome with the terminal transition.
FinishTool ==
    /\ live
    /\ record.tool = "started"
    /\ \/ /\ CanSucceed(record)
          /\ record' = [Succeed(record, "DIRECT_TOOL_EXECUTION")
                          EXCEPT !.tool = "completed"]
       \/ /\ CanFail(record)
          /\ record' = [Fail(record, "DIRECT_TOOL_EXECUTION")
                          EXCEPT !.tool = "failed"]
    /\ UNCHANGED live

BeginRunCommit(tx) ==
    /\ live
    /\ CanBeginCommit(record, tx)
    /\ record' = BeginCommit(record, tx)
    /\ UNCHANGED live

SettleRunCommit(result) ==
    /\ live
    /\ CanSettleCommit(record)
    /\ record' = SettleCommit(record, result)
    /\ UNCHANGED live

\* _fail_active_run
FailActiveRun(uncertainError) ==
    /\ live
    /\ ~Terminal(record)
    /\ record' = FailureOutcome(record, uncertainError)
    /\ UNCHANGED live

\* _complete_successful_run: SUCCESS only when every work unit is VERIFIED and
\* the record proves it; any contradiction fails closed.
CompleteRun(unitsVerified) ==
    /\ live
    /\ ~Terminal(record)
    /\ record' = IF unitsVerified /\ CanSucceed(record)
                 THEN Succeed(record, "none")
                 ELSE FailureOutcome(record, FALSE)
    /\ UNCHANGED live

\* Faulty variant: a run that did not succeed is failed once more on its way out.
ExitRunAgain ==
    /\ live
    /\ record' = IF record.lifecycle = "SUCCESS" THEN record
                  ELSE FailureOutcome(record, FALSE)
    /\ live' = FALSE

\* begin_mutating_run's exit: a run that did not end itself is failed, then
\* the lock is released.
ExitRun ==
    /\ live
    /\ record' = IF Terminal(record) THEN record ELSE FailureOutcome(record, FALSE)
    /\ live' = FALSE

\* The process dies, or its last save fails: the lock is released and the
\* record says whatever it last said.
ExitUnsaved ==
    /\ live
    /\ live' = FALSE
    /\ UNCHANGED record

----------------------------------------------------------------------------
(* Writes of an operator's command, which takes the lock first *)

\* `kriya runs recover` leaves a record alone while its tool is unresolved.
RecoverRun ==
    /\ ~live
    /\ NeedsRecovery(record)
    /\ ~UnresolvedTool(record)
    /\ \E proof \in [OpenCycles(record) -> Proven] :
          record' = Recover(record, proof)
    /\ UNCHANGED live

\* `kriya runs tool-abandon`
AbandonRun ==
    /\ ~live
    /\ CanAbandonTool(record)
    /\ record' = AbandonTool(record)
    /\ UNCHANGED live

----------------------------------------------------------------------------
Init ==
    /\ record = NewRecord
    /\ live = TRUE

Next ==
    \/ \E s \in Stages : MarkStage(s)
    \/ StartTool
    \/ FinishTool
    \/ \E tx \in Tx : BeginRunCommit(tx)
    \/ \E result \in Settled : SettleRunCommit(result)
    \/ \E uncertainError \in BOOLEAN : FailActiveRun(uncertainError)
    \/ \E unitsVerified \in BOOLEAN : CompleteRun(unitsVerified)
    \/ ExitRun
    \/ ExitUnsaved
    \/ RecoverRun
    \/ AbandonRun

Spec == Init /\ [][Next]_vars

----------------------------------------------------------------------------
(* Properties *)

\* The record and the lease always have their types.
TypeOK ==
    /\ record \in Record
    /\ live \in BOOLEAN

\* A commit whose outcome is not known is never out of sight: an unsettled
\* cycle is the last cycle of a COMMIT_ELIGIBLE record, and a cycle settled
\* UNCERTAIN keeps the whole record UNCERTAIN, which the gate of the next run
\* reads (begin_commit, settle_commit, _terminate).
OpenCommitIsVisible ==
    /\ \A i \in Unsettled(record) :
          i = Len(record.commits) /\ record.lifecycle = "COMMIT_ELIGIBLE"
    /\ (OpenCycles(record) \ Unsettled(record) # {})
          => record.lifecycle = "UNCERTAIN"

HasCommitted(r) == \E i \in Cycles(r) : r.commits[i].result = "COMMITTED"

\* A finished record does not lie about the workspace: SUCCESS means that
\* nothing is unsettled and the last cycle, if any, committed; FAILURE and
\* RECOVERED mean that every cycle has a proven result; and a result that
\* says "nothing was committed" is never given to a run that committed, nor
\* COMMITTED to a run that did not (_terminate, recover,
\* summarize_commit_result).
TerminalTellsTheTruth ==
    /\ record.lifecycle = "SUCCESS" =>
          /\ OpenCycles(record) = {}
          /\ record.commits # << >> => LastResult(record.commits) = "COMMITTED"
    /\ record.lifecycle \in {"FAILURE", "RECOVERED"} => OpenCycles(record) = {}
    /\ Terminal(record) =>
          /\ HasCommitted(record) =>
                record.commit_result
                    \in {"COMMITTED", "PARTIALLY_COMMITTED", "UNCERTAIN"}
          /\ record.commit_result \in {"COMMITTED", "PARTIALLY_COMMITTED"} =>
                HasCommitted(record)
    /\ record.lifecycle = "RECOVERED" /\ HasCommitted(record) =>
          record.terminal_status = "NEEDS_REVIEW"

\* Commit history is append-only: no step drops or reorders a cycle, and a
\* proven result (COMMITTED, ROLLED_BACK, NOT_COMMITTED) never changes, not
\* even by recovery.
HistoryKept ==
    /\ Len(record'.commits) \in Len(record.commits) .. Len(record.commits) + 1
    /\ \A i \in Cycles(record) :
          /\ record'.commits[i].tx = record.commits[i].tx
          /\ record.commits[i].result \in Proven
                => record'.commits[i].result = record.commits[i].result

HistoryIsKept == [][HistoryKept]_vars

\* A finished run keeps what it recorded, although several handlers end it one
\* after another: neither its lifecycle nor its terminal fields nor its cycles
\* change again.  The only way out is the explicit recovery of an UNCERTAIN run,
\* and that never becomes SUCCESS (_fail_active_run, begin_mutating_run, recover).
SameEnding ==
    /\ record'.lifecycle = record.lifecycle
    /\ record'.commits = record.commits
    /\ record'.commit_result = record.commit_result
    /\ record'.terminal_status = record.terminal_status

FinishedStaysFinished ==
    [][Terminal(record) =>
         \/ SameEnding
         \/ record.lifecycle = "UNCERTAIN" /\ record'.lifecycle = "RECOVERED"]_vars
=============================================================================
