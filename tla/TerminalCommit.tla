--------------------------- MODULE TerminalCommit ---------------------------
(***************************************************************************)
(* The commit of one verified candidate by a mutating run, from its        *)
(* durable intent to the end of the run: commit_terminal_candidate         *)
(* (kriya/workflow/terminal_commit.py) around the batch of CommitBatch,    *)
(* with the run's record and the contract registry, each in a file of its  *)
(* own.  A step writes one file; the process can die between any two.      *)
(*                                                                         *)
(* Left out: the refusals before the intent, which write nothing, and      *)
(* other commit cycles of the same run (RunLifecycle has those).           *)
(***************************************************************************)
EXTENDS CommitBatch, RunRecord

ASSUME CommitAssumption == Tx # {}

VARIABLES
    record,     \* the run's record
    seam,       \* where commit_terminal_candidate and its caller are
    result,     \* the cycle result to be settled, "none" while unknown
    contract,   \* the candidate changes a contract: the cycle has a transition
    registry,   \* the live contract registry: before or after the transition
    pending     \* the after-state registry is staged beside the live one

recordVars == <<record>>
registryVars == <<contract, registry, pending>>
batchVars == <<disk, locals, pc, outcome>>
commitVars == <<batchVars, record, seam, result, registryVars>>

Seams == {"begin", "register", "batch", "verify", "promote", "unstage",
          "settle", "discard", "ended", "closed"}

\* The transaction id of the cycle.
TheTx == CHOOSE tx \in Tx : TRUE

\* Faulty variant: the evidence's own word is taken for a cycle result.
SettledStateByName(readable) ==
    CASE evidence = "committed"   -> "COMMITTED"
      [] evidence = "rolled_back" -> "ROLLED_BACK"
      [] OTHER                    -> evidence

\* Faulty variant: a commit that has not ended counts as not committed.
SettledStateOptimistic(readable) ==
    CASE evidence = "committed"   -> "COMMITTED"
      [] evidence = "rolled_back" -> "ROLLED_BACK"
      [] OTHER                    -> "NOT_COMMITTED"

\* _settled_state: the cycle result the evidence proves; unreadable evidence
\* proves nothing.
SettledState(readable) ==
    IF ~readable THEN "UNCERTAIN"
    ELSE CASE evidence = "committed"   -> "COMMITTED"
           [] evidence = "rolled_back" -> "ROLLED_BACK"
           [] evidence = "none"        -> "NOT_COMMITTED"
           [] OTHER                    -> "UNCERTAIN"

SettleAs(value) == seam' = "settle" /\ result' = value

----------------------------------------------------------------------------
\* begin_run_commit: no commit starts without durable intent in the record.
BeginIntent ==
    /\ seam = "begin"
    /\ \/ /\ record' = BeginCommit(record, TheTx)
          /\ seam' = IF contract THEN "register" ELSE "batch"
       \/ seam' = "ended" /\ UNCHANGED record
    /\ UNCHANGED <<batchVars, result, registryVars>>

\* Faulty variant: the after-state is saved over the live registry.
StageRegistryLive ==
    /\ seam = "register"
    /\ registry' = "after"
    /\ seam' = "batch"
    /\ UNCHANGED <<batchVars, record, result, contract, pending>>

\* stage_pending_contract_registry
StageRegistry ==
    /\ seam = "register"
    /\ \/ pending' = TRUE /\ seam' = "batch" /\ UNCHANGED result
       \/ SettleAs("NOT_COMMITTED") /\ UNCHANGED pending
    /\ UNCHANGED <<batchVars, record, contract, registry>>

RunBatch ==
    /\ seam = "batch"
    /\ BatchStep
    /\ UNCHANGED <<record, seam, result, registryVars>>

\* The call is over: a settled failure is looked up in the evidence, and so is
\* an exception nobody expected, before it is raised again.
AfterBatch(readable) ==
    /\ seam = "batch"
    /\ pc = "done"
    /\ CASE outcome = "committed" -> seam' = "verify" /\ UNCHANGED result
         [] outcome = "uncertain" -> SettleAs("UNCERTAIN")
         [] OTHER                 -> SettleAs(SettledState(readable))
    /\ UNCHANGED <<batchVars, record, registryVars>>

\* committed_digest_mismatch: the targets are read back.
VerifyDigest ==
    /\ seam = "verify"
    /\ IF \E k \in Ops : file[k] # "new" THEN SettleAs("UNCERTAIN")
       ELSE IF contract THEN seam' = "promote" /\ UNCHANGED result
       ELSE SettleAs("COMMITTED")
    /\ UNCHANGED <<batchVars, record, registryVars>>

\* Faulty variant: a failed promotion is logged and the commit goes on.
PromoteOrGoOn ==
    /\ seam = "promote"
    /\ registry' \in {registry, "after"}
    /\ seam' = "unstage"
    /\ UNCHANGED <<batchVars, record, result, contract, pending>>

\* promote_pending_contract_registry writes the live registry ...
Promote ==
    /\ seam = "promote"
    /\ \/ registry' = "after" /\ seam' = "unstage" /\ UNCHANGED result
       \/ SettleAs("UNCERTAIN") /\ UNCHANGED registry
    /\ UNCHANGED <<batchVars, record, contract, pending>>

\* ... and removes the staged one; either can fail.
Unstage ==
    /\ seam = "unstage"
    /\ \/ pending' = FALSE /\ SettleAs("COMMITTED")
       \/ SettleAs("UNCERTAIN") /\ UNCHANGED pending
    /\ UNCHANGED <<batchVars, record, contract, registry>>

\* settle_run_commit, whose failure is reported and changes nothing else.
Settle ==
    /\ seam = "settle"
    /\ record' \in {record, SettleCommit(record, result)}
    /\ seam' = IF contract /\ result \in {"ROLLED_BACK", "NOT_COMMITTED"}
               THEN "discard" ELSE "ended"
    /\ UNCHANGED <<batchVars, result, registryVars>>

\* Nothing was committed, so the staged registry is removed (or that fails).
DiscardPending ==
    /\ seam = "discard"
    /\ pending' \in {pending, FALSE}
    /\ seam' = "ended"
    /\ UNCHANGED <<batchVars, record, result, contract, registry>>

\* The run ends: SUCCESS if it claims so and its record proves it, and
\* otherwise what _fail_active_run says; then the lock is released.
EndRun(claimsSuccess, uncertainError) ==
    /\ seam = "ended"
    /\ claimsSuccess => outcome # "raised"
    /\ record' = IF Terminal(record) THEN record
                 ELSE IF claimsSuccess /\ CanSucceed(record) THEN Succeed(record, "none")
                 ELSE FailureOutcome(record, uncertainError)
    /\ seam' = "closed"
    /\ UNCHANGED <<batchVars, result, registryVars>>

\* An exception or an interrupt ends the run where it is, between two calls:
\* the record is failed from what it says.
AbortRun ==
    /\ seam \notin {"ended", "closed"}
    /\ seam = "batch" => pc = "done"
    /\ seam' = "ended"
    /\ pc' = "done" /\ outcome' = "raised"
    /\ UNCHANGED <<disk, locals, record, result, registryVars>>

\* The process dies, or its last save fails.
Die ==
    /\ seam # "closed"
    /\ seam' = "closed"
    /\ pc' = IF pc = "done" THEN pc ELSE "dead"
    /\ outcome' = IF pc = "done" THEN outcome ELSE "none"
    /\ UNCHANGED <<disk, locals, record, result, registryVars>>

EditTarget(k) ==
    /\ Edit(k)
    /\ UNCHANGED <<record, seam, result, registryVars>>

----------------------------------------------------------------------------
CommitInit ==
    /\ Init
    /\ record = [NewRecord EXCEPT !.lifecycle = "VERIFYING"]
    /\ seam = "begin"
    /\ result = "none"
    /\ contract \in BOOLEAN
    /\ registry = "before"
    /\ pending = FALSE

CommitStep ==
    \/ BeginIntent
    \/ StageRegistry
    \/ RunBatch
    \/ \E readable \in BOOLEAN : AfterBatch(readable)
    \/ VerifyDigest
    \/ Promote
    \/ Unstage
    \/ Settle
    \/ DiscardPending
    \/ \E claimsSuccess, uncertainError \in BOOLEAN : EndRun(claimsSuccess, uncertainError)
    \/ AbortRun
    \/ Die
    \/ \E k \in Ops : EditTarget(k)

CommitSpec == CommitInit /\ [][CommitStep]_commitVars
----------------------------------------------------------------------------
(* Properties *)

\* The new variables have their types; the record has at most one cycle.
CommitTypeOK ==
    /\ TypeOK
    /\ record \in Record /\ Len(record.commits) <= 1
    /\ seam \in Seams
    /\ result \in Settled \cup {"none"}
    /\ contract \in BOOLEAN /\ pending \in BOOLEAN
    /\ registry \in {"before", "after"}

HasCycle(value) == \E i \in Cycles(record) : record.commits[i].result = value

\* Two files, one story: a cycle that the record calls settled has evidence
\* with the same ending, and a transaction whose evidence is open is an open
\* cycle of the record, so that the gate of the next run and recovery find it
\* from either side (commit_terminal_candidate, _settled_state).
RecordAgreesWithEvidence ==
    /\ HasCycle("COMMITTED")     => evidence = "committed"
    /\ HasCycle("ROLLED_BACK")   => evidence = "rolled_back"
    /\ HasCycle("NOT_COMMITTED") => evidence = "none"
    /\ Verdict = "open" => OpenCycles(record) # {}

\* A run that ends in SUCCESS after a commit has delivered all of it: every
\* target holds the candidate unless somebody else wrote it since, and the
\* contract registry is the candidate's with nothing left beside it.
SuccessMeansDelivered ==
    record.lifecycle = "SUCCESS" /\ record.commits # << >> =>
        /\ \A k \in Ops : file[k] \in {"new", "other"}
        /\ registry = IF contract THEN "after" ELSE "before"
        /\ ~pending

\* The registry is never ahead of the source: it changes only after COMMITTED
\* evidence, and never for a cycle that is proven not to have committed.
RegistryNeverAhead ==
    registry = "after" => contract /\ evidence = "committed"

\* The comment on a failed promotion in commit_terminal_candidate: never a
\* silent stale registry, the cycle stays open for recovery.
NoSilentStaleRegistry ==
    HasCycle("COMMITTED") /\ contract => registry = "after"
=============================================================================
