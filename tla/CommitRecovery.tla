--------------------------- MODULE CommitRecovery ---------------------------
(***************************************************************************)
(* What `kriya runs recover` (kriya/control/recovery.py) does with a       *)
(* transaction whose run ended or died, and the gate the next mutating     *)
(* run has to pass (kriya/control/commit_state.py).                        *)
(*                                                                         *)
(* recover takes the workspace lock, settles the evidence, and then the    *)
(* record from the evidence as it stands; every file is written in a step  *)
(* of its own, any of them can fail, the command can die between any two   *)
(* and be run again.  The before-state the evidence records is snap.       *)
(*                                                                         *)
(* Left out: unreadable or foreign control files, schema-1 evidence, and   *)
(* a staged file that does not hold the candidate's bytes.                 *)
(***************************************************************************)
EXTENDS TerminalCommit, FiniteSets

CONSTANT MaxFaults     \* bound on failed steps and deaths of recover

ASSUME RecoverAssumption == MaxFaults \in Nat

VARIABLES
    at,         \* where recover is, "idle" when it does not run
    partial,    \* it was called with --complete-partial
    todo,       \* operations _roll_forward has still to finish
    goal,       \* the state the evidence is to be settled to
    proven,     \* the cycle result of the record finding, "none" without one
    faults      \* failed steps and deaths so far

recoverVars == <<at, partial, todo, goal, proven, faults>>
allVars == <<commitVars, recoverVars>>

Places == {"idle", "evidence", "check", "apply", "refresh", "settle", "sweep",
           "records", "contract", "unstage", "record"}

----------------------------------------------------------------------------
(* Assessment: what the disk shows *)

\* _classify_v2: the recorded after-state first, then the before-state.
Classified(k) ==
    IF file[k] = "new" THEN "APPLIED"
    ELSE IF file[k] = snap[k] THEN "NOT_APPLIED" ELSE "FOREIGN"

NotApplied == {k \in Ops : Classified(k) = "NOT_APPLIED"}

\* Faulty variant: one applied operation is taken for the whole commit.
OutcomeOfAny ==
    LET classes == {Classified(k) : k \in Ops}
    IN  IF "APPLIED" \in classes THEN "COMMITTED"
        ELSE IF "FOREIGN" \in classes THEN "MANUAL" ELSE "NOT_APPLIED"

\* _outcome
Outcome ==
    LET classes == {Classified(k) : k \in Ops}
    IN  IF "FOREIGN" \in classes THEN "MANUAL"
        ELSE IF classes = {"APPLIED"} THEN "COMMITTED"
        ELSE IF classes = {"NOT_APPLIED"} THEN "NOT_APPLIED"
        ELSE "PARTIAL"

\* Exactly one staged file: the copy the batch kept and no leftover beside it.
OneCopy(k) == k \in staged \ orphans

\* _roll_forward_refusal is None: the record holds the transaction as an open
\* cycle, and every write not applied has its one staged candidate.
CanRollForward ==
    /\ NeedsRecovery(record) /\ OpenCycles(record) # {}
    /\ \A k \in NotApplied \cap Writes : OneCopy(k)

\* _record_finding: the result the evidence as it stands proves for a cycle.
ProvenResult ==
    CASE evidence = "none"          -> "NOT_COMMITTED"
      [] evidence = "committed"     -> "COMMITTED"
      [] evidence = "rolled_back"   -> "ROLLED_BACK"
      [] Verdict = "open" /\ Outcome = "COMMITTED"   -> "COMMITTED"
      [] Verdict = "open" /\ Outcome = "NOT_APPLIED" -> "ROLLED_BACK"
      [] OTHER                      -> "none"

\* The gate of the next mutating run: assess_workspace_commit_state is safe.
GateOpen == ~CommitStateUnknown(record) /\ Verdict # "open"

\* The run is over and nobody holds the lock.
LockFree == seam = "closed" /\ at = "idle"

----------------------------------------------------------------------------
(* Evidence first *)

GoTo(place) == at' = place

\* A step that fails, or a command that dies, counts towards the bound.
Fault == faults < MaxFaults /\ faults' = faults + 1

StartRecovery(completePartial) ==
    /\ LockFree
    /\ NeedsRecovery(record) \/ Verdict = "open" \/ staged \cup orphans # {}
    /\ partial' = completePartial
    /\ proven' = "none"
    /\ GoTo("evidence")
    /\ UNCHANGED <<commitVars, todo, goal, faults>>

\* Faulty variant: what is not settled now is cleaned up with the rest.
ReadEvidenceSweeping ==
    /\ at = "evidence"
    /\ IF Verdict = "open" /\ Outcome \in {"COMMITTED", "NOT_APPLIED"}
       THEN goal' = (IF Outcome = "COMMITTED" THEN "committed" ELSE "rolled_back") /\ GoTo("settle")
       ELSE GoTo("sweep") /\ UNCHANGED goal
    /\ UNCHANGED <<commitVars, partial, todo, proven, faults>>

\* Settled evidence only has its leftover copies removed; open evidence is
\* settled when the disk proves an end, and rolled forward when it is asked for.
ReadEvidence ==
    /\ at = "evidence"
    /\ \/ /\ Verdict = "none"
          /\ GoTo("records") /\ UNCHANGED <<todo, goal>>
       \/ /\ Verdict \in {"committed", "rolled_back"}
          /\ GoTo("sweep") /\ UNCHANGED <<todo, goal>>
       \/ /\ Verdict = "open" /\ Outcome \in {"COMMITTED", "NOT_APPLIED"}
          /\ goal' = IF Outcome = "COMMITTED" THEN "committed" ELSE "rolled_back"
          /\ GoTo("settle") /\ UNCHANGED todo
       \/ /\ Verdict = "open" /\ Outcome = "PARTIAL" /\ partial /\ CanRollForward
          /\ todo' = NotApplied
          /\ GoTo("check") /\ UNCHANGED goal
       \/ /\ Verdict = "open"
          /\ \/ Outcome = "MANUAL"
             \/ Outcome = "PARTIAL" /\ ~(partial /\ CanRollForward)
          /\ GoTo("records") /\ UNCHANGED <<todo, goal>>
    /\ UNCHANGED <<commitVars, partial, proven, faults>>

NextTodo(k) == k \in todo /\ \A j \in todo : k <= j

\* _roll_forward checks each target and its copy again, right before ...
CheckTarget(k) ==
    /\ at = "check"
    /\ NextTodo(k)
    /\ GoTo(IF file[k] = snap[k] THEN "apply" ELSE "records")
    /\ UNCHANGED <<commitVars, partial, todo, goal, proven, faults>>

\* ... it applies the operation.
ApplyTarget(k) ==
    /\ at = "apply"
    /\ NextTodo(k)
    /\ file' = [file EXCEPT ![k] = "new"]
    /\ staged' = staged \ {k}
    /\ todo' = todo \ {k}
    /\ GoTo(IF todo' = {} THEN "refresh" ELSE "check")
    /\ UNCHANGED <<edits, evidence, durable, orphans, locals, pc, outcome, record, seam,
                   result, registryVars, partial, goal, proven, faults>>

\* Only a transaction with every operation applied is settled COMMITTED.
Refresh ==
    /\ at = "refresh"
    /\ IF Outcome = "COMMITTED"
       THEN GoTo("settle") /\ goal' = "committed"
       ELSE GoTo("records") /\ UNCHANGED goal
    /\ UNCHANGED <<commitVars, partial, todo, proven, faults>>

\* settle_recovered_commit_evidence
SettleEvidence ==
    /\ at = "settle"
    /\ evidence' = goal
    /\ durable' \in BOOLEAN
    /\ GoTo("sweep")
    /\ UNCHANGED <<file, edits, staged, orphans, locals, pc, outcome, record, seam, result,
                   registryVars, partial, todo, goal, proven, faults>>

\* _remove_staged: the copies of a settled transaction, each of which may stay.
SweepCopies ==
    /\ at = "sweep"
    /\ \/ staged' = {} /\ orphans' = {} /\ UNCHANGED faults
       \/ staged' \in SUBSET staged /\ UNCHANGED orphans /\ Fault
    /\ GoTo("records")
    /\ UNCHANGED <<file, edits, evidence, durable, locals, pc, outcome, record, seam, result,
                   registryVars, partial, todo, goal, proven>>

----------------------------------------------------------------------------
(* Records second *)

\* Faulty variant: a record is settled whether or not its cycle is proven.
AssessRecordUnproven ==
    /\ at = "records"
    /\ proven' = IF OpenCycles(record) # {} THEN ProvenResult ELSE "none"
    /\ GoTo(IF ~NeedsRecovery(record) THEN "idle"
            ELSE IF OpenCycles(record) # {} /\ contract THEN "contract" ELSE "record")
    /\ UNCHANGED <<commitVars, partial, todo, goal, faults>>

\* The record is settled only when its open cycle, if any, is proven.
AssessRecord ==
    /\ at = "records"
    /\ LET needed == NeedsRecovery(record)
           unproven == OpenCycles(record) # {} /\ ProvenResult = "none"
       IN  /\ proven' = IF needed /\ OpenCycles(record) # {} THEN ProvenResult ELSE "none"
           /\ GoTo(IF ~needed \/ unproven THEN "idle"
                   ELSE IF OpenCycles(record) # {} /\ contract THEN "contract"
                   ELSE "record")
    /\ UNCHANGED <<commitVars, partial, todo, goal, faults>>

\* Faulty variant: the staged registry is removed whatever became of the commit.
CompleteContractDiscarding ==
    /\ at = "contract"
    /\ GoTo(IF registry = "before" THEN "unstage" ELSE "idle")
    /\ UNCHANGED <<commitVars, partial, todo, goal, proven, faults>>

\* Faulty variant: a transition that was already promoted is not recognised.
CompleteContractOnce ==
    /\ at = "contract"
    /\ GoTo(IF registry = "before" THEN "unstage" ELSE "idle")
    /\ registry' = IF proven = "COMMITTED" THEN "after" ELSE registry
    /\ UNCHANGED <<batchVars, record, seam, result, contract, pending, partial, todo, goal,
                   proven, faults>>

\* complete_contract_transition, before the record is closed: a committed
\* cycle's registry is promoted unless it already is, and the staged one goes;
\* whatever does not fit needs review and leaves the record open.
CompleteContract ==
    /\ at = "contract"
    /\ CASE proven = "COMMITTED" /\ registry = "after" ->
              GoTo("unstage") /\ UNCHANGED registry
         [] proven = "COMMITTED" /\ registry = "before" /\ pending ->
              GoTo("unstage") /\ registry' = "after"
         [] proven # "COMMITTED" /\ registry = "before" ->
              GoTo("unstage") /\ UNCHANGED registry
         [] OTHER ->
              GoTo("idle") /\ UNCHANGED registry
    /\ UNCHANGED <<batchVars, record, seam, result, contract, pending, partial, todo, goal,
                   proven, faults>>

UnstageContract ==
    /\ at = "unstage"
    /\ pending' = FALSE
    /\ GoTo("record")
    /\ UNCHANGED <<batchVars, record, seam, result, contract, registry, partial, todo, goal,
                   proven, faults>>

\* RunRecord.recover, saved.
SaveRecovered ==
    /\ at = "record"
    /\ record' = Recover(record, [i \in OpenCycles(record) |-> proven])
    /\ GoTo("idle")
    /\ UNCHANGED <<batchVars, seam, result, registryVars, partial, todo, goal, proven, faults>>

\* A step of recover fails, which it reports; it goes on with what is left.
\* Settling evidence that fails does not keep the record from being settled.
RecoveryStepFails ==
    /\ Fault
    /\ GoTo(CASE at \in {"apply", "refresh", "settle"} -> "records" [] OTHER -> "idle")
    /\ at \in {"apply", "refresh", "settle", "contract", "unstage", "record"}
    /\ UNCHANGED <<commitVars, partial, todo, goal, proven>>

\* recover dies; the next one starts from what it left.
RecoveryDies ==
    /\ at # "idle"
    /\ Fault
    /\ GoTo("idle")
    /\ UNCHANGED <<commitVars, partial, todo, goal, proven>>

----------------------------------------------------------------------------
RecoverInit ==
    /\ CommitInit
    /\ at = "idle"
    /\ partial = FALSE
    /\ todo = {}
    /\ goal = "none"
    /\ proven = "none"
    /\ faults = 0

RunStep == CommitStep /\ UNCHANGED recoverVars

\* What recover does once it runs, unless it fails.
RecoverStep ==
    \/ ReadEvidence
    \/ \E k \in Ops : CheckTarget(k)
    \/ \E k \in Ops : ApplyTarget(k)
    \/ Refresh
    \/ SettleEvidence
    \/ SweepCopies
    \/ AssessRecord
    \/ CompleteContract
    \/ UnstageContract
    \/ SaveRecovered

RecoverNext ==
    \/ RunStep
    \/ \E completePartial \in BOOLEAN : StartRecovery(completePartial)
    \/ RecoverStep
    \/ RecoveryStepFails
    \/ RecoveryDies

RecoverSpec == RecoverInit /\ [][RecoverNext]_allVars

----------------------------------------------------------------------------
(* Properties *)

\* The variables of recover have their types.
RecoverTypeOK ==
    /\ CommitTypeOK
    /\ at \in Places
    /\ partial \in BOOLEAN
    /\ todo \subseteq Ops
    /\ goal \in {"none", "committed", "rolled_back"}
    /\ proven \in Proven \cup {"none"}
    /\ faults \in 0..MaxFaults

\* Run, crash and recovery together still implement the transaction: what
\* recover rolls forward happens while the transaction is open, and it settles
\* the evidence only on a workspace that is all candidate or all original.
RecoveryImplementsAtomicCommit == Atomic!Spec

\* The run raised, having read COMMITTED off the evidence of its batch.
SettledOnInterrupt == outcome = "raised" /\ result = "COMMITTED"

\* The next run never starts on half a commit: when the gate lets it in, the
\* record and the evidence tell the same end, the targets are all candidate or
\* all original (but for other writers), and the contract registry belongs to
\* the same side.  Exempt is only the registry of a commit whose batch was
\* interrupted after its COMMITTED evidence and whose run could settle it as
\* that (see NoSilentStaleRegistry); an interrupted run that could not leaves
\* the registry to recovery.
GateAdmitsOnlySettledWork ==
    LockFree /\ GateOpen =>
        /\ HasCycle("COMMITTED") <=> evidence = "committed"
        /\ HasCycle("ROLLED_BACK") <=> evidence = "rolled_back"
        /\ \A k \in Ops :
              file[k] \in {"other", IF evidence = "committed" THEN "new" ELSE "base"}
        /\ registry = "after" => evidence = "committed"
        /\ evidence = "committed" /\ contract /\ ~SettledOnInterrupt => registry = "after"

Untouchable ==
    edits > 0 \/ lost # {} \/ \E k \in Ops : file[k] = "unmoded"

\* Wherever a run or an earlier recovery died, what it left can be settled by
\* recover: the disk proves an end, or the commit can be rolled forward from
\* the copies that are still there.  Not so only after somebody else's write, a
\* copy that could not be written, or a death between a target's bytes and mode.
EveryCrashIsRecoverable ==
    LockFree /\ Verdict = "open" /\ ~Untouchable =>
        \/ Outcome \in {"COMMITTED", "NOT_APPLIED"}
        \/ Outcome = "PARTIAL" /\ CanRollForward

\* The docstring of recover_workspace: evidence is settled before the records
\* that reference it.
EvidenceBeforeRecord ==
    record.lifecycle = "RECOVERED" /\ record.commits # << >> => Verdict # "open"

\* An operator who keeps running recover --complete-partial, on a machine whose
\* storage fails only so often, opens the gate for the next run.
Fairness ==
    /\ WF_allVars(RecoverStep)
    /\ SF_allVars(StartRecovery(TRUE))

FairRecoverSpec == RecoverSpec /\ Fairness

\* Nothing is left to recover: the gate is open, the record finished, and no
\* temp file lies beside a source file.
Recovered == GateOpen /\ Terminal(record) /\ staged \cup orphans = {}

\* Every death and every interrupt ends in a workspace with nothing left of it,
\* not even the copy an interrupt in _stage_content abandons, unless another
\* program changed a target so that recovery may not touch the workspace.
RecoveryCompletes ==
    LockFree /\ ~Untouchable ~> LockFree /\ (Untouchable \/ Recovered)
=============================================================================
