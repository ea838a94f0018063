------------------------ MODULE CommitRecovery_proofs ------------------------
(***************************************************************************)
(* Theorems about CommitRecovery: a run's commit, its crashes and any      *)
(* number of recoveries, for every batch and every number of edits and     *)
(* faults, still implement AtomicCommit.                                   *)
(*                                                                         *)
(* The batch's own inductive invariant IInv survives every step around the *)
(* batch; to it RInv adds where the processes can be and what recover has  *)
(* seen before it settles the evidence.                                    *)
(***************************************************************************)
EXTENDS CommitRecovery, TerminalCommit_proofs

\* recover runs only when the run is gone.
RecoverWhere == at # "idle" => seam = "closed"

\* It touches targets and settles evidence only while the transaction is open,
\* and removes copies only once it is not.
RecoverEvidence ==
    /\ at \in {"check", "apply", "refresh", "settle"} => Verdict = "open"
    /\ at = "sweep" => Verdict # "open"

\* The state it is about to settle is the one the workspace is in.
RecoverGoal ==
    at = "settle" =>
        /\ goal \in {"committed", "rolled_back"}
        /\ goal = "committed" => Written(Ops)
        /\ goal = "rolled_back" => Untouched(Ops)

\* Every write it has still to finish has a copy.
RecoverCopies ==
    at \in {"check", "apply"} =>
        \A k \in Writes : file[k] \in {"base", "unmoded"} => k \in staged

RInv ==
    /\ IInv
    /\ todo \subseteq Ops
    /\ BatchWhere /\ RecoverWhere /\ RecoverEvidence /\ RecoverGoal /\ RecoverCopies

----------------------------------------------------------------------------
(* The steps around the batch *)

LEMMA InitRInv == RecoverInit => RInv
<1> SUFFICES ASSUME RecoverInit PROVE RInv
  OBVIOUS
<1>1. IInv
  BY InitInv DEF RecoverInit, CommitInit
<1>2. QED
  BY <1>1 DEF RecoverInit, CommitInit, Init, RInv, BatchWhere, RecoverWhere,
              RecoverEvidence, RecoverGoal, RecoverCopies

\* While recover runs, only somebody else's write can be a step of the run.
LEMMA ClosedRunOnlyEdits ==
    ASSUME seam = "closed", CommitStep
    PROVE  \E k \in Ops : Edit(k)
BY DEF CommitStep, BeginIntent, StageRegistry, RunBatch, AfterBatch, VerifyDigest, Promote,
       Unstage, Settle, DiscardPending, EndRun, AbortRun, Die, EditTarget

LEMMA EditKeepsGoal ==
    ASSUME NEW k \in Ops, Edit(k), TypeOK, RecoverGoal, RecoverCopies, UNCHANGED <<at, goal>>
    PROVE  RecoverGoal' /\ RecoverCopies'
BY DEF Edit, TypeOK, RecoverGoal, RecoverCopies, Written, Untouched, Ops, Writes

LEMMA RunStepInv ==
    ASSUME RInv, RunStep
    PROVE  RInv'
<1>1. /\ IInv /\ BatchWhere /\ CommitStep /\ UNCHANGED recoverVars
  BY DEF RInv, RunStep
<1>2. IInv'
  BY <1>1, CommitStepCases, AbortInv, NextInv
<1>3. BatchWhere' /\ (seam = "closed" => seam' = "closed" /\ UNCHANGED <<evidence, snap>>)
  BY <1>1, CommitStepWhere
<1>4. RecoverWhere' /\ RecoverEvidence'
  BY <1>1, <1>3 DEF RInv, RecoverWhere, RecoverEvidence, recoverVars, Verdict
<1>5. RecoverGoal' /\ RecoverCopies'
  <2>1. CASE seam = "closed"
    <3>1. PICK k \in Ops : Edit(k)
      BY <1>1, <2>1, ClosedRunOnlyEdits
    <3>2. TypeOK /\ RecoverGoal /\ RecoverCopies /\ UNCHANGED <<at, goal>>
      BY <1>1 DEF RInv, IInv, recoverVars
    <3>3. QED
      BY <3>1, <3>2, EditKeepsGoal
  <2>2. CASE seam # "closed"
    BY <1>1, <2>2 DEF RInv, RecoverWhere, RecoverGoal, RecoverCopies, recoverVars
  <2>3. QED
    BY <2>1, <2>2
<1>6. todo' \subseteq Ops
  BY <1>1 DEF RInv, recoverVars
<1>7. QED
  BY <1>2, <1>3, <1>4, <1>5, <1>6 DEF RInv

----------------------------------------------------------------------------
(* The steps of recover *)

\* What the assessment proves of the targets.
LEMMA OutcomeProves ==
    ASSUME IInv
    PROVE  /\ Outcome = "COMMITTED" => Written(Ops)
           /\ Outcome = "NOT_APPLIED" => Untouched(Ops)
<1> DEFINE classes == {Classified(k) : k \in Ops}
<1>1. ASSUME NEW k \in Ops
      PROVE  /\ Classified(k) = "APPLIED" => file[k] = "new"
             /\ Classified(k) = "NOT_APPLIED" => file[k] \in {"base", "other"}
  BY DEF Classified, IInv, Always
<1>2. ASSUME Outcome = "COMMITTED" PROVE Written(Ops)
  <2>1. classes = {"APPLIED"}
    BY <1>2 DEF Outcome
  <2>2. \A k \in Ops : Classified(k) = "APPLIED"
    BY <2>1
  <2>3. QED
    BY <1>1, <2>2 DEF Written
<1>3. ASSUME Outcome = "NOT_APPLIED" PROVE Untouched(Ops)
  <2>1. classes = {"NOT_APPLIED"}
    BY <1>3 DEF Outcome
  <2>2. \A k \in Ops : Classified(k) = "NOT_APPLIED"
    BY <2>1
  <2>3. QED
    BY <1>1, <2>2 DEF Untouched
<1>4. QED
  BY <1>2, <1>3

\* A commit that may be rolled forward has a copy of every write it lacks.
LEMMA PartialHasCopies ==
    ASSUME IInv, Outcome = "PARTIAL", CanRollForward,
           NEW k \in Writes, file[k] \in {"base", "unmoded"}
    PROVE  k \in staged
<1>1. k \in Ops
  BY DEF Writes
<1>2. "FOREIGN" \notin {Classified(j) : j \in Ops}
  BY DEF Outcome
<1>3. Classified(k) # "FOREIGN" /\ file[k] # "new"
  BY <1>1, <1>2
<1>4. Classified(k) = "NOT_APPLIED"
  BY <1>3 DEF Classified
<1>5. QED
  BY <1>1, <1>4 DEF CanRollForward, NotApplied, OneCopy

\* A step of recover that leaves the batch's variables and the run alone only
\* has to justify where it goes.
LEMMA RecoverIdle ==
    ASSUME RInv, UNCHANGED batchVars, seam' = seam, seam = "closed", todo' \subseteq Ops,
           at' \in {"check", "apply", "refresh", "settle"} => Verdict = "open",
           at' = "sweep" => Verdict # "open",
           at' = "settle" => \/ goal' = "committed" /\ Outcome = "COMMITTED"
                             \/ goal' = "rolled_back" /\ Outcome = "NOT_APPLIED",
           at' \in {"check", "apply"} =>
               at \in {"check", "apply"} \/ (Outcome = "PARTIAL" /\ CanRollForward)
    PROVE  RInv'
<1>1. IInv /\ IInv'
  BY BatchIdle DEF RInv
<1>2. BatchWhere' /\ RecoverWhere' /\ RecoverEvidence'
  BY DEF RInv, BatchWhere, RecoverWhere, RecoverEvidence, Verdict, batchVars, disk
<1>3. UNCHANGED file
  BY DEF batchVars, disk
<1>4. RecoverGoal'
  BY <1>1, <1>3, OutcomeProves DEF RecoverGoal, Written, Untouched
<1>5. RecoverCopies'
  <2>1. UNCHANGED <<file, staged>>
    BY DEF batchVars, disk
  <2>2. CASE at \in {"check", "apply"}
    BY <2>1, <2>2 DEF RInv, RecoverCopies
  <2>3. CASE Outcome = "PARTIAL" /\ CanRollForward
    BY <1>1, <2>1, <2>3, PartialHasCopies DEF RecoverCopies
  <2>4. QED
    BY <2>2, <2>3 DEF RecoverCopies
<1>6. QED
  BY <1>1, <1>2, <1>4, <1>5 DEF RInv

LEMMA ReadEvidenceInv ==
    ASSUME RInv, ReadEvidence
    PROVE  RInv'
<1>1. /\ UNCHANGED <<commitVars, partial, proven, faults>>
      /\ at = "evidence"
  BY DEF ReadEvidence
<1>2. UNCHANGED batchVars /\ seam' = seam /\ seam = "closed"
  BY <1>1 DEF commitVars, RInv, RecoverWhere
<1>3. todo' \subseteq Ops
  BY DEF ReadEvidence, RInv, NotApplied
<1>4. /\ at' \in {"check", "apply", "refresh", "settle"} => Verdict = "open"
      /\ at' = "sweep" => Verdict # "open"
      /\ at' = "settle" => \/ goal' = "committed" /\ Outcome = "COMMITTED"
                           \/ goal' = "rolled_back" /\ Outcome = "NOT_APPLIED"
      /\ at' \in {"check", "apply"} => Outcome = "PARTIAL" /\ CanRollForward
  BY DEF ReadEvidence, GoTo
<1>5. QED
  BY <1>2, <1>3, <1>4, RecoverIdle

\* An operation is rolled forward while the transaction is open.
LEMMA ApplyInv ==
    ASSUME RInv, NEW k \in Ops, ApplyTarget(k)
    PROVE  RInv' /\ Verdict = "open" /\ Verdict' = "open" /\ UNCHANGED edits
<1>1. /\ at = "apply" /\ at' \in {"refresh", "check"}
      /\ file' = [file EXCEPT ![k] = "new"]
      /\ staged' = staged \ {k}
      /\ todo' \subseteq todo
      /\ UNCHANGED <<edits, evidence, durable, orphans, locals, pc, outcome, seam>>
  BY DEF ApplyTarget, GoTo
<1>2. Verdict = "open" /\ seam = "closed" /\ pc \in {"preflight", "done", "dead"}
  BY <1>1 DEF RInv, RecoverEvidence, RecoverWhere, BatchWhere
<1>3. IInv'
  BY <1>1, <1>2, SMTT(30)
     DEF RInv, RecoverCopies, IInv, TypeOK, Values, PCs, Outcomes, PartialCommitCanBeCompleted, Verdict, Always,
         AtStart, AtStage, AtApply, AtCommit, AtRestage, AtRollBack, AtSettle, AtDiscard,
         AtDone, Untouched, Written, Ops, Writes, locals
<1>4. BatchWhere' /\ RecoverWhere' /\ RecoverEvidence' /\ RecoverGoal' /\ todo' \subseteq Ops
  BY <1>1, <1>2 DEF RInv, BatchWhere, RecoverWhere, RecoverEvidence, RecoverGoal, Verdict
<1>5. RecoverCopies'
  BY <1>1 DEF RInv, IInv, TypeOK, RecoverCopies, Writes
<1>6. QED
  BY <1>1, <1>2, <1>3, <1>4, <1>5 DEF RInv, Verdict

\* The evidence is settled as the workspace is.
LEMMA SettleInv ==
    ASSUME RInv, SettleEvidence
    PROVE  /\ RInv'
           /\ Verdict = "open" /\ UNCHANGED <<file, edits>>
           /\ \/ Verdict' = "committed" /\ Written(Ops)
              \/ Verdict' = "rolled_back" /\ Untouched(Ops)
<1>1. /\ at = "settle" /\ at' = "sweep"
      /\ evidence' = goal /\ durable' \in BOOLEAN
      /\ UNCHANGED <<file, edits, staged, orphans, locals, pc, outcome, seam, todo>>
  BY DEF SettleEvidence, GoTo
<1>2. Verdict = "open" /\ seam = "closed" /\ pc \in {"preflight", "done", "dead"}
  BY <1>1 DEF RInv, RecoverEvidence, RecoverWhere, BatchWhere
<1>3. \/ goal = "committed" /\ Written(Ops)
      \/ goal = "rolled_back" /\ Untouched(Ops)
  BY <1>1 DEF RInv, RecoverGoal
<1>4. IInv'
  <2>1. pc \in {"done", "dead"}
    BY <1>2 DEF RInv, IInv, AtStart, Verdict
  <2>2. CASE goal = "committed" /\ Written(Ops)
    BY <1>1, <1>2, <2>1, <2>2, SMTT(30)
       DEF RInv, IInv, TypeOK, PCs, Outcomes, PartialCommitCanBeCompleted, Verdict, Always,
           AtStart, AtStage, AtApply, AtCommit, AtRestage, AtRollBack, AtSettle, AtDiscard,
           AtDone, Untouched, Written, locals
  <2>3. CASE goal = "rolled_back" /\ Untouched(Ops)
    BY <1>1, <1>2, <2>1, <2>3, SMTT(30)
       DEF RInv, IInv, TypeOK, PCs, Outcomes, PartialCommitCanBeCompleted, Verdict, Always,
           AtStart, AtStage, AtApply, AtCommit, AtRestage, AtRollBack, AtSettle, AtDiscard,
           AtDone, Untouched, Written, locals
  <2>4. QED
    BY <1>3, <2>2, <2>3
<1>5. BatchWhere' /\ RecoverWhere' /\ RecoverEvidence' /\ RecoverGoal' /\ RecoverCopies' /\ todo' \subseteq Ops
  BY <1>1, <1>2, <1>3 DEF RInv, BatchWhere, RecoverWhere, RecoverEvidence, RecoverGoal, RecoverCopies, Verdict
<1>6. QED
  BY <1>1, <1>2, <1>3, <1>4, <1>5 DEF RInv, Verdict

\* Copies go only once the evidence is settled.
LEMMA SweepInv ==
    ASSUME RInv, SweepCopies
    PROVE  RInv'
<1>1. /\ at = "sweep" /\ at' = "records"
      /\ staged' \subseteq staged /\ orphans' \subseteq orphans
      /\ UNCHANGED <<file, edits, evidence, durable, locals, pc, outcome, seam, todo>>
  BY DEF SweepCopies, GoTo
<1>2. Verdict # "open" /\ seam = "closed" /\ pc \in {"preflight", "done", "dead"}
  BY <1>1 DEF RInv, RecoverEvidence, RecoverWhere, BatchWhere
<1>3. IInv'
  BY <1>1, <1>2, SMTT(30)
     DEF RInv, IInv, TypeOK, PCs, Outcomes, PartialCommitCanBeCompleted, Verdict, Always,
         AtStart, AtStage, AtApply, AtCommit, AtRestage, AtRollBack, AtSettle, AtDiscard,
         AtDone, Untouched, Written, locals
<1>4. BatchWhere' /\ RecoverWhere' /\ RecoverEvidence' /\ RecoverGoal' /\ RecoverCopies' /\ todo' \subseteq Ops
  BY <1>1, <1>2 DEF RInv, BatchWhere, RecoverWhere, RecoverEvidence, RecoverGoal, RecoverCopies, Verdict
<1>5. QED
  BY <1>3, <1>4 DEF RInv

\* The other steps of recover only read, or write the record and the registry.
LEMMA RecoverOtherInv ==
    ASSUME RInv,
           \/ \E completePartial \in BOOLEAN : StartRecovery(completePartial)
           \/ \E k \in Ops : CheckTarget(k)
           \/ Refresh
           \/ AssessRecord
           \/ CompleteContract
           \/ UnstageContract
           \/ SaveRecovered
           \/ RecoveryStepFails
           \/ RecoveryDies
    PROVE  RInv' /\ UNCHANGED batchVars
<1>1. ASSUME NEW completePartial \in BOOLEAN, StartRecovery(completePartial)
      PROVE  RInv' /\ UNCHANGED batchVars
  <2>1. UNCHANGED batchVars /\ seam' = seam /\ seam = "closed" /\ at' = "evidence"
        /\ todo' = todo
    BY <1>1 DEF StartRecovery, LockFree, GoTo, commitVars
  <2>2. QED
    BY <2>1, RecoverIdle DEF RInv
<1>2. ASSUME NEW k \in Ops, CheckTarget(k) PROVE RInv' /\ UNCHANGED batchVars
  <2>1. UNCHANGED batchVars /\ seam' = seam /\ at' \in {"apply", "records"}
        /\ at = "check" /\ todo' = todo
    BY <1>2 DEF CheckTarget, GoTo, commitVars
  <2>2. QED
    BY <2>1, RecoverIdle DEF RInv, RecoverWhere, RecoverEvidence
<1>3. CASE Refresh
  <2>1. /\ UNCHANGED batchVars /\ seam' = seam /\ at = "refresh" /\ todo' = todo
        /\ at' \in {"settle", "records"}
        /\ at' = "settle" => Outcome = "COMMITTED" /\ goal' = "committed"
    BY <1>3 DEF Refresh, GoTo, commitVars
  <2>2. QED
    BY <2>1, RecoverIdle DEF RInv, RecoverWhere, RecoverEvidence
<1>4. CASE AssessRecord
  <2>1. UNCHANGED batchVars /\ seam' = seam /\ at = "records" /\ todo' = todo
        /\ at' \in {"idle", "contract", "record"}
    <3>1. at = "records" /\ UNCHANGED <<commitVars, todo>>
      BY <1>4, Zenon DEF AssessRecord
    <3>2. at' \in {"idle", "contract", "record"}
      BY <1>4, Zenon DEF AssessRecord, GoTo
    <3>3. QED
      BY <3>1, <3>2 DEF commitVars
  <2>2. QED
    BY <2>1, RecoverIdle DEF RInv, RecoverWhere
<1>5. CASE CompleteContract
  <2>1. UNCHANGED batchVars /\ seam' = seam /\ at = "contract" /\ todo' = todo
        /\ at' \in {"idle", "unstage"}
    BY <1>5, Zenon DEF CompleteContract, GoTo
  <2>2. QED
    BY <2>1, RecoverIdle DEF RInv, RecoverWhere
<1>6. CASE UnstageContract \/ SaveRecovered
  <2>1. UNCHANGED batchVars /\ seam' = seam /\ at \in {"unstage", "record"} /\ todo' = todo
        /\ at' \in {"record", "idle"}
    BY <1>6 DEF UnstageContract, SaveRecovered, GoTo
  <2>2. QED
    BY <2>1, RecoverIdle DEF RInv, RecoverWhere
<1>7. CASE RecoveryStepFails \/ RecoveryDies
  <2>1. UNCHANGED batchVars /\ seam' = seam /\ at # "idle" /\ todo' = todo
        /\ at' \in {"records", "idle"}
    BY <1>7 DEF RecoveryStepFails, RecoveryDies, GoTo, commitVars
  <2>2. QED
    BY <2>1, RecoverIdle DEF RInv, RecoverWhere
<1>8. QED
  BY <1>1, <1>2, <1>3, <1>4, <1>5, <1>6, <1>7

LEMMA RecoverNextInv == RInv /\ [RecoverNext]_allVars => RInv'
<1> SUFFICES ASSUME RInv, [RecoverNext]_allVars PROVE RInv'
  OBVIOUS
<1>1. CASE RunStep
  BY <1>1, RunStepInv
<1>2. CASE ReadEvidence
  BY <1>2, ReadEvidenceInv
<1>3. ASSUME NEW k \in Ops, ApplyTarget(k) PROVE RInv'
  BY <1>3, ApplyInv
<1>4. CASE SettleEvidence
  BY <1>4, SettleInv
<1>5. CASE SweepCopies
  BY <1>5, SweepInv
<1>6. CASE UNCHANGED allVars
  <2>1. UNCHANGED <<batchVars, seam, at, goal, todo>>
    BY <1>6 DEF allVars, commitVars, recoverVars
  <2>2. IInv'
    BY <2>1, BatchIdle DEF RInv
  <2>3. QED
    BY <2>1, <2>2 DEF RInv, BatchWhere, RecoverWhere, RecoverEvidence, RecoverGoal,
                      RecoverCopies, Verdict, Written, Untouched, batchVars, disk
<1>7. QED
  BY <1>1, <1>2, <1>3, <1>4, <1>5, <1>6, RecoverOtherInv DEF RecoverNext, RecoverStep

\* The invariant holds in every reachable state.
THEOREM RecoverInvariantHolds == RecoverSpec => []RInv
<1>1. QED
  BY InitRInv, RecoverNextInv, PTL DEF RecoverSpec

----------------------------------------------------------------------------
(* Recovery implements AtomicCommit *)

LEMMA RecoverNextMaps ==
    RInv /\ RInv' /\ [RecoverNext]_allVars => [Atomic!Next]_(Atomic!vars)
<1> SUFFICES ASSUME RInv, RInv', [RecoverNext]_allVars PROVE [Atomic!Next]_(Atomic!vars)
  OBVIOUS
<1>1. IInv /\ IInv'
  BY DEF RInv
<1>2. CASE RunStep
  <2>1. CASE AbortRun
    BY <2>1, Stutters DEF AbortRun, disk, Verdict
  <2>2. QED
    BY <1>1, <1>2, <2>1, CommitStepCases, NextMaps DEF RunStep
<1>3. ASSUME NEW k \in Ops, ApplyTarget(k) PROVE [Atomic!Next]_(Atomic!vars)
  BY <1>1, <1>3, ApplyInv, Works DEF IInv
<1>4. CASE SettleEvidence
  <2>1. /\ Verdict = "open" /\ UNCHANGED <<file, edits>>
        /\ \/ Verdict' = "committed" /\ Written(Ops)
           \/ Verdict' = "rolled_back" /\ Untouched(Ops)
    BY <1>4, SettleInv
  <2>2. QED
    BY <2>1 DEF Written, Untouched, Atomic!Next, Atomic!Commit, Atomic!RollBack
<1>5. CASE SweepCopies
  BY <1>5, Stutters DEF SweepCopies, Verdict
<1>6. CASE UNCHANGED batchVars
  BY <1>6, Stutters DEF batchVars, disk, Verdict
<1>7. CASE ReadEvidence
  BY <1>6, <1>7 DEF ReadEvidence, commitVars
<1>8. CASE UNCHANGED allVars
  BY <1>6, <1>8 DEF allVars, commitVars
<1>9. QED
  BY <1>2, <1>3, <1>4, <1>5, <1>6, <1>7, <1>8, RecoverOtherInv DEF RecoverNext, RecoverStep

\* However often a run dies and however recovery itself is cut short, the
\* targets and the evidence behave like one atomic transaction: recover rolls
\* forward only what is open and settles only an exact workspace.
THEOREM RecoveryAlwaysImplementsAtomicCommit == RecoverSpec => RecoveryImplementsAtomicCommit
<1>1. RecoverInit => Atomic!Init
  BY InitMaps DEF RecoverInit, CommitInit
<1>2. QED
  BY <1>1, RecoverNextInv, RecoverNextMaps, RecoverInvariantHolds, PTL
     DEF RecoverSpec, RecoveryImplementsAtomicCommit, Atomic!Spec

-----------------------------------------------------------------------------
(***************************************************************************)
(* The gate: for every batch and any number of edits, faults and           *)
(* recoveries, it lets the next run in only on settled work, and what a    *)
(* death leaves can be recovered.                                          *)
(*                                                                         *)
(* The record, the evidence and the registry may be settled at different   *)
(* times and by different recoveries.  The argument is that the disk keeps *)
(* proving the same end in between: once a cycle was found committed, the  *)
(* disk never looks rolled back again (IsCommitted), and the other way     *)
(* round (IsRolledBack).                                                   *)
(***************************************************************************)

\* The before-states were read before anything was applied: a target that is
\* still at its base was at its base then, and so was the first one applied.
Grounded ==
    /\ \A k \in Ops : file[k] = "base" => snap[k] = "base"
    /\ \A k \in Ops : file[k] = "new" => applied > 0
    /\ applied > 0 => snap[1] = "base"

\* Without another writer nothing but the batch's own bytes is ever seen.
Quiet == edits = 0 => \A k \in Ops : file[k] # "other" /\ snap[k] # "other"

\* A write that was applied is in place or has its copy when the failure
\* handler starts.
Consumed == pc = "restage" => \A k \in (1..applied) \cap Writes : file[k] \in {"new", "other"} \/ k \in staged

\* A leftover temp file sits beside a target that needs none: nothing was
\* applied, or the target was.
Leftovers ==
    applied > 0 =>
        /\ \A k \in orphans : file[k] \in {"new", "other"}
        /\ pc \in {"restage", "rollback", "chmod"} => orphans = {}

BatchFacts == Grounded /\ Quiet /\ Consumed /\ Leftovers

\* The evidence is open, the run is gone, and the disk proves it committed: the
\* first target left its base for good.
OwesCommit ==
    /\ Verdict = "open" /\ seam = "closed"
    /\ applied > 0 /\ file[1] \in {"new", "other"}
    /\ edits = 0 => \A k \in Ops : file[k] = "new"
    /\ at = "settle" => goal = "committed"

\* ... or rolled back: no target holds its candidate, and none will.
OwesRollBack ==
    /\ Verdict = "open" /\ seam = "closed"
    /\ \A k \in Ops : file[k] # "new"
    /\ at \notin {"check", "apply", "refresh"}
    /\ at = "settle" => goal = "rolled_back"

IsCommitted == evidence = "committed" \/ OwesCommit
IsRolledBack == evidence = "rolled_back" \/ OwesRollBack

Backed(value) ==
    /\ value = "COMMITTED" => IsCommitted
    /\ value = "ROLLED_BACK" => IsRolledBack
    /\ value = "NOT_COMMITTED" => evidence = "none"

\* What the record and the registry say is backed by the evidence, or by what
\* the disk still proves.
Backing ==
    /\ Backed(Word(record))
    /\ Word(record) = "none" => evidence = "none"
    /\ Word(record) \in {"open", "UNCERTAIN"} => NeedsRecovery(record)
    /\ Word(record) = "COMMITTED" /\ contract /\ ~SettledOnInterrupt => registry = "after"
    /\ registry = "after" => contract /\ IsCommitted

\* What recover is about to record is backed as well.
Found ==
    at \in {"contract", "unstage", "record"} =>
        /\ Backed(proven)
        /\ OpenCycles(record) = {} <=> proven = "none"
        /\ at = "contract" => proven # "none" /\ contract
        /\ at # "contract" /\ proven = "COMMITTED" /\ contract => registry = "after"

RecoverTyping ==
    /\ at \in Places
    /\ partial \in BOOLEAN
    /\ goal \in {"none", "committed", "rolled_back"}
    /\ proven \in Proven \cup {"none"}
    /\ faults \in 0..MaxFaults

GInv ==
    /\ RInv
    /\ Typing /\ RecoverTyping
    /\ seam # "closed" => SInv
    /\ BatchFacts /\ (at \in {"check", "apply"} => applied > 0)
    /\ Backing /\ Found

----------------------------------------------------------------------------
(* The batch's own facts *)

LEMMA InitFacts == Init => BatchFacts
BY DEF Init, BatchFacts, Grounded, Quiet, Consumed, Leftovers

\* A step that changes no target and starts no failure handler.
LEMMA FactsIdle ==
    ASSUME BatchFacts, UNCHANGED <<file, edits, snap, applied>>, orphans' \subseteq orphans,
           pc' = "restage" => pc = "restage" /\ staged' = staged,
           pc' \in {"restage", "rollback", "chmod"} => pc \in {"restage", "rollback", "chmod"}
    PROVE  BatchFacts'
BY DEF BatchFacts, Grounded, Quiet, Consumed, Leftovers

\* Until something fails no temp file is left over.
LEMMA NoLeftovers ==
    ASSUME IInv, pc \in {"preflight", "snapshot", "intent", "stage", "check", "replace"}
    PROVE  orphans = {} /\ (pc \notin {"check", "replace"} => applied = 0)
BY DEF IInv, Always, AtStart, AtStage, AtApply

\* A failure in the try block starts the handler with every applied write in
\* place or still staged.
LEMMA HandlerStarts ==
    ASSUME IInv, BatchFacts, pc \in {"stage", "check", "replace"}, pc' = "restage",
           UNCHANGED <<edits, snap, applied>>,
           \/ UNCHANGED <<file, staged, orphans>>
           \/ pc = "stage" /\ UNCHANGED <<file, staged>>
           \/ /\ pc = "replace"
              /\ file' = [file EXCEPT ![cursor] = "new"]
              /\ staged' = staged \ {cursor}
              /\ UNCHANGED orphans
    PROVE  BatchFacts'
<1>1. orphans = {} /\ (pc \notin {"check", "replace"} => applied = 0)
  BY NoLeftovers
<1>2. TypeOK /\ AtApply /\ N \in Nat
  BY BatchAssumption DEF IInv
<1>3. CASE pc = "stage" /\ UNCHANGED <<file, staged>>
  BY <1>1, <1>3 DEF BatchFacts, Grounded, Quiet, Consumed, Leftovers
<1>4. CASE pc \in {"check", "replace"} /\ UNCHANGED <<file, staged, orphans>>
  <2>1. \A k \in (1..applied) \cap Writes : file[k] \in {"new", "other"} \/ k \in staged
    BY <1>2, <1>4 DEF AtApply, Written, Copied, Writes, Ops
  <2>2. QED
    BY <1>1, <1>4, <2>1 DEF BatchFacts, Grounded, Quiet, Consumed, Leftovers
<1>5. CASE /\ pc = "replace"
           /\ file' = [file EXCEPT ![cursor] = "new"]
           /\ staged' = staged \ {cursor}
           /\ UNCHANGED orphans
  <2>1. /\ cursor \in 1..N /\ applied = cursor
        /\ \A k \in 1..(cursor - 1) : file[k] \in {"new", "other"}
        /\ file \in [1..N -> Values]
    BY <1>2, <1>5 DEF AtApply, Written, Ops, TypeOK
  <2>2. /\ file'[cursor] = "new" /\ \A k \in 1..N : k # cursor => file'[k] = file[k]
    BY <1>5, <2>1
  <2>3. \A k \in 1..cursor : k = cursor \/ k \in 1..(cursor - 1)
    BY <1>2, <2>1
  <2>4. Consumed'
    BY <1>2, <2>1, <2>2, <2>3 DEF Consumed, Writes, Ops
  <2>5. Grounded' /\ Quiet'
    BY <1>2, <2>1, <2>2 DEF BatchFacts, Grounded, Quiet, Ops
  <2>6. Leftovers'
    BY <1>1, <1>5 DEF Leftovers
  <2>7. QED
    BY <2>4, <2>5, <2>6 DEF BatchFacts
<1>6. QED
  BY <1>1, <1>3, <1>4, <1>5

LEMMA ApplyingFacts ==
    ASSUME IInv, BatchFacts,
           TakeSnapshots \/ Stage \/ CheckBase \/ Replace \/ StageFails \/ ReplaceFails \/ InterruptTry
    PROVE  BatchFacts'
<1> USE DEF disk, locals, Goto
<1>1. TypeOK /\ AtApply /\ AtStage /\ N \in Nat
  BY BatchAssumption DEF IInv
<1>2. CASE TakeSnapshots
  <2>1. orphans = {} /\ applied = 0 /\ pc = "snapshot"
    BY <1>2, NoLeftovers DEF TakeSnapshots
  <2>2. QED
    BY <1>2, <2>1 DEF TakeSnapshots, BatchFacts, Grounded, Quiet, Consumed, Leftovers
<1>3. CASE Stage
  BY <1>3, FactsIdle DEF Stage
<1>4. CASE CheckBase
  <2>1. /\ orphans = {} /\ pc = "check" /\ cursor \in 1..N /\ applied = cursor - 1
        /\ UNCHANGED <<file, edits, snap, staged, orphans>>
    BY <1>1, <1>4, NoLeftovers DEF CheckBase, AtApply, Ops
  <2>2. CASE file[cursor] = "base"
    <3>1. applied' = cursor /\ pc' = "replace"
      BY <1>4, <2>2 DEF CheckBase
    <3>2. snap[1] = "base"
      <4>1. CASE cursor = 1
        BY <2>1, <2>2, <4>1 DEF BatchFacts, Grounded, Ops
      <4>2. CASE cursor # 1
        BY <1>1, <2>1, <4>2 DEF BatchFacts, Grounded
      <4>3. QED
        BY <4>1, <4>2
    <3>3. QED
      BY <1>1, <2>1, <3>1, <3>2 DEF BatchFacts, Grounded, Quiet, Consumed, Leftovers, Ops
  <2>3. CASE file[cursor] # "base"
    <3>1. applied' = applied /\ pc' = "restage"
      BY <1>4, <2>3 DEF CheckBase
    <3>2. QED
      BY <2>1, <3>1, HandlerStarts
  <2>4. QED
    BY <2>2, <2>3
<1>5. CASE Replace
  <2>1. /\ orphans = {} /\ pc = "replace" /\ cursor \in 1..N /\ applied = cursor
        /\ file' = [file EXCEPT ![cursor] = "new"] /\ file \in [1..N -> Values]
        /\ pc' \in {"commit", "check"}
        /\ UNCHANGED <<edits, snap, applied, orphans>>
    BY <1>1, <1>5, NoLeftovers DEF Replace, AtApply, Ops, TypeOK
  <2>2. QED
    BY <1>1, <2>1 DEF BatchFacts, Grounded, Quiet, Consumed, Leftovers, Ops
<1>6. CASE StageFails \/ ReplaceFails
  BY <1>6, HandlerStarts DEF StageFails, ReplaceFails
<1>7. CASE InterruptTry
  BY <1>7, HandlerStarts DEF InterruptTry
<1>8. QED
  BY <1>2, <1>3, <1>4, <1>5, <1>6, <1>7

LEMMA RollingBackFacts ==
    ASSUME IInv, BatchFacts,
           Restage \/ RollBackTarget \/ RollBackMode \/ RollBackFails \/ RollBackEnds \/ Escape
    PROVE  BatchFacts'
<1> USE DEF disk, locals, Goto
<1>1. TypeOK /\ Always /\ AtRollBack /\ AtRestage /\ N \in Nat
  BY BatchAssumption DEF IInv
<1>2. CASE Restage \/ RollBackFails \/ RollBackEnds
  BY <1>2, FactsIdle DEF Restage, RollBackFails, RollBackEnds
<1>3. CASE RollBackTarget \/ RollBackMode
  <2> DEFINE v == file'[cursor]
  <2>1. /\ pc \in {"rollback", "chmod"} /\ pc' \in {"rollback", "chmod"} /\ cursor \in 1..N
        /\ cursor <= applied /\ file \in [1..N -> Values]
        /\ UNCHANGED <<edits, snap, applied, orphans>>
    BY <1>1, <1>3 DEF RollBackTarget, RollBackMode, AtRollBack, TypeOK, Ops
  <2>2. /\ \A k \in 1..N : k # cursor => file'[k] = file[k]
        /\ v \in {"unmoded", snap[cursor], file[cursor]}
    BY <1>3, <2>1 DEF RollBackTarget, RollBackMode
  <2>3. snap[cursor] \in {"base", "other"} /\ applied > 0
    BY <1>1, <2>1 DEF Always, Ops, TypeOK
  <2>4. orphans = {}
    BY <2>1, <2>3 DEF BatchFacts, Leftovers
  <2> HIDE DEF v
  <2>5. Grounded' /\ Quiet'
    <3>1. \A k \in 1..N : file'[k] = "base" => snap[k] = "base"
      BY <2>1, <2>2, <2>3 DEF BatchFacts, Grounded, Ops, v
    <3>2. edits = 0 => \A k \in 1..N : file'[k] # "other" /\ snap[k] # "other"
      BY <2>1, <2>2, <2>3 DEF BatchFacts, Quiet, Ops, v
    <3>3. QED
      BY <2>1, <2>3, <3>1, <3>2 DEF BatchFacts, Grounded, Quiet, Ops
  <2>6. QED
    BY <2>1, <2>4, <2>5 DEF BatchFacts, Consumed, Leftovers
<1>4. CASE Escape
  <2>1. /\ pc' \in {"discard", "done"} /\ UNCHANGED <<file, edits, snap, applied, staged>>
        /\ \/ UNCHANGED orphans
           \/ /\ pc = "restage"
              /\ \E k \in ((1..applied) \cap Writes) \ staged : orphans' = orphans \cup {k}
    BY <1>4 DEF Escape
  <2>2. CASE UNCHANGED orphans
    BY <2>1, <2>2, FactsIdle
  <2>3. ASSUME pc = "restage", NEW k \in ((1..applied) \cap Writes) \ staged, orphans' = orphans \cup {k}
        PROVE  BatchFacts'
    <3>1. file[k] \in {"new", "other"}
      BY <2>3 DEF BatchFacts, Consumed
    <3>2. QED
      BY <2>1, <2>3, <3>1 DEF BatchFacts, Grounded, Quiet, Consumed, Leftovers
  <2>4. QED
    BY <2>1, <2>2, <2>3
<1>5. QED
  BY <1>2, <1>3, <1>4

LEMMA EditFacts ==
    ASSUME TypeOK, BatchFacts, NEW k \in Ops, Edit(k)
    PROVE  BatchFacts'
<1>1. /\ edits' = edits + 1 /\ edits \in Nat /\ file \in [Ops -> Values]
      /\ file' = [file EXCEPT ![k] = "other"]
      /\ UNCHANGED <<snap, applied, staged, orphans, pc>>
  BY DEF Edit, TypeOK, locals
<1>2. orphans \subseteq Ops
  BY DEF TypeOK, Writes
<1>3. QED
  BY <1>1, <1>2 DEF BatchFacts, Grounded, Quiet, Consumed, Leftovers, Writes

LEMMA NextFacts ==
    ASSUME IInv, BatchFacts, [Next]_vars \/ AbortRun
    PROVE  BatchFacts'
<1> USE DEF disk, locals, Goto, Return
<1>1. ASSUME NEW other \in BOOLEAN, Preflight(other) PROVE BatchFacts'
  BY <1>1, FactsIdle DEF Preflight
<1>2. CASE PersistIntent \/ PersistIntentFails \/ PersistCommitted \/ PersistCommittedFails
  BY <1>2, FactsIdle DEF PersistIntent, PersistIntentFails, PersistCommitted, PersistCommittedFails
<1>3. CASE DropRestaged
  <2>1. pc' \in {"drop", "settle"} /\ UNCHANGED <<file, edits, snap, applied, orphans>>
    BY <1>3 DEF DropRestaged
  <2>2. QED
    BY <2>1, FactsIdle
<1>4. CASE PersistFailure \/ PersistFailureFails
  BY <1>4, FactsIdle DEF PersistFailure, PersistFailureFails
<1>5. CASE Discard
  <2>1. pc' \in {"discard", "done"} /\ UNCHANGED <<file, edits, snap, applied, orphans>>
    BY <1>5 DEF Discard
  <2>2. QED
    BY <2>1, FactsIdle
<1>6. CASE InterruptPersist \/ Crash
  <2>1. pc' \in {"discard", "done", "dead"} /\ UNCHANGED <<file, edits, snap, applied, orphans>>
    BY <1>6 DEF InterruptPersist, Crash
  <2>2. QED
    BY <2>1, FactsIdle
<1>7. CASE AbortRun \/ UNCHANGED vars
  BY <1>7, FactsIdle DEF AbortRun, vars
<1>8. QED
  BY <1>1, <1>2, <1>3, <1>4, <1>5, <1>6, <1>7, ApplyingFacts, RollingBackFacts, EditFacts
     DEF Next, BatchStep, IInv

LEMMA CommitFacts ==
    ASSUME IInv, BatchFacts, [CommitStep]_commitVars
    PROVE  BatchFacts'
<1>1. CASE CommitStep
  BY <1>1, CommitStepCases, NextFacts
<1>2. CASE UNCHANGED commitVars
  BY <1>2, FactsIdle DEF commitVars, batchVars, disk, locals
<1>3. QED
  BY <1>1, <1>2

----------------------------------------------------------------------------
(* What the assessment reads *)

LEMMA OutcomeReads ==
    ASSUME IInv, Grounded
    PROVE  /\ applied > 0 /\ file[1] \in {"new", "other"} => Outcome # "NOT_APPLIED"
           /\ (\A k \in Ops : file[k] # "new") => Outcome \notin {"COMMITTED", "PARTIAL"}
           /\ Outcome = "COMMITTED" => applied > 0 /\ \A k \in Ops : file[k] = "new"
           /\ Outcome = "PARTIAL" => applied > 0 /\ \E k \in Ops : file[k] = "new"
           /\ Outcome = "NOT_APPLIED" => \A k \in Ops : file[k] # "new"
           /\ (\A k \in Ops : file[k] \in {"new", snap[k]}) => Outcome # "MANUAL"
<1> DEFINE classes == {Classified(k) : k \in Ops}
<1>1. 1 \in Ops
  BY BatchAssumption DEF Ops
<1>2. ASSUME NEW k \in Ops
      PROVE  /\ Classified(k) \in classes /\ Classified(k) \in {"APPLIED", "NOT_APPLIED", "FOREIGN"}
             /\ Classified(k) = "APPLIED" <=> file[k] = "new"
             /\ Classified(k) = "NOT_APPLIED" => file[k] = snap[k]
             /\ file[k] = snap[k] => Classified(k) # "FOREIGN"
  BY DEF Classified
<1>3. Outcome = IF "FOREIGN" \in classes THEN "MANUAL"
                ELSE IF classes = {"APPLIED"} THEN "COMMITTED"
                ELSE IF classes = {"NOT_APPLIED"} THEN "NOT_APPLIED"
                ELSE "PARTIAL"
  BY DEF Outcome
<1>4. ASSUME NEW c \in classes PROVE \E k \in Ops : Classified(k) = c
  OBVIOUS
<1> HIDE DEF classes
<1>5. applied > 0 /\ file[1] \in {"new", "other"} => Outcome # "NOT_APPLIED"
  <2> SUFFICES ASSUME applied > 0, file[1] \in {"new", "other"}, classes = {"NOT_APPLIED"}
               PROVE  FALSE
    BY <1>3
  <2>1. snap[1] = "base"
    BY DEF Grounded
  <2>2. QED
    BY <1>1, <1>2, <2>1
<1>6. (\A k \in Ops : file[k] # "new") => Outcome \notin {"COMMITTED", "PARTIAL"}
  <2> SUFFICES ASSUME \A k \in Ops : file[k] # "new", "FOREIGN" \notin classes
               PROVE  classes = {"NOT_APPLIED"}
    BY <1>3
  <2>1. \A k \in Ops : Classified(k) = "NOT_APPLIED"
    BY <1>2
  <2>2. QED
    BY <1>1, <1>2, <1>4, <2>1
<1>7. Outcome = "COMMITTED" => applied > 0 /\ \A k \in Ops : file[k] = "new"
  BY <1>1, <1>2, <1>3 DEF Grounded
<1>8. Outcome = "PARTIAL" => applied > 0 /\ \E k \in Ops : file[k] = "new"
  BY <1>6 DEF Grounded
<1>9. Outcome = "NOT_APPLIED" => \A k \in Ops : file[k] # "new"
  <2> SUFFICES ASSUME classes = {"NOT_APPLIED"}, NEW k \in Ops PROVE file[k] # "new"
    BY <1>3
  <2>1. QED
    BY <1>2
<1>10. (\A k \in Ops : file[k] \in {"new", snap[k]}) => Outcome # "MANUAL"
  <2> SUFFICES ASSUME \A k \in Ops : file[k] \in {"new", snap[k]} PROVE "FOREIGN" \notin classes
    BY <1>3
  <2>1. QED
    BY <1>2, <1>4
<1>11. QED
  BY <1>5, <1>6, <1>7, <1>8, <1>9, <1>10

----------------------------------------------------------------------------
(* What was proven stays proven *)

\* One step keeps both kinds of proof.
Stays ==
    /\ IsCommitted => IsCommitted'
    /\ IsRolledBack => IsRolledBack'
    /\ evidence = "none" => evidence' = "none"

LEMMA BackedStays ==
    ASSUME Stays, NEW value, Backed(value)
    PROVE  Backed(value)'
BY DEF Stays, Backed

LEMMA StaysIdle ==
    ASSUME UNCHANGED <<file, evidence, edits, applied, seam>>,
           at' \notin {"check", "apply", "refresh", "settle"}
    PROVE  Stays
BY DEF Stays, IsCommitted, IsRolledBack, OwesCommit, OwesRollBack, Verdict

LEMMA EditStays ==
    ASSUME TypeOK, NEW k \in Ops, Edit(k), UNCHANGED <<seam, at, goal>>
    PROVE  Stays
<1>1. /\ edits' = edits + 1 /\ edits \in Nat /\ file \in [Ops -> Values] /\ 1 \in Ops
      /\ file' = [file EXCEPT ![k] = "other"] /\ UNCHANGED <<evidence, applied>>
  BY BatchAssumption DEF Edit, TypeOK, locals, Ops
<1>2. QED
  BY <1>1 DEF Stays, IsCommitted, IsRolledBack, OwesCommit, OwesRollBack, Verdict

LEMMA RecoverStays ==
    ASSUME GInv, \/ ReadEvidence \/ Refresh \/ SettleEvidence
                 \/ \E k \in Ops : CheckTarget(k) \/ ApplyTarget(k)
    PROVE  Stays
<1> USE DEF Stays, IsCommitted, IsRolledBack, OwesCommit, OwesRollBack, GoTo
<1>1. IInv /\ Grounded /\ RecoverEvidence /\ TypeOK
  BY DEF GInv, RInv, BatchFacts, IInv
<1>2. CASE ReadEvidence
  <2>1. /\ UNCHANGED <<file, evidence, edits, applied, seam>>
        /\ at' \in {"check", "apply", "refresh"} => Outcome = "PARTIAL"
        /\ at' = "settle" => \/ goal' = "committed" /\ Outcome = "COMMITTED"
                             \/ goal' = "rolled_back" /\ Outcome = "NOT_APPLIED"
    BY <1>2 DEF ReadEvidence, commitVars, batchVars, disk, locals
  <2>2. QED
    BY <1>1, <2>1, OutcomeReads DEF Verdict
<1>3. CASE Refresh
  <2>1. /\ UNCHANGED <<file, evidence, edits, applied, seam>> /\ at = "refresh"
        /\ at' = "settle" => goal' = "committed"
        /\ at' \in {"settle", "records"}
    BY <1>3 DEF Refresh, commitVars, batchVars, disk, locals
  <2>2. QED
    BY <1>1, <2>1 DEF Verdict, RecoverEvidence
<1>4. CASE SettleEvidence
  BY <1>1, <1>4 DEF SettleEvidence, RecoverEvidence, Verdict
<1>5. ASSUME NEW k \in Ops, CheckTarget(k) PROVE Stays
  <2>1. /\ UNCHANGED <<file, evidence, edits, applied, seam>> /\ at = "check"
        /\ at' \in {"apply", "records"}
    BY <1>5 DEF CheckTarget, commitVars, batchVars, disk, locals
  <2>2. QED
    BY <1>1, <2>1 DEF Verdict, RecoverEvidence
<1>6. ASSUME NEW k \in Ops, ApplyTarget(k) PROVE Stays
  <2>1. /\ file' = [file EXCEPT ![k] = "new"] /\ file \in [Ops -> Values] /\ 1 \in Ops
        /\ UNCHANGED <<evidence, edits, applied, seam>>
        /\ at = "apply" /\ at' \in {"refresh", "check"}
    BY <1>1, <1>6, BatchAssumption DEF ApplyTarget, TypeOK, Ops, locals
  <2>2. QED
    BY <1>1, <2>1 DEF Verdict, RecoverEvidence
<1>7. QED
  BY <1>2, <1>3, <1>4, <1>5, <1>6

----------------------------------------------------------------------------
(* The run *)

\* While the run is on, its own story backs everything.
LEMMA StoryBacks == SInv /\ at = "idle" => Backing /\ Found
BY DEF SInv, Story, Typing, Backing, Backed, Found, IsCommitted, IsRolledBack, Delivered, SettledOnInterrupt

LEMMA StoryBacksNext == (SInv /\ at = "idle")' => (Backing /\ Found)'
BY StoryBacks, PTL

LEMMA ClosedRun ==
    ASSUME seam = "closed", CommitStep
    PROVE  \E k \in Ops : EditTarget(k)
BY DEF CommitStep, BeginIntent, StageRegistry, RunBatch, AfterBatch, VerifyDigest, Promote,
       Unstage, Settle, DiscardPending, EndRun, AbortRun, Die

LEMMA BackingStays ==
    ASSUME Backing, Stays, UNCHANGED <<record, contract, registry, outcome, result>>
    PROVE  Backing'
BY DEF Backing, Backed, Stays, SettledOnInterrupt

LEMMA FoundStays ==
    ASSUME Found, Stays, UNCHANGED <<at, proven, record, contract, registry>>
    PROVE  Found'
BY DEF Found, Backed, Stays

LEMMA RunStepG == GInv /\ RunStep => GInv'
<1> SUFFICES ASSUME GInv, RunStep PROVE GInv'
  OBVIOUS
<1>1. /\ RInv' /\ IInv /\ CommitStep /\ UNCHANGED recoverVars
  BY RunStepInv DEF GInv, RInv, RunStep
<1>2. UNCHANGED <<at, partial, todo, goal, proven, faults>>
  BY <1>1 DEF recoverVars
<1>3. RecoverTyping' /\ BatchFacts' /\ ((at \in {"check", "apply"} => applied > 0)')
  <2>1. RecoverTyping' /\ BatchFacts'
    BY <1>1, <1>2, CommitFacts DEF GInv, RecoverTyping
  <2>2. CASE seam = "closed"
    BY <1>1, <1>2, <2>1, <2>2, ClosedRun DEF GInv, EditTarget, Edit, locals
  <2>3. CASE seam # "closed"
    BY <1>2, <2>1, <2>3 DEF GInv, RInv, RecoverWhere
  <2>4. QED
    BY <2>1, <2>2, <2>3
<1>4. CASE seam # "closed"
  <2>1. SInv' /\ at' = "idle"
    BY <1>1, <1>2, <1>4, NextStory DEF GInv, RInv, RecoverWhere
  <2>2. QED
    BY <1>1, <1>3, <2>1, StoryBacksNext DEF GInv, SInv
<1>5. CASE seam = "closed"
  <2>1. PICK k \in Ops : EditTarget(k)
    BY <1>1, <1>5, ClosedRun
  <2>2. /\ Edit(k) /\ UNCHANGED <<record, seam, result, contract, registry, pending, outcome>>
    BY <2>1 DEF EditTarget, Edit, registryVars
  <2>3. Stays
    BY <1>1, <1>2, <2>2, EditStays DEF IInv
  <2>4. Backing' /\ Found'
    BY <1>2, <2>2, <2>3, BackingStays, FoundStays DEF GInv
  <2>5. Typing' /\ seam' = "closed"
    BY <1>5, <2>2 DEF GInv, Typing
  <2>6. QED
    BY <1>1, <1>3, <2>4, <2>5 DEF GInv
<1>6. QED
  BY <1>4, <1>5

----------------------------------------------------------------------------
(* recover *)

\* A record with one cycle, recovered with its proof.
LEMMA RecoverSmall ==
    ASSUME NEW r, Small(r), NEW x \in Proven \cup {"none"}, OpenCycles(r) = {} <=> x = "none"
    PROVE  LET q == Recover(r, [i \in OpenCycles(r) |-> x])
           IN  /\ Small(q) /\ q.lifecycle = "RECOVERED"
               /\ Word(q) = IF OpenCycles(r) = {} THEN Word(r) ELSE x
<1> DEFINE proof == [i \in OpenCycles(r) |-> x]
           q == Recover(r, proof)
           c == ProvedBy(r.commits, proof)
<1>1. r \in Record /\ r.commits \in Seq(Cycle) /\ OpenCycles(r) \subseteq DOMAIN r.commits
  BY DEF Small, Record, OpenCycles, Cycles
<1>2. DOMAIN proof = OpenCycles(r) /\ \A i \in DOMAIN proof : proof[i] \in Proven
  <2>1. CASE OpenCycles(r) = {}
    BY <2>1
  <2>2. CASE OpenCycles(r) # {}
    BY <2>2
  <2>3. QED
    BY <2>1, <2>2
<1>3. /\ c \in Seq(Cycle) /\ Len(c) = Len(r.commits)
      /\ \A i \in DOMAIN r.commits :
            c[i] = IF i \in DOMAIN proof THEN [r.commits[i] EXCEPT !.result = proof[i]] ELSE r.commits[i]
  <2>1. proof \in [OpenCycles(r) -> Proven] /\ OpenCycles(r) \in SUBSET (DOMAIN r.commits)
    BY <1>1, <1>2
  <2> HIDE DEF proof
  <2>2. c \in Seq(Cycle) /\ Len(c) = Len(r.commits)
    BY <1>1, <2>1, ProvedByProperties
  <2>3. QED
    BY <2>2 DEF ProvedBy
<1>4. Summary(c) \in Settled \cup {"NO_COMMIT", "PARTIALLY_COMMITTED"}
  BY <1>3, SummaryTruth
<1>5. q \in Record /\ q.commits = c /\ q.lifecycle = "RECOVERED"
  <2> DEFINE review == \/ \E i \in DOMAIN c : c[i].result = "COMMITTED"
                       \/ r.lifecycle = "UNCERTAIN" /\ OpenCycles(r) = {}
                       \/ r.tool = "abandoned"
             status == IF review THEN "NEEDS_REVIEW" ELSE "FAILURE"
  <2>1. q = [r EXCEPT !.lifecycle = "RECOVERED", !.commits = c, !.commit_result = Summary(c),
                      !.terminal_status = status]
    BY DEF Recover
  <2>2. status \in {"NEEDS_REVIEW", "FAILURE"}
    OBVIOUS
  <2> HIDE DEF status, c, q
  <2>3. QED
    BY <1>1, <1>3, <1>4, <2>1, <2>2 DEF Record, Lifecycles, Terminals, Settled, Proven
<1> HIDE DEF q
<1>6. CASE r.commits = << >>
  <2>1. c = << >>
    BY <1>1, <1>3, <1>6
  <2>2. OpenCycles(r) = {}
    BY <1>1, <1>6
  <2>3. QED
    BY <1>3, <1>5, <1>6, <2>1, <2>2 DEF Small, Word, q
<1>7. CASE r.commits # << >>
  <2>1. DOMAIN r.commits = {1} /\ r.commits[1] \in Cycle
    BY <1>7, SmallRecord
  <2>2. OpenCycles(r) = {} \/ OpenCycles(r) = {1}
    BY <1>1, <2>1
  <2>3. c[1].result = IF OpenCycles(r) = {} THEN r.commits[1].result ELSE x
    <3>1. CASE OpenCycles(r) = {}
      BY <1>2, <1>3, <2>1, <3>1
    <3>2. CASE OpenCycles(r) = {1}
      <4>1. proof[1] = x /\ c[1] = [r.commits[1] EXCEPT !.result = x]
        BY <1>2, <1>3, <2>1, <3>2
      <4>2. QED
        BY <2>1, <3>2, <4>1 DEF Cycle
    <3>3. QED
      BY <2>2, <3>1, <3>2
  <2>4. c # << >>
    BY <1>1, <1>3, <1>7
  <2>5. Word(q) = c[1].result /\ Word(r) = r.commits[1].result
    BY <1>5, <1>7, <2>4 DEF Word
  <2>6. QED
    BY <1>3, <1>5, <2>3, <2>5 DEF Small, q
<1>8. QED
  BY <1>6, <1>7

\* Steps that leave the disk and the record alone and only go on.
LEMMA MovesG ==
    ASSUME GInv, RInv', seam = "closed", UNCHANGED <<batchVars, record, seam, result, contract>>,
           pending' \in BOOLEAN, RecoverTyping', Stays, Found',
           registry' \in {"before", "after"},
           registry = "after" => registry' = "after",
           registry' = "after" => contract /\ IsCommitted,
           at' \in {"check", "apply"} => applied > 0
    PROVE  GInv'
<1>1. UNCHANGED <<file, evidence, snap, applied, edits, staged, orphans, pc, outcome>>
  BY DEF batchVars, disk, locals
<1>2. BatchFacts'
  BY <1>1, FactsIdle DEF GInv
<1>3. Typing'
  BY DEF GInv, Typing
<1>4. Backing'
  BY <1>1 DEF GInv, Typing, Backing, Backed, Stays, SettledOnInterrupt
<1>5. QED
  BY <1>1, <1>2, <1>3, <1>4 DEF GInv

LEMMA AssessG == GInv /\ RInv' /\ AssessRecord => GInv'
<1> SUFFICES ASSUME GInv, RInv', AssessRecord PROVE GInv'
  OBVIOUS
<1> DEFINE open == OpenCycles(record) # {}
           needed == NeedsRecovery(record)
<1>1. /\ at = "records" /\ UNCHANGED <<commitVars, partial, goal, faults>>
      /\ proven' = IF needed /\ open THEN ProvenResult ELSE "none"
      /\ at' = IF ~needed \/ (open /\ ProvenResult = "none") THEN "idle"
               ELSE IF open /\ contract THEN "contract" ELSE "record"
  BY Zenon DEF AssessRecord, GoTo
<1>2. /\ UNCHANGED <<batchVars, record, seam, result, contract, registry, pending>> /\ seam = "closed"
      /\ UNCHANGED <<file, evidence, edits, applied>>
  BY <1>1 DEF commitVars, batchVars, registryVars, disk, locals, GInv, RInv, RecoverWhere
<1>3. ProvenResult \in Proven \cup {"none"}
  BY DEF ProvenResult, Proven
<1>4. at' \in {"idle", "contract", "record"} /\ proven' \in Proven \cup {"none"}
  BY <1>1, <1>3
<1>5. RecoverTyping' /\ Stays
  BY <1>1, <1>2, <1>4, StaysIdle DEF GInv, RecoverTyping, Places
<1>6. ASSUME at' \in {"contract", "record"} PROVE Backed(ProvenResult)'
  <2>1. /\ IInv /\ Grounded /\ TypeOK
    BY DEF GInv, RInv, IInv, BatchFacts
  <2>2. evidence \in {"none", "committed", "rolled_back"} \/ Verdict = "open"
    BY <2>1 DEF TypeOK, Verdict
  <2>3. Verdict = "open" => /\ Outcome = "COMMITTED" => OwesCommit'
                            /\ Outcome = "NOT_APPLIED" => OwesRollBack'
    <3>1. 1 \in Ops
      BY BatchAssumption DEF Ops
    <3>2. QED
      BY <1>1, <1>2, <1>6, <2>1, <3>1, OutcomeReads DEF OwesCommit, OwesRollBack, Verdict
  <2>4. ProvenResult' = ProvenResult
    BY <1>2 DEF ProvenResult, Outcome, Classified, batchVars, disk, locals
  <2>5. /\ evidence = "none" => ProvenResult = "NOT_COMMITTED"
        /\ evidence = "committed" => ProvenResult = "COMMITTED"
        /\ evidence = "rolled_back" => ProvenResult = "ROLLED_BACK"
        /\ Verdict = "open" =>
              /\ ProvenResult = "COMMITTED" => Outcome = "COMMITTED"
              /\ ProvenResult = "ROLLED_BACK" => Outcome = "NOT_APPLIED"
              /\ ProvenResult # "NOT_COMMITTED"
    BY DEF ProvenResult, Verdict
  <2>6. QED
    BY <1>2, <2>2, <2>3, <2>4, <2>5 DEF Backed, IsCommitted, IsRolledBack
<1>7. Found'
  <2>1. at' \in {"contract", "record"} =>
          /\ needed
          /\ open => proven' = ProvenResult /\ ProvenResult # "none"
          /\ ~open => proven' = "none"
          /\ at' = "contract" => open /\ contract
          /\ at' = "record" => ~(open /\ contract)
    BY <1>1
  <2>2. ProvenResult' = ProvenResult
    BY <1>2 DEF ProvenResult, Outcome, Classified, batchVars, disk, locals
  <2>3. at' \in {"contract", "record"} => Backed(proven)'
    BY <1>6, <2>1, <2>2 DEF Backed
  <2> HIDE DEF needed
  <2>4. QED
    BY <1>2, <1>4, <2>1, <2>3 DEF Found
<1>8. QED
  BY <1>1, <1>2, <1>4, <1>5, <1>7, MovesG DEF GInv, Typing, Backing

LEMMA SaveG == GInv /\ RInv' /\ SaveRecovered => GInv'
<1> SUFFICES ASSUME GInv, RInv', SaveRecovered PROVE GInv'
  OBVIOUS
<1>1. /\ at = "record" /\ at' = "idle"
      /\ record' = Recover(record, [i \in OpenCycles(record) |-> proven])
      /\ UNCHANGED <<file, evidence, snap, applied, edits, staged, orphans, pc, outcome, seam,
                     result, contract, registry, pending, partial, goal, proven, faults>>
  BY DEF SaveRecovered, GoTo, batchVars, disk, locals, registryVars
<1>2. /\ Backed(proven) /\ (OpenCycles(record) = {} <=> proven = "none")
      /\ proven = "COMMITTED" /\ contract => registry = "after"
      /\ proven \in Proven \cup {"none"} /\ Small(record) /\ seam = "closed"
  BY <1>1 DEF GInv, Found, RecoverTyping, Typing, RInv, RecoverWhere
<1>3. /\ Small(record')
      /\ Word(record') = IF OpenCycles(record) = {} THEN Word(record) ELSE proven
  BY <1>1, <1>2, RecoverSmall
<1>4. OpenCycles(record) = {} => Word(record) \notin {"open", "UNCERTAIN"}
  BY <1>2, SmallRecord
<1>5. BatchFacts' /\ Stays
  BY <1>1, FactsIdle, StaysIdle DEF GInv
<1>6. Typing' /\ RecoverTyping' /\ Found'
  BY <1>1, <1>3 DEF GInv, Typing, RecoverTyping, Places, Found
<1>7. Backing'
  <2>1. Backed(Word(record')) /\ Word(record') \notin {"open", "UNCERTAIN"}
    BY <1>2, <1>3, <1>4 DEF GInv, Backing, Proven
  <2>2. (Backed(Word(record)))'
    BY <1>1, <1>5, <2>1 DEF Stays, Backed
  <2>3. /\ Word(record') = "none" => evidence = "none"
        /\ Word(record') = "COMMITTED" /\ contract /\ ~SettledOnInterrupt => registry = "after"
    BY <1>2, <1>3 DEF GInv, Backing
  <2>4. (registry = "after" => contract /\ IsCommitted)'
    BY <1>1, <1>5 DEF GInv, Backing, Stays
  <2>5. QED
    BY <1>1, <2>1, <2>2, <2>3, <2>4 DEF Backing, SettledOnInterrupt
<1>8. QED
  BY <1>1, <1>2, <1>5, <1>6, <1>7 DEF GInv

\* The steps that read and move on.
LEMMA ReadingG ==
    GInv /\ RInv' /\ (\/ ReadEvidence \/ Refresh \/ RecoveryStepFails \/ RecoveryDies
                      \/ \E completePartial \in BOOLEAN : StartRecovery(completePartial)
                      \/ \E k \in Ops : CheckTarget(k)) => GInv'
<1> SUFFICES ASSUME GInv, RInv',
                    \/ ReadEvidence \/ Refresh \/ RecoveryStepFails \/ RecoveryDies
                    \/ \E completePartial \in BOOLEAN : StartRecovery(completePartial)
                    \/ \E k \in Ops : CheckTarget(k)
             PROVE  GInv'
  OBVIOUS
<1>1. UNCHANGED <<batchVars, record, seam, result, contract, registry, pending>>
  BY DEF ReadEvidence, Refresh, RecoveryStepFails, RecoveryDies, StartRecovery, CheckTarget,
         commitVars, registryVars
<1>2. /\ seam = "closed"
      /\ at' \in {"evidence", "records", "sweep", "settle", "check", "apply", "idle"}
      /\ UNCHANGED <<file, evidence, edits, applied>>
  BY <1>1 DEF ReadEvidence, Refresh, RecoveryStepFails, RecoveryDies, StartRecovery, CheckTarget,
         GoTo, LockFree, GInv, RInv, RecoverWhere, batchVars, disk, locals
<1>3. RecoverTyping'
  <2>1. faults' = faults \/ (faults < MaxFaults /\ faults' = faults + 1)
    BY DEF ReadEvidence, Refresh, RecoveryStepFails, RecoveryDies, StartRecovery, CheckTarget, Fault
  <2>2. faults' \in 0..MaxFaults
    BY <2>1, RecoverAssumption DEF GInv, RecoverTyping
  <2>3. partial' \in BOOLEAN
    BY DEF ReadEvidence, Refresh, RecoveryStepFails, RecoveryDies, StartRecovery, CheckTarget,
           GInv, RecoverTyping
  <2>4. goal' \in {goal, "committed", "rolled_back"} /\ proven' \in {proven, "none"}
    BY DEF ReadEvidence, Refresh, RecoveryStepFails, RecoveryDies, StartRecovery, CheckTarget
  <2>5. QED
    BY <1>2, <2>2, <2>3, <2>4 DEF GInv, RecoverTyping, Places
<1>4. Stays
  <2>1. CASE ReadEvidence \/ Refresh \/ \E k \in Ops : CheckTarget(k)
    BY <2>1, RecoverStays
  <2>2. CASE RecoveryStepFails \/ RecoveryDies
             \/ \E completePartial \in BOOLEAN : StartRecovery(completePartial)
    <3>1. at' \in {"records", "idle", "evidence"}
      BY <2>2 DEF RecoveryStepFails, RecoveryDies, StartRecovery, GoTo
    <3>2. QED
      BY <1>1, <1>2, <3>1, StaysIdle
  <2>3. QED
    BY <2>1, <2>2
<1>5. Found'
  BY <1>2 DEF Found
<1>6. at' \in {"check", "apply"} => applied > 0
  <2>1. CASE ReadEvidence
    <3>1. at' \in {"check", "apply"} => Outcome = "PARTIAL"
      BY <2>1 DEF ReadEvidence, GoTo
    <3>2. QED
      BY <3>1, OutcomeReads DEF GInv, RInv, BatchFacts
  <2>2. CASE ~ReadEvidence
    <3>1. at' \in {"check", "apply"} => at = "check"
      BY <2>2 DEF Refresh, RecoveryStepFails, RecoveryDies, StartRecovery, CheckTarget, GoTo
    <3>2. QED
      BY <3>1 DEF GInv
  <2>3. QED
    BY <2>1, <2>2
<1>7. QED
  BY <1>1, <1>2, <1>3, <1>4, <1>5, <1>6, MovesG DEF GInv, Typing, Backing

\* The contract registry is completed and its staged copy removed.
LEMMA ContractG == GInv /\ RInv' /\ (CompleteContract \/ UnstageContract) => GInv'
<1> SUFFICES ASSUME GInv, RInv', CompleteContract \/ UnstageContract PROVE GInv'
  OBVIOUS
<1>1. /\ at \in {"contract", "unstage"} /\ at' \in {"idle", "unstage", "record"}
      /\ UNCHANGED <<batchVars, record, seam, result, contract, partial, goal, proven, faults>>
      /\ registry' \in {registry, "after"}
      /\ pending' \in {pending, FALSE}
      /\ at' # "idle" /\ at = "contract" /\ proven = "COMMITTED" => registry' = "after"
      /\ registry' # registry => at = "contract" /\ proven = "COMMITTED"
      /\ at' \in {"idle", "unstage"} <=> at = "contract"
  <2>1. CASE CompleteContract
    <3>1. /\ at = "contract"
          /\ UNCHANGED <<batchVars, record, seam, result, contract, pending, partial, goal, proven, faults>>
      BY <2>1, Zenon DEF CompleteContract
    <3>2. \/ /\ proven = "COMMITTED" /\ registry = "after"
             /\ at' = "unstage" /\ registry' = registry
          \/ /\ proven = "COMMITTED"
             /\ at' = "unstage" /\ registry' = "after"
          \/ /\ proven # "COMMITTED"
             /\ at' = "unstage" /\ registry' = registry
          \/ at' = "idle" /\ registry' = registry
      BY <2>1 DEF CompleteContract, GoTo
    <3>3. QED
      BY <3>1, <3>2
  <2>2. CASE UnstageContract
    BY <2>2 DEF UnstageContract, GoTo
  <2>3. QED
    BY <2>1, <2>2
<1>2. seam = "closed" /\ UNCHANGED <<file, evidence, edits, applied>>
  BY <1>1 DEF GInv, RInv, RecoverWhere, batchVars, disk, locals
<1>3. Stays
  BY <1>1, <1>2, StaysIdle
<1>4. /\ Backed(proven) /\ (OpenCycles(record) = {} <=> proven = "none")
      /\ at = "contract" => contract
      /\ at = "unstage" /\ proven = "COMMITTED" /\ contract => registry = "after"
  BY <1>1 DEF GInv, Found
<1>5. registry' = "after" => contract /\ IsCommitted
  BY <1>1, <1>4 DEF GInv, Backing, Backed
<1>6. RecoverTyping' /\ pending' \in BOOLEAN /\ registry' \in {"before", "after"}
  BY <1>1 DEF GInv, RecoverTyping, Places, Typing
<1>7. Found'
  <2>1. Backed(proven)'
    BY <1>1, <1>3, <1>4 DEF Backed, Stays
  <2>2. at' # "idle" /\ proven = "COMMITTED" /\ contract => registry' = "after"
    BY <1>1, <1>4
  <2>3. QED
    BY <1>1, <1>4, <2>1, <2>2 DEF Found
<1>8. QED
  BY <1>1, <1>2, <1>3, <1>5, <1>6, <1>7, MovesG

\* The steps of recover that change a target, the evidence or the copies.
LEMMA WritingG ==
    GInv /\ RInv' /\ (SettleEvidence \/ SweepCopies \/ \E k \in Ops : ApplyTarget(k)) => GInv'
<1> SUFFICES ASSUME GInv, RInv', SettleEvidence \/ SweepCopies \/ \E k \in Ops : ApplyTarget(k)
             PROVE  GInv'
  OBVIOUS
<1>1. /\ at \in {"settle", "sweep", "apply"} /\ at' \in {"sweep", "records", "refresh", "check"}
      /\ at' = "check" => at = "apply"
      /\ orphans' \subseteq orphans
      /\ UNCHANGED <<edits, snap, applied, pc, outcome, record, seam, result, contract, registry,
                     pending, partial, goal, proven>>
      /\ faults' \in {faults} \/ (faults < MaxFaults /\ faults' = faults + 1)
  BY DEF SettleEvidence, SweepCopies, ApplyTarget, GoTo, locals, registryVars, Fault
<1>2. seam = "closed" /\ pc \in {"preflight", "done", "dead"}
  BY <1>1 DEF GInv, RInv, RecoverWhere, BatchWhere
<1>3. Stays
  <2>1. CASE SweepCopies
    <3>1. at' = "records" /\ UNCHANGED <<file, evidence, edits, applied, seam>>
      BY <1>1, <2>1 DEF SweepCopies, GoTo
    <3>2. QED
      BY <3>1, StaysIdle
  <2>2. QED
    BY <2>1, RecoverStays
<1>4. BatchFacts'
  <2>1. CASE UNCHANGED file
    BY <1>1, <1>2, <2>1, FactsIdle DEF GInv
  <2>2. ASSUME NEW k \in Ops, ApplyTarget(k) PROVE BatchFacts'
    <3>1. /\ file' = [file EXCEPT ![k] = "new"] /\ file \in [Ops -> Values] /\ applied > 0
          /\ orphans \subseteq Ops
      BY <1>1, <2>2 DEF ApplyTarget, GInv, RInv, IInv, TypeOK, Writes
    <3>2. QED
      BY <1>1, <1>2, <3>1 DEF GInv, BatchFacts, Grounded, Quiet, Consumed, Leftovers
  <2>3. QED
    BY <2>1, <2>2 DEF SettleEvidence, SweepCopies
<1>5. Backing' /\ Found'
  BY <1>1, <1>3, BackingStays DEF GInv, Found
<1>6. Typing' /\ RecoverTyping'
  <2>1. faults' \in 0..MaxFaults
    BY <1>1, RecoverAssumption DEF GInv, RecoverTyping
  <2>2. QED
    BY <1>1, <2>1 DEF GInv, Typing, RecoverTyping, Places
<1>7. at' \in {"check", "apply"} => applied > 0
  BY <1>1 DEF GInv
<1>8. QED
  BY <1>1, <1>2, <1>4, <1>5, <1>6, <1>7 DEF GInv

LEMMA StutterG == GInv /\ RInv' /\ UNCHANGED allVars => GInv'
<1> SUFFICES ASSUME GInv, RInv', UNCHANGED allVars PROVE GInv'
  OBVIOUS
<1>1. /\ UNCHANGED <<commitVars, at, partial, goal, proven, faults, todo>>
      /\ UNCHANGED <<file, evidence, edits, snap, applied, staged, orphans, pc, outcome,
                     record, seam, result, contract, registry, pending>>
  BY DEF allVars, commitVars, recoverVars, registryVars, batchVars, disk, locals
<1>2. BatchFacts' /\ Stays
  BY <1>1, FactsIdle DEF GInv, Stays, IsCommitted, IsRolledBack, OwesCommit, OwesRollBack, Verdict
<1>3. Backing' /\ Found'
  BY <1>1, <1>2, BackingStays, FoundStays DEF GInv
<1>4. Typing' /\ RecoverTyping'
  BY <1>1 DEF GInv, Typing, RecoverTyping
<1>5. seam # "closed" => SInv'
  BY <1>1, NextStory DEF GInv
<1>6. QED
  BY <1>1, <1>2, <1>3, <1>4, <1>5 DEF GInv

LEMMA RecoverInitG == RecoverInit => GInv
<1> SUFFICES ASSUME RecoverInit PROVE GInv
  OBVIOUS
<1>1. RInv /\ SInv /\ BatchFacts /\ at = "idle"
  BY InitRInv, InitStory, InitFacts DEF RecoverInit, CommitInit
<1>2. Backing /\ Found
  BY <1>1, StoryBacks
<1>3. RecoverTyping
  <2>1. faults \in 0..MaxFaults
    BY RecoverAssumption DEF RecoverInit
  <2>2. partial \in BOOLEAN
    BY Zenon DEF RecoverInit
  <2>3. QED
    BY <2>1, <2>2 DEF RecoverInit, RecoverTyping, Places
<1>4. QED
  BY <1>1, <1>2, <1>3 DEF GInv, SInv

LEMMA RecoverNextG == GInv /\ RInv' /\ [RecoverNext]_allVars => GInv'
BY RunStepG, ReadingG, AssessG, SaveG, ContractG, WritingG, StutterG DEF RecoverNext, RecoverStep

----------------------------------------------------------------------------
(* Theorems *)

\* The strengthening that the properties below follow from.
THEOREM BackedAlways == RecoverSpec => [](RInv /\ GInv)
<1>1. RecoverInit => RInv /\ GInv
  BY InitRInv, RecoverInitG
<1>2. RInv /\ GInv /\ [RecoverNext]_allVars => (RInv /\ GInv)'
  BY RecoverNextInv, RecoverNextG
<1>3. QED
  BY <1>1, <1>2, PTL DEF RecoverSpec

\* Run, recovery and record keep their types together (recover_workspace).
THEOREM RecoverTypeCorrect == RecoverSpec => []RecoverTypeOK
<1>1. RInv /\ GInv => RecoverTypeOK
  BY DEF RInv, IInv, GInv, Typing, Small, CommitTypeOK, RecoverTyping, RecoverTypeOK
<1>2. QED
  BY <1>1, BackedAlways, PTL

\* The gate of the next mutating run (assess_workspace_commit_state) opens only
\* when record, evidence, targets and registry agree on one end.
THEOREM GateIsSound == RecoverSpec => []GateAdmitsOnlySettledWork
<1>1. GInv => GateAdmitsOnlySettledWork
  <2> SUFFICES ASSUME GInv, LockFree, GateOpen
               PROVE  /\ HasCycle("COMMITTED") <=> evidence = "committed"
                      /\ HasCycle("ROLLED_BACK") <=> evidence = "rolled_back"
                      /\ \A k \in Ops :
                            file[k] \in {"other", IF evidence = "committed" THEN "new" ELSE "base"}
                      /\ registry = "after" => evidence = "committed"
                      /\ evidence = "committed" /\ contract /\ ~SettledOnInterrupt => registry = "after"
    BY DEF GateAdmitsOnlySettledWork
  <2>1. /\ IInv /\ Backing /\ Verdict # "open" /\ OpenCycles(record) = {}
        /\ evidence \in {"none", "committed", "rolled_back"}
    BY DEF GateOpen, CommitStateUnknown, GInv, RInv, IInv, TypeOK, Verdict
  <2>2. /\ \A x \in Results : HasCycle(x) <=> Word(record) = x
        /\ Word(record) \in (Results \cup {"none"}) \ {"open", "UNCERTAIN"}
    BY <2>1, SmallRecord DEF GInv, Typing, HasCycle
  <2>3. /\ IsCommitted <=> evidence = "committed"
        /\ IsRolledBack <=> evidence = "rolled_back"
    BY <2>1 DEF IsCommitted, IsRolledBack, OwesCommit, OwesRollBack
  <2>4. /\ Word(record) = "COMMITTED" <=> evidence = "committed"
        /\ Word(record) = "ROLLED_BACK" <=> evidence = "rolled_back"
    BY <2>1, <2>2, <2>3 DEF Backing, Backed, Results, Settled, Proven
  <2>5. /\ HasCycle("COMMITTED") <=> evidence = "committed"
        /\ HasCycle("ROLLED_BACK") <=> evidence = "rolled_back"
    BY <2>2, <2>4 DEF Results, Settled, Proven
  <2>6. \A k \in Ops : file[k] \in {"other", IF evidence = "committed" THEN "new" ELSE "base"}
    BY <2>1 DEF IInv, Always, Written, Untouched
  <2>7. /\ registry = "after" => evidence = "committed"
        /\ evidence = "committed" /\ contract /\ ~SettledOnInterrupt => registry = "after"
    BY <2>1, <2>3, <2>4 DEF Backing
  <2>8. QED
    BY <2>5, <2>6, <2>7
<1>2. QED
  BY <1>1, BackedAlways, PTL

\* What a death leaves open can be settled or rolled forward (_outcome,
\* _roll_forward_refusal), short of another writer or a lost copy.
THEOREM EveryCrashCanBeRecovered == RecoverSpec => []EveryCrashIsRecoverable
<1>1. GInv => EveryCrashIsRecoverable
  <2> SUFFICES ASSUME GInv, Verdict = "open", ~Untouchable
               PROVE  \/ Outcome \in {"COMMITTED", "NOT_APPLIED"}
                      \/ Outcome = "PARTIAL" /\ CanRollForward
    BY DEF EveryCrashIsRecoverable
  <2>1. /\ IInv /\ TypeOK /\ Grounded /\ Quiet /\ Leftovers /\ Backing
        /\ evidence \notin {"none", "committed", "rolled_back"}
    BY DEF GInv, RInv, IInv, BatchFacts, Verdict
  <2>2. /\ edits = 0 /\ lost = {}
        /\ \A k \in Ops : file[k] \in {"base", "new"} /\ (file[k] = "base" => snap[k] = "base")
    BY <2>1 DEF Untouchable, TypeOK, Values, Quiet, Grounded
  <2>3. Outcome # "MANUAL"
    BY <2>1, <2>2, OutcomeReads
  <2>4. Outcome \in {"COMMITTED", "NOT_APPLIED", "PARTIAL"}
    BY <2>3 DEF Outcome
  <2>5. ASSUME Outcome = "PARTIAL" PROVE CanRollForward
    <3>1. applied > 0 /\ \E k \in Ops : file[k] = "new"
      BY <2>1, <2>5, OutcomeReads
    <3>2. \A k \in NotApplied \cap Writes : OneCopy(k)
      <4> SUFFICES ASSUME NEW k \in NotApplied \cap Writes PROVE k \in staged \ orphans
        BY DEF OneCopy
      <4>1. k \in Ops /\ Classified(k) = "NOT_APPLIED"
        BY DEF NotApplied
      <4>2. file[k] = "base"
        BY <2>2, <4>1 DEF Classified
      <4>3. k \in staged
        BY <2>1, <2>2, <3>1, <4>2 DEF IInv, PartialCommitCanBeCompleted
      <4>4. k \notin orphans
        BY <2>1, <3>1, <4>2 DEF Leftovers
      <4>5. QED
        BY <4>3, <4>4
    <3>3. Word(record) \in {"open", "UNCERTAIN"}
      <4>1. ~IsRolledBack
        BY <2>1, <3>1 DEF IsRolledBack, OwesRollBack
      <4>2. ~IsCommitted
        <5>1. CASE OwesCommit
          <6>1. \A k \in Ops : file[k] = "new"
            BY <2>2, <5>1 DEF OwesCommit
          <6>2. \A k \in Ops : Classified(k) = "APPLIED"
            BY <6>1 DEF Classified
          <6>3. {Classified(k) : k \in Ops} = {"APPLIED"}
            BY <3>1, <6>2
          <6>4. QED
            BY <2>5, <6>3 DEF Outcome
        <5>2. QED
          BY <2>1, <5>1 DEF IsCommitted
      <4>3. Word(record) \in Results \cup {"none"}
        BY SmallRecord DEF GInv, Typing
      <4>4. QED
        BY <2>1, <4>1, <4>2, <4>3 DEF Backing, Backed, Results, Settled, Proven
    <3>4. NeedsRecovery(record) /\ OpenCycles(record) # {}
      BY <2>1, <3>3, SmallRecord DEF Backing, GInv, Typing
    <3>5. QED
      BY <3>2, <3>4 DEF CanRollForward
  <2>6. QED
    BY <2>4, <2>5
<1>2. QED
  BY <1>1, BackedAlways, PTL
=============================================================================
