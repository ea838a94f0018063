------------------------ MODULE TerminalCommit_proofs ------------------------
(***************************************************************************)
(* Theorems about TerminalCommit: for every batch, every number of edits   *)
(* and either kind of candidate, the run's record, the evidence and the    *)
(* contract registry tell one story wherever the process stops.            *)
(*                                                                         *)
(* The record has at most one commit cycle here, so its word for it says   *)
(* all.  To the batch's IInv, SInv adds where the seam can be (Place) and  *)
(* what the three files then say of each other (Story).                    *)
(***************************************************************************)
EXTENDS TerminalCommit, CommitBatch_proofs, RunRecord_proofs

\* The word of a record for its commit cycle.
Word(r) == IF r.commits = << >> THEN "none" ELSE r.commits[1].result

Small(r) == r \in Record /\ Len(r.commits) <= 1

\* Outside the call the batch has not begun, is over, or is dead.
BatchWhere == seam # "batch" => pc \in {"preflight", "done", "dead"}

\* A call that is over has told its caller something; a dead one has no caller.
Told ==
    /\ pc \in {"discard", "done"} => outcome # "none"
    /\ pc = "dead" => seam = "closed"

\* Nothing of the contract transition is left to do.
Delivered == (contract => registry = "after") /\ ~pending

\* What a result to be recorded says is true.
Proves(x) ==
    /\ x = "COMMITTED" => evidence = "committed" /\ (outcome # "raised" => Delivered)
    /\ x = "ROLLED_BACK" => evidence = "rolled_back"
    /\ x = "NOT_COMMITTED" => evidence = "none"

Place ==
    /\ seam = "begin" => Word(record) = "none" /\ evidence = "none" /\ record.lifecycle = "VERIFYING"
    /\ seam \in {"begin", "register"} => evidence = "none" /\ ~pending
    /\ seam \in {"begin", "register", "batch", "verify", "promote"} => registry = "before"
    /\ seam \in {"register", "batch", "verify", "promote", "unstage", "settle"} => Word(record) = "open"
    /\ seam \in {"verify", "promote", "unstage"} => evidence = "committed"
    /\ seam \in {"register", "promote", "unstage"} => contract
    /\ seam = "unstage" => registry = "after"
    /\ seam = "settle" => result \in Settled /\ Proves(result)
    /\ seam = "discard" => result \in {"ROLLED_BACK", "NOT_COMMITTED"} /\ evidence # "committed"

Story ==
    /\ Word(record) = "COMMITTED" =>
          /\ evidence = "committed" /\ result = "COMMITTED"
          /\ outcome # "raised" => Delivered
    /\ Word(record) = "ROLLED_BACK" => evidence = "rolled_back"
    /\ Word(record) = "NOT_COMMITTED" => evidence = "none"
    /\ Word(record) = "none" => evidence = "none"
    /\ Verdict = "open" => Word(record) \in {"open", "UNCERTAIN"}
    /\ Word(record) \in {"open", "UNCERTAIN"} => NeedsRecovery(record)
    /\ registry = "after" => contract /\ evidence = "committed"
    /\ pending => contract
    /\ record.lifecycle = "SUCCESS" =>
          Word(record) = "none" \/ (Word(record) = "COMMITTED" /\ Delivered)

Typing ==
    /\ Small(record)
    /\ seam \in Seams
    /\ result \in Settled \cup {"none"}
    /\ contract \in BOOLEAN /\ pending \in BOOLEAN
    /\ registry \in {"before", "after"}

SInv == IInv /\ Typing /\ BatchWhere /\ Told /\ Place /\ Story

----------------------------------------------------------------------------
(* Records with one cycle *)

LEMMA SmallRecord ==
    ASSUME NEW r, Small(r)
    PROVE  /\ r.commits \in Seq(Cycle)
           /\ Word(r) \in Results \cup {"none"}
           /\ Word(r) = "none" <=> r.commits = << >>
           /\ r.commits = << >> => DOMAIN r.commits = {}
           /\ r.commits # << >> => Len(r.commits) = 1 /\ DOMAIN r.commits = {1} /\ r.commits[1] \in Cycle
           /\ OpenCycles(r) # {} <=> Word(r) \in {"open", "UNCERTAIN"}
           /\ \A x \in Results : (\E i \in Cycles(r) : r.commits[i].result = x) <=> Word(r) = x
<1>1. /\ r.commits \in Seq(Cycle) /\ Len(r.commits) \in Nat
      /\ DOMAIN r.commits = 1..Len(r.commits)
      /\ \A i \in 1..Len(r.commits) : r.commits[i] \in Cycle
      /\ r.commits # << >> => Len(r.commits) \in 1..Len(r.commits)
  BY CommitsDomain DEF Small
<1>2. CASE r.commits = << >>
  <2>1. DOMAIN r.commits = {} /\ Cycles(r) = {} /\ Word(r) = "none"
    BY <1>1, <1>2 DEF Cycles, Word
  <2>2. QED
    BY <1>1, <1>2, <2>1 DEF OpenCycles, Results, Settled, Proven
<1>3. CASE r.commits # << >>
  <2> DEFINE n == Len(r.commits)
  <2>0. n = 1
    <3>1. n \in Nat /\ n \in 1..n /\ n <= 1
      BY <1>1, <1>3 DEF Small
    <3> HIDE DEF n
    <3>2. QED
      BY <3>1
  <2>1. Len(r.commits) = 1 /\ DOMAIN r.commits = {1} /\ r.commits[1] \in Cycle
    BY <1>1, <2>0
  <2>2. Word(r) = r.commits[1].result /\ Word(r) \in Results /\ Cycles(r) = {1}
    BY <1>3, <2>1 DEF Word, Cycle, Cycles
  <2>3. QED
    BY <1>1, <1>3, <2>1, <2>2 DEF OpenCycles, Results, Settled, Proven
<1>4. QED
  BY <1>2, <1>3

LEMMA BeginSmall ==
    ASSUME NEW r, Small(r), Word(r) = "none"
    PROVE  LET q == BeginCommit(r, TheTx)
           IN  Small(q) /\ Word(q) = "open" /\ q.lifecycle = "COMMIT_ELIGIBLE"
<1> DEFINE q == BeginCommit(r, TheTx)
           cycle == [tx |-> TheTx, result |-> "open"]
<1>1. r.commits = << >> /\ r \in Record
  BY SmallRecord DEF Small
<1>2. TheTx \in Tx
  BY CommitAssumption DEF TheTx
<1>3. cycle \in Cycle
  BY <1>2 DEF Cycle, Results
<1>4. /\ q = [r EXCEPT !.lifecycle = "COMMIT_ELIGIBLE", !.commits = <<cycle>>, !.commit_result = "none"]
      /\ <<cycle>> \in Seq(Cycle) /\ Len(<<cycle>>) = 1 /\ <<cycle>>[1] = cycle
  BY <1>1, <1>3 DEF BeginCommit
<1>5. q.commits = <<cycle>> /\ q.lifecycle = "COMMIT_ELIGIBLE" /\ q \in Record
  BY <1>1, <1>4 DEF Record, Lifecycles, Stages
<1>6. QED
  BY <1>4, <1>5 DEF Small, Word

LEMMA UncertainSmall ==
    ASSUME NEW r, Small(r)
    PROVE  LET q == BecomeUncertain(r)
           IN  /\ Small(q) /\ q.lifecycle = "UNCERTAIN"
               /\ Word(q) = IF Word(r) = "open" THEN "UNCERTAIN" ELSE Word(r)
<1> DEFINE q == BecomeUncertain(r)
           c == Closed(r.commits)
<1>1. r \in Record /\ r.commits \in Seq(Cycle)
  BY DEF Small, Record
<1>2. c \in Seq(Cycle) /\ Len(c) = Len(r.commits)
  BY <1>1, ClosedProperties
<1>3. q \in Record /\ q.commits = c /\ q.lifecycle = "UNCERTAIN"
  BY <1>1, <1>2 DEF BecomeUncertain, Record, Lifecycles, Terminals, Settled
<1>4. CASE r.commits = << >>
  <2>1. c = << >>
    BY <1>1, <1>2, <1>4
  <2>2. QED
    BY <1>2, <1>3, <1>4, <2>1 DEF Small, Word
<1>5. CASE r.commits # << >>
  <2>1. DOMAIN r.commits = {1} /\ r.commits[1] \in Cycle
    BY <1>5, SmallRecord
  <2>2. c[1] = IF r.commits[1].result = "open" THEN [r.commits[1] EXCEPT !.result = "UNCERTAIN"]
               ELSE r.commits[1]
    BY <2>1 DEF Closed
  <2>3. c[1].result = IF r.commits[1].result = "open" THEN "UNCERTAIN" ELSE r.commits[1].result
    BY <2>1, <2>2 DEF Cycle
  <2>4. c # << >>
    BY <1>1, <1>2, <1>5
  <2>5. QED
    BY <1>2, <1>3, <1>5, <2>3, <2>4 DEF Small, Word
<1>6. QED
  BY <1>4, <1>5

LEMMA SettleSmall ==
    ASSUME NEW r, Small(r), Word(r) = "open", NEW x \in Settled
    PROVE  LET q == SettleCommit(r, x)
           IN  Small(q) /\ Word(q) = x /\ q.lifecycle # "SUCCESS" /\ NeedsRecovery(q)
<1> DEFINE w == WithLastResult(r, x)
<1>1. r \in Record /\ r.commits # << >> /\ DOMAIN r.commits = {1} /\ Len(r.commits) = 1
  BY SmallRecord DEF Small
<1>2. /\ w \in Record /\ Len(w.commits) = 1 /\ w.commits[1].result = x
  BY <1>1, WithLastResultProperties
<1>3. w.commits # << >> /\ w.commits \in Seq(Cycle)
  BY <1>2 DEF Record
<1>4. Small(w) /\ Word(w) = x
  BY <1>2, <1>3 DEF Small, Word
<1>5. CASE x = "UNCERTAIN"
  BY <1>4, <1>5, UncertainSmall DEF SettleCommit, NeedsRecovery
<1>6. CASE x # "UNCERTAIN"
  <2> DEFINE l == IF x = "COMMITTED" THEN "COMMITTED" ELSE "CANDIDATE"
             q == [w EXCEPT !.lifecycle = l, !.commit_result = x]
  <2>1. SettleCommit(r, x) = q
    BY <1>6 DEF SettleCommit
  <2>2. q \in Record /\ q.commits = w.commits /\ q.lifecycle = l
    BY <1>2 DEF Record, Lifecycles, Stages
  <2>3. QED
    BY <1>4, <2>1, <2>2 DEF Small, Word, NeedsRecovery, Terminal, Terminals
<1>7. QED
  BY <1>5, <1>6

LEMMA FailSmall ==
    ASSUME NEW r, Small(r)
    PROVE  LET q == Fail(r, "none")
           IN  Small(q) /\ Word(q) = Word(r) /\ q.lifecycle = "FAILURE"
<1> DEFINE q == Fail(r, "none")
<1>1. r \in Record /\ Summary(r.commits) \in Settled \cup {"NO_COMMIT", "PARTIALLY_COMMITTED"}
  BY SmallRecord, SummaryTruth DEF Small
<1>2. q \in Record /\ q.commits = r.commits /\ q.lifecycle = "FAILURE"
  BY <1>1 DEF Fail, Record, Lifecycles, Terminals, Settled, Proven
<1>3. QED
  BY <1>2 DEF Small, Word

LEMMA SucceedSmall ==
    ASSUME NEW r, Small(r), CanSucceed(r)
    PROVE  LET q == Succeed(r, "none")
           IN  Small(q) /\ Word(q) = Word(r) /\ Word(r) \in {"none", "COMMITTED"}
<1> DEFINE q == Succeed(r, "none")
<1>1. /\ r \in Record /\ r.commits \in Seq(Cycle)
      /\ Summary(r.commits) \in Settled \cup {"NO_COMMIT", "PARTIALLY_COMMITTED"}
      /\ r.commits # << >> => LastResult(r.commits) = "COMMITTED"
  BY SmallRecord, SummaryTruth DEF Small, CanSucceed
<1>2. q \in Record /\ q.commits = r.commits
  BY <1>1 DEF Succeed, Record, Lifecycles, Terminals, Settled, Proven
<1>3. Word(r) \in {"none", "COMMITTED"}
  BY <1>1, SmallRecord DEF Word, LastResult
<1>4. QED
  BY <1>2, <1>3 DEF Small, Word

\* What _fail_active_run makes of it.
LEMMA FailureSmall ==
    ASSUME NEW r, Small(r), NEW u \in BOOLEAN
    PROVE  LET q == FailureOutcome(r, u)
           IN  /\ Small(q) /\ q.lifecycle # "SUCCESS"
               /\ Word(q) = Word(r) \/ (Word(r) = "open" /\ Word(q) = "UNCERTAIN")
               /\ Word(q) \in {"open", "UNCERTAIN"} => NeedsRecovery(q)
<1>1. CASE CommitStateUnknown(r) \/ u
  BY <1>1, UncertainSmall DEF FailureOutcome, NeedsRecovery
<1>2. CASE ~(CommitStateUnknown(r) \/ u)
  <2>1. Word(r) \notin {"open", "UNCERTAIN"}
    BY <1>2, SmallRecord DEF CommitStateUnknown
  <2>2. QED
    BY <1>2, <2>1, FailSmall DEF FailureOutcome
<1>3. QED
  BY <1>1, <1>2

----------------------------------------------------------------------------
(* The batch inside the run *)

\* A step that leaves the batch's variables alone keeps its invariant.
LEMMA BatchIdle ==
    ASSUME IInv, UNCHANGED batchVars
    PROVE  IInv'
<1>1. UNCHANGED vars
  BY DEF batchVars, vars
<1>2. QED
  BY <1>1, NextInv

\* An abandoned call leaves the batch's invariant intact.
LEMMA AbortInv ==
    ASSUME IInv, BatchWhere, AbortRun
    PROVE  IInv'
<1>1. /\ pc' = "done" /\ outcome' = "raised"
      /\ UNCHANGED <<disk, locals>>
      /\ pc \in {"preflight", "done", "dead"}
  BY DEF AbortRun, BatchWhere
<1>2. QED
  BY <1>1, SMTT(30)
     DEF IInv, TypeOK, PCs, Outcomes, PartialCommitCanBeCompleted, Verdict, Always,
         AtStart, AtStage, AtApply, AtCommit, AtRestage, AtRollBack, AtSettle, AtDiscard,
         AtDone, Untouched, Written, disk, locals

LEMMA DieInv ==
    ASSUME IInv, Die
    PROVE  [Next]_vars
<1>1. CASE pc = "done"
  BY <1>1 DEF Die, vars
<1>2. CASE pc = "dead"
  <2>1. outcome = "none"
    BY <1>2 DEF IInv, Always, TypeOK, Outcomes
  <2>2. QED
    BY <1>2, <2>1 DEF Die, vars
<1>3. CASE pc \notin {"done", "dead"}
  BY <1>3 DEF Die, Next, Crash
<1>4. QED
  BY <1>1, <1>2, <1>3

\* Every step of the run is a step of the batch, an abandoned call, or leaves
\* the batch alone.
LEMMA CommitStepCases ==
    ASSUME IInv, CommitStep
    PROVE  [Next]_vars \/ AbortRun
<1>1. CASE RunBatch
  BY <1>1 DEF RunBatch, Next
<1>2. CASE Die
  BY <1>2, DieInv
<1>3. ASSUME NEW k \in Ops, EditTarget(k) PROVE [Next]_vars
  BY <1>3 DEF EditTarget, Next
<1>4. CASE AbortRun
  BY <1>4
<1>5. CASE UNCHANGED batchVars
  BY <1>5 DEF batchVars, vars
<1>6. QED
  BY <1>1, <1>2, <1>3, <1>4, <1>5
     DEF CommitStep, BeginIntent, StageRegistry, AfterBatch, VerifyDigest, Promote, Unstage,
         Settle, DiscardPending, EndRun

\* Where the run goes: the batch's step stays in the call, and what follows the
\* call starts when it is over.
LEMMA CommitStepWhere ==
    ASSUME IInv, BatchWhere, CommitStep
    PROVE  BatchWhere' /\ (seam = "closed" => seam' = "closed" /\ UNCHANGED <<evidence, snap>>)
<1>1. CASE RunBatch
  BY <1>1 DEF RunBatch, BatchWhere
<1>2. CASE Die
  BY <1>2 DEF Die, BatchWhere, disk, locals
<1>3. ASSUME NEW k \in Ops, EditTarget(k)
      PROVE  BatchWhere' /\ (seam = "closed" => seam' = "closed" /\ UNCHANGED <<evidence, snap>>)
  BY <1>3 DEF EditTarget, Edit, BatchWhere, locals
<1>4. CASE AbortRun
  BY <1>4 DEF AbortRun, BatchWhere
<1>5. CASE BeginIntent \/ StageRegistry
  BY <1>5 DEF BeginIntent, StageRegistry, SettleAs, batchVars, BatchWhere
<1>6. ASSUME NEW readable \in BOOLEAN, AfterBatch(readable) PROVE BatchWhere' /\ seam # "closed"
  BY <1>6 DEF AfterBatch, batchVars, BatchWhere
<1>7. CASE VerifyDigest \/ Promote \/ Unstage \/ Settle \/ DiscardPending
  BY <1>7 DEF VerifyDigest, Promote, Unstage, Settle, DiscardPending, SettleAs, batchVars,
              BatchWhere
<1>8. ASSUME NEW claimsSuccess \in BOOLEAN, NEW uncertainError \in BOOLEAN,
             EndRun(claimsSuccess, uncertainError)
      PROVE  BatchWhere' /\ seam # "closed"
  BY <1>8 DEF EndRun, batchVars, BatchWhere
<1>9. QED
  BY <1>1, <1>2, <1>3, <1>4, <1>5, <1>6, <1>7, <1>8 DEF CommitStep

----------------------------------------------------------------------------
(* The three files tell one story *)

\* Whoever the call returns to, or raises to, has been told how it ended.
LEMMA BatchTells ==
    ASSUME IInv, Told, BatchStep, UNCHANGED seam
    PROVE  Told'
<1> USE DEF Told, Return, Goto, HandlerOutcome
<1>1. ASSUME NEW other \in BOOLEAN, Preflight(other) PROVE Told'
  BY <1>1 DEF Preflight
<1>2. CASE TakeSnapshots \/ PersistIntent \/ PersistIntentFails
  BY <1>2 DEF TakeSnapshots, PersistIntent, PersistIntentFails
<1>3. CASE Stage \/ StageFails \/ CheckBase \/ Replace \/ ReplaceFails
  BY <1>3 DEF Stage, StageFails, CheckBase, Replace, ReplaceFails
<1>4. CASE PersistCommitted \/ PersistCommittedFails
  BY <1>4 DEF PersistCommitted, PersistCommittedFails
<1>5. CASE Restage \/ RollBackTarget \/ RollBackMode \/ RollBackFails \/ RollBackEnds
  BY <1>5 DEF Restage, RollBackTarget, RollBackMode, RollBackFails, RollBackEnds
<1>6. CASE DropRestaged \/ PersistFailure \/ PersistFailureFails \/ Discard
  BY <1>6 DEF DropRestaged, PersistFailure, PersistFailureFails, Discard
<1>7. CASE InterruptTry \/ InterruptPersist \/ Escape
  BY <1>7 DEF InterruptTry, InterruptPersist, Escape
<1>8. QED
  BY <1>1, <1>2, <1>3, <1>4, <1>5, <1>6, <1>7 DEF BatchStep

LEMMA InitStory == CommitInit => SInv
<1> SUFFICES ASSUME CommitInit PROVE SInv
  OBVIOUS
<1>1. IInv
  BY InitInv DEF CommitInit
<1>2. NewRecord \in Record /\ NewRecord.commits = << >>
  BY DEF NewRecord, Record, Lifecycles, Stages, ToolStates, Cycle
<1>3. /\ record \in Record /\ record.commits = << >> /\ record.lifecycle = "VERIFYING"
  BY <1>2 DEF CommitInit, Record, Lifecycles, Stages
<1>4. Small(record) /\ Word(record) = "none"
  BY <1>3 DEF Small, Word
<1>5. seam = "begin" /\ evidence = "none" /\ pc = "preflight" /\ ~pending /\ registry = "before"
  BY DEF CommitInit, Init
<1>6. Typing
  BY <1>4, <1>5 DEF Typing, Seams, CommitInit
<1>7. BatchWhere /\ Told
  BY <1>5 DEF BatchWhere, Told
<1>8. Place /\ Story
  BY <1>3, <1>4, <1>5 DEF Place, Story, Verdict
<1>9. QED
  BY <1>1, <1>6, <1>7, <1>8 DEF SInv

\* What a step of the run has to keep beside the batch's invariant.
Kept == Typing /\ Told /\ Place /\ Story

\* Before and during the call.
LEMMA BeforeKeeps ==
    ASSUME SInv, BeginIntent \/ StageRegistry \/ RunBatch
    PROVE  Kept'
<1> USE DEF Kept, SInv
<1>1. CASE BeginIntent
  <2>1. CASE record' = BeginCommit(record, TheTx) /\ seam' = IF contract THEN "register" ELSE "batch"
    <3>1. /\ Small(record') /\ Word(record') = "open" /\ record'.lifecycle = "COMMIT_ELIGIBLE"
          /\ NeedsRecovery(record')
      BY <1>1, <2>1, BeginSmall
         DEF BeginIntent, Place, Typing, NeedsRecovery, Terminal, Terminals
    <3>2. QED
      BY <1>1, <2>1, <3>1
         DEF BeginIntent, Typing, Seams, Told, Place, Story, Verdict, batchVars, registryVars, disk
  <2>2. CASE seam' = "ended" /\ UNCHANGED record
    BY <1>1, <2>2
       DEF BeginIntent, Typing, Seams, Told, Place, Story, Verdict, Delivered, batchVars,
           registryVars, disk
  <2>3. QED
    BY <1>1, <2>1, <2>2 DEF BeginIntent
<1>2. CASE StageRegistry
  BY <1>2
     DEF StageRegistry, SettleAs, Typing, Seams, Settled, Proven, Told, Place, Story, Proves,
         Verdict, batchVars, disk
<1>3. CASE RunBatch
  <2>1. Told' /\ seam = "batch" /\ UNCHANGED <<record, seam, result, contract, registry, pending>>
    BY <1>3, BatchTells DEF RunBatch, registryVars
  <2>2. Word(record') = "open" /\ registry' = "before" /\ record'.lifecycle # "SUCCESS"
    BY <2>1 DEF Place, Story
  <2>3. QED
    BY <2>1, <2>2 DEF Typing, Place, Story
<1>4. QED
  BY <1>1, <1>2, <1>3

\* The result that the evidence of a call that is over proves.
LEMMA SettledProves ==
    ASSUME IInv, Told, pc = "done", outcome \notin {"committed", "uncertain"},
           NEW readable \in BOOLEAN
    PROVE  SettledState(readable) \in Settled /\ Proves(SettledState(readable))
<1> DEFINE x == SettledState(readable)
<1>1. /\ x \in Settled
      /\ x = "COMMITTED" => evidence = "committed"
      /\ x = "ROLLED_BACK" => evidence = "rolled_back"
      /\ x = "NOT_COMMITTED" => evidence = "none"
  BY DEF SettledState, Settled, Proven
<1>2. CASE outcome = "raised"
  BY <1>1, <1>2 DEF Proves
<1>3. CASE outcome = "failed"
  <2>1. evidence \in {"none", "rolled_back"}
    BY <1>3 DEF IInv, AtDone
  <2>2. QED
    BY <1>1, <2>1 DEF Proves
<1>4. QED
  BY <1>2, <1>3 DEF IInv, TypeOK, Outcomes, Told

\* After the call, until its result is known.
LEMMA AfterKeeps ==
    ASSUME SInv,
           (\E readable \in BOOLEAN : AfterBatch(readable)) \/ VerifyDigest \/ Promote \/ Unstage
    PROVE  Kept'
<1> USE DEF Kept, SInv
<1>1. ASSUME NEW readable \in BOOLEAN, AfterBatch(readable) PROVE Kept'
  <2>1. /\ seam = "batch" /\ pc = "done"
        /\ UNCHANGED <<evidence, pc, outcome, record, contract, registry, pending>>
    BY <1>1 DEF AfterBatch, batchVars, disk, registryVars
  <2>2. /\ Word(record) = "open" /\ registry = "before" /\ record.lifecycle # "SUCCESS"
    BY <2>1 DEF Place, Story
  <2>3. CASE outcome = "committed"
    <3>1. seam' = "verify" /\ result' = result /\ evidence = "committed"
      BY <1>1, <2>1, <2>3 DEF AfterBatch, IInv, AtDone
    <3>2. QED
      BY <2>1, <2>2, <3>1 DEF Typing, Seams, Told, Place, Story, Verdict
  <2>4. CASE outcome # "committed"
    <3> DEFINE x == IF outcome = "uncertain" THEN "UNCERTAIN" ELSE SettledState(readable)
    <3>1. seam' = "settle" /\ result' = x
      BY <1>1, <2>4 DEF AfterBatch, SettleAs
    <3>2. x \in Settled /\ Proves(x)
      BY <2>1, <2>4, SettledProves DEF Settled, Proven, Proves
    <3> HIDE DEF x
    <3>3. Proves(x)'  <=> Proves(x)
      BY <2>1, <3>1 DEF Proves, Delivered, x, SettledState
    <3>4. QED
      BY <2>1, <2>2, <3>1, <3>2 DEF Typing, Seams, Told, Place, Story, Verdict, Proves, Delivered
  <2>5. QED
    BY <2>3, <2>4
<1>2. CASE VerifyDigest
  <2>1. /\ seam = "verify" /\ UNCHANGED <<evidence, pc, outcome, record, contract, registry, pending>>
        /\ \/ seam' = "settle" /\ result' = "UNCERTAIN"
           \/ contract /\ seam' = "promote" /\ result' = result
           \/ ~contract /\ seam' = "settle" /\ result' = "COMMITTED"
    BY <1>2 DEF VerifyDigest, SettleAs, batchVars, disk, registryVars
  <2>2. QED
    BY <2>1 DEF Typing, Seams, Settled, Proven, Told, Place, Story, Verdict, Proves, Delivered
<1>3. CASE Promote \/ Unstage
  BY <1>3
     DEF Promote, Unstage, SettleAs, batchVars, disk, Typing, Seams, Settled, Proven, Told,
         Place, Story, Verdict, Proves, Delivered
<1>4. QED
  BY <1>1, <1>2, <1>3

\* Recording the result, and the end of the run.
LEMMA EndKeeps ==
    ASSUME SInv,
           \/ Settle \/ DiscardPending
           \/ \E claims, uncertain \in BOOLEAN : EndRun(claims, uncertain)
    PROVE  Kept'
<1> USE DEF Kept, SInv
<1>1. CASE Settle
  <2>1. /\ seam = "settle" /\ UNCHANGED <<evidence, pc, outcome, result, contract, registry, pending>>
        /\ record' \in {record, SettleCommit(record, result)}
        /\ seam' = IF contract /\ result \in {"ROLLED_BACK", "NOT_COMMITTED"}
                   THEN "discard" ELSE "ended"
    BY <1>1 DEF Settle, batchVars, disk, registryVars
  <2>2. /\ result \in Settled /\ Proves(result) /\ Word(record) = "open"
        /\ record.lifecycle # "SUCCESS"
    BY <2>1 DEF Place, Story
  <2>3. /\ Small(record') /\ record'.lifecycle # "SUCCESS" /\ NeedsRecovery(record')
        /\ Word(record') = "open" \/ Word(record') = result
    BY <2>1, <2>2, SettleSmall DEF Typing, Story
  <2>4. Typing' /\ Told'
    BY <2>1, <2>3 DEF Typing, Seams, Told
  <2>5. Place'
    BY <2>1, <2>2 DEF Place, Proves
  <2>6. Verdict = "open" => Word(record') \in {"open", "UNCERTAIN"}
    BY <2>2, <2>3 DEF Verdict, Proves, Settled, Proven
  <2>7. CASE Word(record') = "open"
    <3>1. Story'
      BY <2>1, <2>2, <2>3, <2>7 DEF Story, Verdict
    <3>2. QED
      BY <2>4, <2>5, <3>1
  <2>8. CASE Word(record') = result
    <3>1. result # "none"
      BY <2>2 DEF Settled, Proven
    <3>2. Story'
      BY <2>1, <2>2, <2>3, <2>6, <2>8, <3>1 DEF Story, Verdict, Proves, Delivered
    <3>3. QED
      BY <2>4, <2>5, <3>2
  <2>9. QED
    BY <2>3, <2>7, <2>8
<1>2. CASE DiscardPending
  <2>1. /\ seam = "discard" /\ seam' = "ended" /\ pending' \in {pending, FALSE}
        /\ UNCHANGED <<evidence, pc, outcome, record, result, contract, registry>>
    BY <1>2 DEF DiscardPending, batchVars, disk
  <2>2. Typing' /\ Told'
    BY <2>1 DEF Typing, Seams, Told
  <2>3. Place'
    BY <2>1 DEF Place
  <2>4. Story'
    <3>1. CASE pending' = pending
      BY <2>1, <3>1 DEF Story, Verdict, Delivered
    <3>2. CASE pending' = FALSE
      BY <2>1, <3>2 DEF Story, Verdict, Delivered
    <3>3. QED
      BY <2>1, <3>1, <3>2
  <2>5. QED
    BY <2>2, <2>3, <2>4
<1>3. ASSUME NEW claims \in BOOLEAN, NEW uncertain \in BOOLEAN, EndRun(claims, uncertain)
      PROVE  Kept'
  <2>1. /\ seam = "ended" /\ seam' = "closed"
        /\ claims => outcome # "raised"
        /\ UNCHANGED <<evidence, pc, outcome, result, contract, registry, pending>>
    BY <1>3 DEF EndRun, batchVars, disk, registryVars
  <2>2. /\ Small(record')
        /\ Word(record') = Word(record) \/ (Word(record) = "open" /\ Word(record') = "UNCERTAIN")
        /\ record'.lifecycle = "SUCCESS" =>
              record' = record \/ (claims /\ Word(record) \in {"none", "COMMITTED"})
        /\ Word(record') \in {"open", "UNCERTAIN"} => NeedsRecovery(record')
    <3>1. CASE Terminal(record)
      BY <1>3, <3>1 DEF EndRun, Typing, Story
    <3>2. CASE ~Terminal(record) /\ claims /\ CanSucceed(record)
      BY <1>3, <3>2, SucceedSmall DEF EndRun, Typing
    <3>3. CASE ~Terminal(record) /\ ~(claims /\ CanSucceed(record))
      BY <1>3, <3>3, FailureSmall DEF EndRun, Typing
    <3>4. QED
      BY <3>1, <3>2, <3>3
  <2>3. Typing' /\ Told'
    BY <2>1, <2>2 DEF Typing, Seams, Told
  <2>4. Place'
    BY <2>1 DEF Place
  <2>5. Story'
    BY <2>1, <2>2 DEF Story, Verdict, Delivered
  <2>6. QED
    BY <2>3, <2>4, <2>5
<1>4. QED
  BY <1>1, <1>2, <1>3

\* What can happen at any time.
LEMMA AnytimeKeeps ==
    ASSUME SInv, AbortRun \/ Die \/ (\E k \in Ops : EditTarget(k)) \/ UNCHANGED commitVars
    PROVE  Kept'
<1> USE DEF Kept, SInv
<1>1. CASE AbortRun
  BY <1>1
     DEF AbortRun, disk, registryVars, Typing, Seams, Told, Place, Story, Verdict, Delivered
<1>2. CASE Die
  <2>1. /\ seam # "closed" /\ seam' = "closed"
        /\ pc = "done" => pc' = pc /\ outcome' = outcome
        /\ pc # "done" => pc' = "dead" /\ outcome' = "none"
        /\ UNCHANGED <<evidence, record, result, contract, registry, pending>>
    BY <1>2 DEF Die, disk, registryVars
  <2>2. Word(record) = "COMMITTED" => pc = "done"
    BY <2>1 DEF Place, Story, BatchWhere, Told, IInv, AtStart
  <2>3. Typing' /\ Told'
    BY <2>1 DEF Typing, Seams, Told
  <2>4. Place'
    BY <2>1 DEF Place
  <2>5. Story'
    BY <2>1, <2>2 DEF Story, Verdict, Delivered
  <2>6. QED
    BY <2>3, <2>4, <2>5
<1>3. CASE (\E k \in Ops : EditTarget(k)) \/ UNCHANGED commitVars
  <2>1. UNCHANGED <<evidence, pc, outcome, record, seam, result, contract, registry, pending>>
    BY <1>3 DEF EditTarget, Edit, commitVars, batchVars, disk, registryVars
  <2>2. QED
    BY <2>1 DEF Typing, Told, Place, Story, Verdict, Proves, Delivered
<1>4. QED
  BY <1>1, <1>2, <1>3

LEMMA NextStory == SInv /\ [CommitStep]_commitVars => SInv'
<1> SUFFICES ASSUME SInv, [CommitStep]_commitVars PROVE SInv'
  OBVIOUS
<1>1. IInv'
  BY CommitStepCases, NextInv, AbortInv, BatchIdle DEF SInv, commitVars
<1>2. BatchWhere'
  BY CommitStepWhere DEF SInv, BatchWhere, commitVars, batchVars
<1>3. Kept'
  BY BeforeKeeps, AfterKeeps, EndKeeps, AnytimeKeeps DEF CommitStep
<1>4. QED
  BY <1>1, <1>2, <1>3 DEF SInv, Kept

\* The strengthening that the properties below follow from.
THEOREM StoryHolds == CommitSpec => []SInv
<1>1. CommitInit => SInv
  BY InitStory
<1>2. SInv /\ [CommitStep]_commitVars => SInv'
  BY NextStory
<1>3. QED
  BY <1>1, <1>2, PTL DEF CommitSpec

\* Every variable of the run keeps its type and the record its single cycle
\* (commit_terminal_candidate begins a cycle once).
THEOREM CommitTypeCorrect == CommitSpec => []CommitTypeOK
<1>1. SInv => CommitTypeOK
  BY DEF SInv, IInv, Typing, Small, CommitTypeOK
<1>2. QED
  BY <1>1, StoryHolds, PTL

\* The record and the evidence, two files written one after the other, agree
\* wherever the process stops (commit_terminal_candidate, _settled_state).
THEOREM RecordAlwaysAgrees == CommitSpec => []RecordAgreesWithEvidence
<1>1. SInv => RecordAgreesWithEvidence
  <2> SUFFICES ASSUME SInv PROVE RecordAgreesWithEvidence
    OBVIOUS
  <2>1. /\ \A x \in Results : HasCycle(x) <=> Word(record) = x
        /\ OpenCycles(record) # {} <=> Word(record) \in {"open", "UNCERTAIN"}
    BY SmallRecord DEF SInv, Typing, HasCycle
  <2>2. QED
    BY <2>1 DEF RecordAgreesWithEvidence, SInv, Story, Results, Settled, Proven
<1>2. QED
  BY <1>1, StoryHolds, PTL

\* A run that ends in SUCCESS after a commit has delivered the candidate and
\* its contract registry (mark_run_success after commit_terminal_candidate).
THEOREM SuccessAlwaysDelivers == CommitSpec => []SuccessMeansDelivered
<1>1. SInv => SuccessMeansDelivered
  <2> SUFFICES ASSUME SInv, record.lifecycle = "SUCCESS", record.commits # << >>
               PROVE  /\ \A k \in Ops : file[k] \in {"new", "other"}
                      /\ registry = IF contract THEN "after" ELSE "before"
                      /\ ~pending
    BY DEF SuccessMeansDelivered
  <2>1. Word(record) = "COMMITTED" /\ Delivered
    BY SmallRecord DEF SInv, Typing, Story
  <2>2. evidence = "committed"
    BY <2>1 DEF SInv, Story
  <2>3. Written(Ops)
    BY <2>2 DEF SInv, IInv, Always
  <2>4. QED
    BY <2>1, <2>3 DEF Written, Delivered, SInv, Story, Typing
<1>2. QED
  BY <1>1, StoryHolds, PTL

\* The live contract registry is written only after COMMITTED evidence
\* (promote_pending_contract_registry).
THEOREM RegistryNeverRunsAhead == CommitSpec => []RegistryNeverAhead
<1>1. SInv => RegistryNeverAhead
  BY DEF SInv, Story, RegistryNeverAhead
<1>2. QED
  BY <1>1, StoryHolds, PTL
=============================================================================
