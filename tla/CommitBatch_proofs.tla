------------------------- MODULE CommitBatch_proofs -------------------------
(***************************************************************************)
(* Theorems about CommitBatch for every batch size, every choice of        *)
(* deletes and modes, and any number of external edits.                    *)
(*                                                                         *)
(* IInv says, for each place the code can be at, what the targets, the     *)
(* staged copies and the evidence look like there.                         *)
(***************************************************************************)
EXTENDS CommitBatch, TLAPS

Untouched(S) == \A k \in S : file[k] \in {"base", "other"}
Written(S) == \A k \in S : file[k] \in {"new", "other"}
Copied(S) == S \cap Writes \subseteq staged
CopiedOrLost == Writes \subseteq staged \cup lost

\* What holds wherever the code is, and after a crash.
Always ==
    /\ \A k \in Ops : snap[k] \in {"base", "other"}
    /\ evidence \in {"none", "rolled_back"} => Untouched(Ops)
    /\ evidence = "committed" => Written(Ops)
    /\ orphans # {} => interrupted \/ outcome = "raised" \/ pc = "dead"
    /\ outcome # "none" => pc \in {"discard", "done"}

AtStart ==
    pc \in {"preflight", "snapshot", "intent"} =>
        /\ evidence = "none"
        /\ staged = {} /\ orphans = {}
        /\ applied = 0 /\ ~started /\ ~rollbackErrors /\ ~interrupted

AtStage ==
    pc = "stage" =>
        /\ evidence = "in_progress"
        /\ Untouched(Ops)
        /\ cursor \in Ops
        /\ Copied(1..(cursor - 1))
        /\ applied = 0 /\ ~started /\ ~rollbackErrors /\ ~interrupted

AtApply ==
    pc \in {"check", "replace"} =>
        /\ evidence = "in_progress"
        /\ cursor \in Ops
        /\ applied = IF pc = "check" THEN cursor - 1 ELSE cursor
        /\ Written(1..(cursor - 1))
        /\ Untouched(cursor..N)
        /\ Copied(cursor..N) /\ staged \subseteq cursor..N
        /\ started /\ ~rollbackErrors /\ ~interrupted

AtCommit ==
    pc = "commit" =>
        /\ evidence = "in_progress"
        /\ Written(Ops)
        /\ staged = {} /\ ~interrupted

AtRestage ==
    pc = "restage" =>
        /\ evidence = "in_progress"
        /\ Untouched((applied + 1)..N)
        /\ started => Copied((applied + 1)..N)
        /\ ~started => applied = 0
        /\ ~rollbackErrors

AtRollBack ==
    pc \in {"rollback", "chmod"} =>
        /\ evidence = "in_progress"
        /\ cursor \in 0..applied
        /\ pc = "chmod" => cursor > 0 /\ file[cursor] \in {"unmoded", "other"}
        /\ ~rollbackErrors => Untouched((cursor + 1)..N)
        /\ started => CopiedOrLost
        /\ ~started => applied = 0 /\ ~rollbackErrors

AtSettle ==
    pc \in {"drop", "settle"} =>
        /\ evidence = "in_progress"
        /\ ~rollbackErrors => Untouched(Ops)
        /\ rollbackErrors => started /\ CopiedOrLost

AtDiscard ==
    pc = "discard" =>
        /\ Untouched(Ops)
        /\ outcome = "failed" => evidence = "rolled_back" /\ orphans = {}
        /\ outcome # "committed"

AtDone ==
    pc = "done" =>
        /\ outcome = "committed" => evidence = "committed"
        /\ outcome = "failed" => evidence \in {"none", "rolled_back"}
        /\ outcome \in {"committed", "failed"} => staged = {} /\ orphans = {}

IInv ==
    /\ TypeOK
    /\ PartialCommitCanBeCompleted
    /\ Always /\ AtStart /\ AtStage /\ AtApply /\ AtCommit /\ AtRestage
    /\ AtRollBack /\ AtSettle /\ AtDiscard /\ AtDone

----------------------------------------------------------------------------
(* The invariant is inductive *)

LEMMA InitInv == Init => IInv
<1> SUFFICES ASSUME Init PROVE IInv
  OBVIOUS
<1>1. TypeOK
  <2>1. file \in [Ops -> Values] /\ snap \in [Ops -> Values]
    BY DEF Init, Values
  <2>2. /\ edits \in 0..MaxEdits /\ applied \in 0..N /\ cursor \in 0..N
    BY BatchAssumption DEF Init
  <2>3. /\ staged \subseteq Writes /\ orphans \subseteq Writes
        /\ restaged \subseteq Writes /\ lost \subseteq Writes
    BY DEF Init
  <2>4. /\ durable \in BOOLEAN /\ started \in BOOLEAN
        /\ rollbackErrors \in BOOLEAN /\ interrupted \in BOOLEAN
    BY DEF Init
  <2>5. evidence = "none" /\ pc \in PCs /\ outcome \in Outcomes
    BY DEF Init, PCs, Outcomes
  <2>6. QED
    BY <2>1, <2>2, <2>3, <2>4, <2>5 DEF TypeOK
<1>2. \A k \in Ops : file[k] = "base" /\ snap[k] = "base"
  BY DEF Init
<1>3. PartialCommitCanBeCompleted
  BY <1>2 DEF PartialCommitCanBeCompleted
<1>4. Always
  BY <1>2 DEF Init, Always, Untouched
<1>5. AtStart
  BY DEF Init, AtStart
<1>6. /\ AtStage /\ AtApply /\ AtCommit /\ AtRestage
      /\ AtRollBack /\ AtSettle /\ AtDiscard /\ AtDone
  BY DEF Init, AtStage, AtApply, AtCommit, AtRestage, AtRollBack, AtSettle, AtDiscard, AtDone
<1>7. QED
  BY <1>1, <1>3, <1>4, <1>5, <1>6 DEF IInv

LEMMA NextInv == IInv /\ [Next]_vars => IInv'
<1> SUFFICES ASSUME IInv, [Next]_vars PROVE IInv'
  OBVIOUS
<1> USE BatchAssumption
    DEF IInv, TypeOK, PCs, Outcomes, Values, Ops, Writes, PartialCommitCanBeCompleted,
        Verdict, Always, AtStart, AtStage, AtApply, AtCommit, AtRestage, AtRollBack,
        AtSettle, AtDiscard, AtDone, Untouched, Written, Copied, CopiedOrLost,
        Return, Goto, disk, locals
<1>1. ASSUME NEW otherUncertain \in BOOLEAN, Preflight(otherUncertain) PROVE IInv'
  BY <1>1, SMTT(30) DEF Preflight
<1>2. ASSUME TakeSnapshots PROVE IInv'
  BY <1>2, SMTT(30) DEF TakeSnapshots
<1>3. ASSUME PersistIntent PROVE IInv'
  BY <1>3, SMTT(30) DEF PersistIntent
<1>4. ASSUME PersistIntentFails PROVE IInv'
  BY <1>4, SMTT(30) DEF PersistIntentFails
<1>5. ASSUME Stage PROVE IInv'
  <2>1. CASE cursor = N
    BY <1>5, <2>1, SMTT(30) DEF Stage
  <2>2. CASE cursor # N
    BY <1>5, <2>2, SMTT(30) DEF Stage
  <2>3. QED
    BY <2>1, <2>2
<1>6. ASSUME StageFails PROVE IInv'
  BY <1>6, SMTT(30) DEF StageFails
<1>7. ASSUME CheckBase PROVE IInv'
  BY <1>7, SMTT(30) DEF CheckBase
<1>8. ASSUME Replace PROVE IInv'
  BY <1>8, SMTT(30) DEF Replace
<1>9. ASSUME ReplaceFails PROVE IInv'
  <2>1. CASE UNCHANGED <<file, staged>>
    BY <1>9, <2>1, SMTT(30) DEF ReplaceFails
  <2>2. CASE file' = [file EXCEPT ![cursor] = "new"] /\ staged' = staged \ {cursor}
    BY <1>9, <2>2, SMTT(30) DEF ReplaceFails
  <2>3. QED
    BY <1>9, <2>1, <2>2 DEF ReplaceFails
<1>10. ASSUME PersistCommitted PROVE IInv'
  BY <1>10, SMTT(30) DEF PersistCommitted
<1>11. ASSUME PersistCommittedFails PROVE IInv'
  BY <1>11, SMTT(30) DEF PersistCommittedFails, RestageConsumed
<1>12. ASSUME Restage PROVE IInv'
  BY <1>12, SMTT(30) DEF Restage, RestageConsumed
<1>13. ASSUME RollBackTarget PROVE IInv'
  BY <1>13, SMTT(30) DEF RollBackTarget
<1>14. ASSUME RollBackMode PROVE IInv'
  BY <1>14, SMTT(30) DEF RollBackMode
<1>15. ASSUME RollBackFails PROVE IInv'
  BY <1>15, SMTT(30) DEF RollBackFails
<1>16. ASSUME RollBackEnds PROVE IInv'
  BY <1>16, SMTT(30) DEF RollBackEnds
<1>17. ASSUME DropRestaged PROVE IInv'
  <2>1. CASE rollbackErrors \/ staged \cap restaged = {}
    <3>1. pc' = "settle" /\ UNCHANGED outcome
      BY <1>17, <2>1 DEF DropRestaged
    <3>2. UNCHANGED <<file, edits, evidence, durable, staged, orphans, locals>>
      BY <1>17, <2>1 DEF DropRestaged
    <3>3. pc = "drop"
      BY <1>17 DEF DropRestaged
    <3>4. QED
      BY <3>1, <3>2, <3>3, SMTT(30)
  <2>2. CASE ~(rollbackErrors \/ staged \cap restaged = {})
    <3>1. PICK k \in staged \cap restaged : staged' = staged \ {k}
      BY <1>17, <2>2 DEF DropRestaged
    <3>2. staged' \subseteq staged
      BY <3>1
    <3>3. UNCHANGED <<file, edits, evidence, durable, orphans, locals, pc, outcome>>
      BY <1>17, <2>2 DEF DropRestaged
    <3>4. pc = "drop" /\ ~rollbackErrors
      BY <1>17, <2>2 DEF DropRestaged
    <3>5. QED
      BY <3>2, <3>3, <3>4, SMTT(30)
  <2>3. QED
    BY <2>1, <2>2
<1>18. ASSUME PersistFailure PROVE IInv'
  BY <1>18, SMTT(30) DEF PersistFailure, HandlerOutcome
<1>19. ASSUME PersistFailureFails PROVE IInv'
  BY <1>19, SMTT(30) DEF PersistFailureFails, HandlerOutcome
<1>20. ASSUME Discard PROVE IInv'
  <2>1. CASE staged = {}
    BY <1>20, <2>1, SMTT(30) DEF Discard
  <2>2. CASE staged # {}
    <3>1. PICK k \in staged : staged' = staged \ {k}
      BY <1>20, <2>2 DEF Discard
    <3>2. staged' \subseteq staged
      BY <3>1
    <3>3. UNCHANGED <<file, edits, evidence, durable, orphans, locals, pc, outcome>>
      BY <1>20, <2>2 DEF Discard
    <3>4. pc = "discard"
      BY <1>20 DEF Discard
    <3>5. QED
      BY <3>2, <3>3, <3>4, SMTT(30)
  <2>3. QED
    BY <2>1, <2>2
<1>21. ASSUME InterruptTry PROVE IInv'
  <2>1. CASE UNCHANGED <<file, staged, orphans>>
    BY <1>21, <2>1, SMTT(30) DEF InterruptTry
  <2>2. CASE /\ pc = "stage" /\ cursor \in Writes
             /\ orphans' = orphans \cup {cursor}
             /\ UNCHANGED <<file, staged>>
    BY <1>21, <2>2, SMTT(30) DEF InterruptTry
  <2>3. CASE /\ pc = "replace"
             /\ file' = [file EXCEPT ![cursor] = "new"]
             /\ staged' = staged \ {cursor}
             /\ UNCHANGED orphans
    BY <1>21, <2>3, SMTT(30) DEF InterruptTry
  <2>4. QED
    BY <1>21, <2>1, <2>2, <2>3 DEF InterruptTry
<1>22. ASSUME InterruptPersist PROVE IInv'
  <2>1. CASE pc = "intent"
    <3>1. evidence' \in {"none", "in_progress"} /\ durable' \in BOOLEAN /\ pc' = "done"
      BY <1>22, <2>1 DEF InterruptPersist
    <3>2. outcome' = "raised" /\ UNCHANGED <<file, edits, staged, orphans, locals>>
      BY <1>22 DEF InterruptPersist
    <3>3. QED
      BY <2>1, <3>1, <3>2, SMTT(30)
  <2>2. CASE pc = "commit"
    <3>1. evidence' \in {"in_progress", "committed"} /\ durable' \in BOOLEAN /\ pc' = "done"
      BY <1>22, <2>2 DEF InterruptPersist
    <3>2. outcome' = "raised" /\ UNCHANGED <<file, edits, staged, orphans, locals>>
      BY <1>22 DEF InterruptPersist
    <3>3. QED
      BY <2>2, <3>1, <3>2, SMTT(30)
  <2>3. CASE pc = "settle"
    <3>1. /\ evidence' \in {"in_progress", "uncertain", "rolled_back"}
          /\ evidence' = "rolled_back" => ~rollbackErrors
          /\ durable' \in BOOLEAN
          /\ pc' \in {"discard", "done"}
          /\ pc' = "discard" => ~started
      BY <1>22, <2>3 DEF InterruptPersist
    <3>2. outcome' = "raised" /\ UNCHANGED <<file, edits, staged, orphans, locals>>
      BY <1>22 DEF InterruptPersist
    <3>3. QED
      BY <2>3, <3>1, <3>2, SMTT(30)
  <2>4. QED
    BY <1>22, <2>1, <2>2, <2>3 DEF InterruptPersist
<1>23. ASSUME Escape PROVE IInv'
  <2>1. /\ pc \in {"preflight", "snapshot", "restage", "rollback", "chmod", "drop", "discard"}
        /\ pc' = IF pc \in {"restage", "rollback", "chmod", "drop"} /\ ~started
                 THEN "discard" ELSE "done"
        /\ outcome' = "raised"
        /\ UNCHANGED <<file, edits, evidence, durable, staged, locals>>
    BY <1>23 DEF Escape
  <2>2. orphans' \subseteq Writes
    BY <1>23 DEF Escape
  <2>3. QED
    BY <2>1, <2>2, SMTT(30)
<1>24. ASSUME Crash PROVE IInv'
  BY <1>24, SMTT(30) DEF Crash
<1>25. ASSUME NEW k \in Ops, Edit(k) PROVE IInv'
  BY <1>25, SMTT(30) DEF Edit
<1>26. CASE UNCHANGED vars
  BY <1>26, SMTT(30) DEF vars
<1>27. QED
  BY <1>1, <1>2, <1>3, <1>4, <1>5, <1>6, <1>7, <1>8, <1>9, <1>10, <1>11, <1>12, <1>13, <1>14, <1>15, <1>16, <1>17, <1>18, <1>19, <1>20, <1>21, <1>22, <1>23, <1>24, <1>25, <1>26 DEF Next, BatchStep

\* The inductive invariant holds in every reachable state.
THEOREM InvariantHolds == Spec => []IInv
<1>1. Init => IInv
  BY InitInv
<1>2. IInv /\ [Next]_vars => IInv'
  BY NextInv
<1>3. QED
  BY <1>1, <1>2, PTL DEF Spec

\* Every variable keeps its type.
THEOREM TypeCorrect == Spec => []TypeOK
<1>1. IInv => TypeOK
  BY DEF IInv
<1>2. QED
  BY <1>1, InvariantHolds, PTL

\* A committed result is backed by COMMITTED evidence, and an ordinary failure
\* leaves nothing of the batch behind.
THEOREM CallerAlwaysToldTheTruth == Spec => []CallerToldTheTruth
<1>1. IInv => CallerToldTheTruth
  <2> SUFFICES ASSUME IInv PROVE CallerToldTheTruth
    OBVIOUS
  <2>1. outcome \in {"committed", "failed"} => pc \in {"discard", "done"}
    BY DEF IInv, Always
  <2>2. outcome = "failed" => evidence \in {"none", "rolled_back"}
    BY <2>1 DEF IInv, AtDiscard, AtDone
  <2>3. outcome = "committed" => evidence = "committed"
    BY <2>1 DEF IInv, AtDiscard, AtDone
  <2>4. QED
    BY <2>2, <2>3 DEF IInv, Always, Untouched, CallerToldTheTruth
<1>2. QED
  BY <1>1, InvariantHolds, PTL

\* Whatever fails, a partly applied open transaction keeps a copy of every
\* candidate it has not applied, unless the copy itself could not be written.
THEOREM PartialCommitAlwaysCompletable == Spec => []PartialCommitCanBeCompleted
<1>1. IInv => PartialCommitCanBeCompleted
  BY DEF IInv
<1>2. QED
  BY <1>1, InvariantHolds, PTL

\* A batch that reports a settled result has removed its temp files.
THEOREM SettledBatchAlwaysClean == Spec => []SettledBatchLeavesNoCopy
<1>1. IInv => SettledBatchLeavesNoCopy
  BY DEF IInv, AtDone, SettledBatchLeavesNoCopy
<1>2. QED
  BY <1>1, InvariantHolds, PTL

----------------------------------------------------------------------------
(* The batch implements AtomicCommit *)

\* A step that leaves targets, edits and verdict alone is a stutter there.
LEMMA Stutters ==
    ASSUME UNCHANGED <<file, edits>>, Verdict' = Verdict
    PROVE  [Atomic!Next]_(Atomic!vars)
BY DEF Atomic!vars

\* A step that writes targets while the evidence says the commit is open.
LEMMA Works ==
    ASSUME TypeOK', Verdict = "open", Verdict' = "open", UNCHANGED edits
    PROVE  [Atomic!Next]_(Atomic!vars)
BY DEF TypeOK, Values, Atomic!Next, Atomic!Work, Atomic!Values

LEMMA InitMaps == Init => Atomic!Init
BY DEF Init, Atomic!Init, Verdict

LEMMA NextMaps == IInv /\ IInv' /\ [Next]_vars => [Atomic!Next]_(Atomic!vars)
<1> SUFFICES ASSUME IInv, IInv', [Next]_vars PROVE [Atomic!Next]_(Atomic!vars)
  OBVIOUS
<1>0. TypeOK /\ TypeOK'
  BY DEF IInv
<1>1. CASE PersistIntent
  <2>1. Verdict = "none" /\ Verdict' = "open" /\ UNCHANGED <<file, edits>>
    BY <1>1 DEF PersistIntent, IInv, AtStart, Verdict
  <2>2. QED
    BY <2>1 DEF Atomic!Next, Atomic!Open
<1>2. CASE Replace \/ ReplaceFails \/ RollBackTarget \/ RollBackMode \/ InterruptTry
  <2>1. /\ evidence = "in_progress" /\ UNCHANGED <<edits, evidence>>
    BY <1>2 DEF Replace, ReplaceFails, RollBackTarget, RollBackMode, InterruptTry,
                IInv, AtApply, AtRollBack, AtStage
  <2>2. QED
    BY <1>0, <2>1, Works DEF Verdict
<1>3. CASE PersistCommitted
  <2>1. /\ Verdict = "open" /\ Verdict' = "committed" /\ UNCHANGED <<file, edits>>
        /\ \A k \in Ops : file[k] \in {"new", "other"}
    BY <1>3 DEF PersistCommitted, IInv, AtCommit, Written, Verdict
  <2>2. QED
    BY <2>1 DEF Atomic!Next, Atomic!Commit
<1>4. CASE PersistFailure
  <2>1. evidence = "in_progress" /\ UNCHANGED <<file, edits>>
    BY <1>4 DEF PersistFailure, IInv, AtSettle
  <2>2. CASE rollbackErrors
    BY <1>4, <2>1, <2>2, Stutters DEF PersistFailure, Verdict
  <2>3. CASE ~rollbackErrors
    <3>1. /\ Verdict = "open" /\ Verdict' = "rolled_back"
          /\ \A k \in Ops : file[k] \in {"base", "other"}
      BY <1>4, <2>1, <2>3 DEF PersistFailure, IInv, AtSettle, Untouched, Verdict
    <3>2. QED
      BY <2>1, <3>1 DEF Atomic!Next, Atomic!RollBack
  <2>4. QED
    BY <2>2, <2>3
<1>5. CASE InterruptPersist
  <2>1. UNCHANGED <<file, edits>>
    BY <1>5 DEF InterruptPersist
  <2>2. CASE UNCHANGED evidence
    BY <2>1, <2>2, Stutters DEF Verdict
  <2>3. CASE pc = "intent" /\ evidence' = "in_progress"
    BY <2>1, <2>3 DEF IInv, AtStart, Verdict, Atomic!Next, Atomic!Open
  <2>4. CASE pc = "commit" /\ evidence' = "committed"
    BY <2>1, <2>4 DEF IInv, AtCommit, Written, Verdict, Atomic!Next, Atomic!Commit
  <2>5. CASE pc = "settle" /\ evidence' = "uncertain"
    BY <2>1, <2>5, Stutters DEF IInv, AtSettle, Verdict
  <2>6. CASE pc = "settle" /\ ~rollbackErrors /\ evidence' = "rolled_back"
    BY <2>1, <2>6 DEF IInv, AtSettle, Untouched, Verdict, Atomic!Next, Atomic!RollBack
  <2>7. QED
    BY <1>5, <2>2, <2>3, <2>4, <2>5, <2>6 DEF InterruptPersist
<1>6. ASSUME NEW k \in Ops, Edit(k) PROVE [Atomic!Next]_(Atomic!vars)
  <2>1. Verdict' = Verdict
    BY <1>6 DEF Edit, Verdict
  <2>2. QED
    BY <1>6, <2>1 DEF Edit, Atomic!Next, Atomic!Edit
<1>7. CASE UNCHANGED <<file, edits, evidence>>
  BY <1>7, Stutters DEF Verdict
<1>8. QED
  BY <1>1, <1>2, <1>3, <1>4, <1>5, <1>6, <1>7
     DEF Next, BatchStep, Preflight, TakeSnapshots, PersistIntentFails, Stage, StageFails, CheckBase,
         PersistCommittedFails, Restage, RollBackFails, RollBackEnds, DropRestaged,
         PersistFailureFails, Discard, Escape, Crash, disk, vars

\* The detailed transaction implements the promised one: its targets change
\* only while it is open, and it settles only on an exact workspace.
THEOREM BatchImplementsAtomicCommit == Spec => ImplementsAtomicCommit
<1>1. IInv /\ [Next]_vars => IInv'
  BY NextInv
<1>2. QED
  BY <1>1, InitMaps, NextMaps, InvariantHolds, PTL DEF Spec, ImplementsAtomicCommit, Atomic!Spec
=============================================================================
