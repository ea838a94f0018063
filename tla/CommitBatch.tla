---------------------------- MODULE CommitBatch ----------------------------
(***************************************************************************)
(* commit_revision_grounded_batch of kriya/repository/commit.py: one       *)
(* source transaction over N targets, step by step, with every I/O fault,  *)
(* interrupt, crash and external edit that can fall between its steps.     *)
(*                                                                         *)
(* A target is known by its position in the batch (duplicates and aliases  *)
(* are refused by the preflight), its bytes and mode together are one      *)
(* abstract value, and an absent file is the "base" of a create and the    *)
(* "new" of a delete.  Left out: created parent directories, the text of   *)
(* errors, and the shape checks of the preflight (containment, links,      *)
(* directories), which refuse the batch before anything is written.        *)
(***************************************************************************)
EXTENDS Naturals

CONSTANTS
    N,          \* number of operations in the batch
    Deletes,    \* the operations that delete their target
    OddMode,    \* targets whose original mode is not the default of a new file
    MaxEdits    \* bound on the writes of somebody else

ASSUME BatchAssumption ==
    /\ N \in Nat \ {0}
    /\ Deletes \subseteq 1..N
    /\ OddMode \subseteq 1..N
    /\ MaxEdits \in Nat

Ops == 1..N
Writes == Ops \ Deletes
Values == {"base", "new", "other", "unmoded"}

VARIABLES
    file,         \* file[k]: what target k holds
    edits,        \* number of writes by somebody else
    evidence,     \* the CommitState in the evidence file, "none" without one
    durable,      \* the evidence file is known to survive a power loss
    staged,       \* operations whose staged copy is in staged_paths
    orphans,      \* operations with a staged copy that nothing refers to
    restaged,     \* operations whose consumed copy was re-created
    lost,         \* operations whose consumed copy could not be re-created
    snap,         \* snapshots[k]
    applied,      \* operations 1..applied are in the list `applied`
    cursor,       \* the operation the current loop is at
    started,      \* mutation_started
    rollbackErrors,
    interrupted,  \* the failure is an interrupt, which is re-raised unchanged
    pc,           \* where the code is
    outcome       \* what the caller is told

disk == <<file, edits, evidence, durable, staged, orphans>>
locals == <<restaged, lost, snap, applied, cursor, started, rollbackErrors, interrupted>>
vars == <<disk, locals, pc, outcome>>

PCs == {"preflight", "snapshot", "intent", "stage", "check", "replace",
        "commit", "restage", "rollback", "chmod", "drop", "settle",
        "discard", "done", "dead"}

\* "failed" is a BatchCommitError or FileRevisionConflict, "uncertain" an
\* UncertainCommitError, "raised" any other exception, an interrupt for one.
Outcomes == {"none", "committed", "failed", "uncertain", "raised"}

Return(result) == pc' = "done" /\ outcome' = result

Goto(label) == pc' = label /\ UNCHANGED outcome

----------------------------------------------------------------------------
(* Before anything is written *)

\* _preflight_batch: every target still holds its base, or nothing happens.
\* Then the batch is refused while another commit of the workspace is uncertain.
Preflight(otherUncertain) ==
    /\ pc = "preflight"
    /\ IF \E k \in Ops : file[k] # "base" THEN Return("failed")
       ELSE IF otherUncertain THEN Return("uncertain")
       ELSE Goto("snapshot")
    /\ UNCHANGED <<disk, locals>>

\* Every target's bytes and mode are read once more.
TakeSnapshots ==
    /\ pc = "snapshot"
    /\ snap' = file
    /\ Goto("intent")
    /\ UNCHANGED <<disk, restaged, lost, applied, cursor, started, rollbackErrors, interrupted>>

\* IN_PROGRESS evidence: temp file, fsync, replace, then a directory fsync
\* whose failure is swallowed (_fsync_directory is best effort here).
PersistIntent ==
    /\ pc = "intent"
    /\ evidence' = "in_progress"
    /\ durable' \in BOOLEAN
    /\ Goto("stage")
    /\ cursor' = 1
    /\ UNCHANGED <<file, edits, staged, orphans, restaged, lost, snap, applied, started,
                   rollbackErrors, interrupted>>

PersistIntentFails ==
    /\ pc = "intent"
    /\ Return("failed")
    /\ UNCHANGED <<disk, locals>>

----------------------------------------------------------------------------
(* Staging and applying *)

\* _stage_content beside the target; a delete stages nothing.
Stage ==
    /\ pc = "stage"
    /\ staged' = IF cursor \in Writes THEN staged \cup {cursor} ELSE staged
    /\ IF cursor = N
       THEN Goto("check") /\ cursor' = 1 /\ started' = TRUE
       ELSE cursor' = cursor + 1 /\ UNCHANGED <<pc, outcome, started>>
    /\ UNCHANGED <<file, edits, evidence, durable, orphans, restaged, lost, snap, applied,
                   rollbackErrors, interrupted>>

\* The base is re-checked right before the target is replaced ...
CheckBase ==
    /\ pc = "check"
    /\ IF file[cursor] = "base"
       THEN Goto("replace") /\ applied' = cursor
       ELSE Goto("restage") /\ UNCHANGED applied
    /\ UNCHANGED <<disk, restaged, lost, snap, cursor, started, rollbackErrors, interrupted>>

\* ... but replacing it is another system call: whatever was written in between
\* is overwritten.  A write consumes its staged copy.
Replace ==
    /\ pc = "replace"
    /\ file' = [file EXCEPT ![cursor] = "new"]
    /\ staged' = staged \ {cursor}
    /\ IF cursor = N
       THEN Goto("commit") /\ UNCHANGED cursor
       ELSE Goto("check") /\ cursor' = cursor + 1
    /\ UNCHANGED <<edits, evidence, durable, orphans, restaged, lost, snap, applied, started,
                   rollbackErrors, interrupted>>

\* The call raises, before or after its effect.
ReplaceFails ==
    /\ pc = "replace"
    /\ \/ UNCHANGED <<file, staged>>
       \/ file' = [file EXCEPT ![cursor] = "new"] /\ staged' = staged \ {cursor}
    /\ Goto("restage")
    /\ UNCHANGED <<edits, evidence, durable, orphans, locals>>

\* A write or read in the try block fails before it has any effect.
StageFails ==
    /\ pc \in {"stage", "check"}
    /\ Goto("restage")
    /\ UNCHANGED <<disk, locals>>

\* Faulty variant: a delete is given a copy as well.
RestageDeletesToo(ops) ==
    \E made \in SUBSET (ops \ staged) :
       /\ staged' = staged \cup made
       /\ restaged' = restaged \cup made
       /\ lost' = lost \cup ((ops \ staged) \ made)

\* Faulty variant: what applying consumed is not preserved.
RestageNothing(ops) == UNCHANGED <<staged, restaged, lost>>

\* _restage_consumed_candidates: re-create the copies that applying ops has
\* consumed; each one can fail, which is reported and hides nothing.
RestageConsumed(ops) ==
    LET missing == (ops \cap Writes) \ staged
    IN  \E made \in SUBSET missing :
          /\ staged' = staged \cup made
          /\ restaged' = restaged \cup made
          /\ lost' = lost \cup (missing \ made)

\* COMMITTED evidence.
PersistCommitted ==
    /\ pc = "commit"
    /\ evidence' = "committed"
    /\ durable' \in BOOLEAN
    /\ Return("committed")
    /\ UNCHANGED <<file, edits, staged, orphans, locals>>

\* ... cannot be written: the evidence stays IN_PROGRESS and every consumed
\* copy is re-created, as far as that is possible.
PersistCommittedFails ==
    /\ pc = "commit"
    /\ RestageConsumed(Ops)
    /\ Return("uncertain")
    /\ UNCHANGED <<file, edits, evidence, durable, orphans, snap, applied, cursor,
                   started, rollbackErrors, interrupted>>

----------------------------------------------------------------------------
(* The failure handler *)

\* The consumed copies are re-created before the rollback takes the only bytes
\* away; then the rollback starts at the last target.
Restage ==
    /\ pc = "restage"
    /\ RestageConsumed(1..applied)
    /\ cursor' = applied
    /\ Goto("rollback")
    /\ UNCHANGED <<file, edits, evidence, durable, orphans, snap, applied, started,
                   rollbackErrors, interrupted>>

\* Faulty variant: the bytes of a target are restored and its mode is not.
RollBackBytesOnly ==
    /\ pc = "rollback"
    /\ cursor > 0
    /\ file' = [file EXCEPT ![cursor] = IF cursor \in OddMode THEN "unmoded" ELSE snap[cursor]]
    /\ cursor' = cursor - 1
    /\ UNCHANGED <<edits, evidence, durable, staged, orphans, restaged, lost, snap, applied,
                   started, rollbackErrors, interrupted, pc, outcome>>

\* The applied targets are restored from their snapshots in reverse order,
\* bytes first and mode second, whatever they hold by now.
RollBackTarget ==
    /\ pc = "rollback"
    /\ cursor > 0
    /\ IF cursor \in OddMode
       THEN file' = [file EXCEPT ![cursor] = "unmoded"] /\ Goto("chmod") /\ UNCHANGED cursor
       ELSE file' = [file EXCEPT ![cursor] = snap[cursor]] /\ cursor' = cursor - 1
            /\ UNCHANGED <<pc, outcome>>
    /\ UNCHANGED <<edits, evidence, durable, staged, orphans, restaged, lost, snap, applied,
                   started, rollbackErrors, interrupted>>

RollBackMode ==
    /\ pc = "chmod"
    /\ file' = [file EXCEPT ![cursor] = IF file[cursor] = "unmoded" THEN snap[cursor] ELSE @]
    /\ cursor' = cursor - 1
    /\ Goto("rollback")
    /\ UNCHANGED <<edits, evidence, durable, staged, orphans, restaged, lost, snap, applied,
                   started, rollbackErrors, interrupted>>

\* Restoring a target fails: it stays as it is and the loop goes on.
RollBackFails ==
    /\ pc \in {"rollback", "chmod"}
    /\ cursor > 0
    /\ rollbackErrors' = TRUE
    /\ cursor' = cursor - 1
    /\ Goto("rollback")
    /\ UNCHANGED <<disk, restaged, lost, snap, applied, started, interrupted>>

RollBackEnds ==
    /\ pc = "rollback"
    /\ cursor = 0
    /\ Goto("drop")
    /\ UNCHANGED <<disk, locals>>

\* With every applied path restored, the re-created copies are dropped.
DropRestaged ==
    /\ pc = "drop"
    /\ IF rollbackErrors \/ staged \cap restaged = {}
       THEN Goto("settle") /\ UNCHANGED staged
       ELSE /\ \E k \in staged \cap restaged : staged' = staged \ {k}
            /\ UNCHANGED <<pc, outcome>>
    /\ UNCHANGED <<file, edits, evidence, durable, orphans, locals>>

\* Faulty variant: a rolled-back batch is an ordinary failure even when its
\* evidence could not be written.
HandlerOutcomeOfRollback(settled) ==
    IF interrupted THEN "raised"
    ELSE IF rollbackErrors THEN "uncertain" ELSE "failed"

\* What the handler raises; settled says that its evidence was written.
HandlerOutcome(settled) ==
    IF interrupted THEN "raised"
    ELSE IF rollbackErrors \/ ~settled THEN "uncertain" ELSE "failed"

\* Faulty variant: the handler forgets that the evidence is settled now.
PersistFailureOpen ==
    /\ pc = "settle"
    /\ evidence' = IF rollbackErrors THEN "uncertain" ELSE "rolled_back"
    /\ durable' \in BOOLEAN
    /\ pc' = IF started THEN "done" ELSE "discard"
    /\ outcome' = HandlerOutcome(TRUE)
    /\ UNCHANGED <<file, edits, staged, orphans, locals>>

\* ROLLED_BACK or UNCERTAIN evidence; finally keeps the copies of the latter.
PersistFailure ==
    /\ pc = "settle"
    /\ evidence' = IF rollbackErrors THEN "uncertain" ELSE "rolled_back"
    /\ durable' \in BOOLEAN
    /\ pc' = IF rollbackErrors /\ started THEN "done" ELSE "discard"
    /\ outcome' = HandlerOutcome(TRUE)
    /\ UNCHANGED <<file, edits, staged, orphans, locals>>

\* ... cannot be written: the evidence stays IN_PROGRESS.
PersistFailureFails ==
    /\ pc = "settle"
    /\ pc' = IF started THEN "done" ELSE "discard"
    /\ outcome' = HandlerOutcome(FALSE)
    /\ UNCHANGED <<disk, locals>>

\* finally: the copies of a settled batch, or of one that mutated nothing.
Discard ==
    /\ pc = "discard"
    /\ IF staged = {}
       THEN Goto("done") /\ UNCHANGED staged
       ELSE /\ \E k \in staged : staged' = staged \ {k}
            /\ UNCHANGED <<pc, outcome>>
    /\ UNCHANGED <<file, edits, evidence, durable, orphans, locals>>

----------------------------------------------------------------------------
(* Interrupts (KeyboardInterrupt, SystemExit), crashes, and somebody else *)

\* In the try block an interrupt is a failure that is handled like any other
\* and re-raised.  One that hits _stage_content leaves the temp file behind.
InterruptTry ==
    /\ pc \in {"stage", "check", "replace"}
    /\ interrupted' = TRUE
    /\ \/ UNCHANGED <<file, staged, orphans>>
       \/ /\ pc = "stage" /\ cursor \in Writes
          /\ orphans' = orphans \cup {cursor}
          /\ UNCHANGED <<file, staged>>
       \/ /\ pc = "replace"
          /\ file' = [file EXCEPT ![cursor] = "new"]
          /\ staged' = staged \ {cursor}
          /\ UNCHANGED orphans
    /\ Goto("restage")
    /\ UNCHANGED <<edits, evidence, durable, restaged, lost, snap, applied, cursor,
                   started, rollbackErrors>>

\* Around an evidence write an interrupt escapes before or after the replace.
InterruptPersist ==
    /\ pc \in {"intent", "commit", "settle"}
    /\ \/ UNCHANGED <<evidence, durable>>
       \/ /\ evidence' = CASE pc = "intent" -> "in_progress"
                          [] pc = "commit" -> "committed"
                          [] OTHER -> IF rollbackErrors THEN "uncertain" ELSE "rolled_back"
          /\ durable' = FALSE
    /\ pc' = IF pc = "settle" /\ ~started THEN "discard" ELSE "done"
    /\ outcome' = "raised"
    /\ UNCHANGED <<file, edits, staged, orphans, locals>>

\* Elsewhere it ends the call where it is, as does an OSError from a snapshot's
\* read or from the removal of a copy; finally still runs.  One that hits
\* _stage_content while copies are re-created leaves a temp file behind.
Escape ==
    /\ pc \in {"preflight", "snapshot", "restage", "rollback", "chmod", "drop", "discard"}
    /\ pc' = IF pc \in {"restage", "rollback", "chmod", "drop"} /\ ~started
             THEN "discard" ELSE "done"
    /\ outcome' = "raised"
    /\ \/ UNCHANGED orphans
       \/ /\ pc = "restage"
          /\ \E k \in (1..applied \cap Writes) \ staged : orphans' = orphans \cup {k}
    /\ UNCHANGED <<file, edits, evidence, durable, staged, locals>>

\* The process dies: files stay as they are, and nobody is told anything.
Crash ==
    /\ pc \notin {"done", "dead"}
    /\ pc' = "dead"
    /\ outcome' = "none"
    /\ UNCHANGED <<disk, locals>>

\* External: an editor or another program writes a target.
Edit(k) ==
    /\ edits < MaxEdits
    /\ edits' = edits + 1
    /\ file' = [file EXCEPT ![k] = "other"]
    /\ UNCHANGED <<evidence, durable, staged, orphans, locals, pc, outcome>>

----------------------------------------------------------------------------
Init ==
    /\ file = [k \in Ops |-> "base"]
    /\ edits = 0
    /\ evidence = "none"
    /\ durable = FALSE
    /\ staged = {} /\ orphans = {} /\ restaged = {} /\ lost = {}
    /\ snap = [k \in Ops |-> "base"]
    /\ applied = 0
    /\ cursor = 0
    /\ started = FALSE
    /\ rollbackErrors = FALSE
    /\ interrupted = FALSE
    /\ pc = "preflight"
    /\ outcome = "none"

\* A step of the call itself.
BatchStep ==
    \/ \E otherUncertain \in BOOLEAN : Preflight(otherUncertain)
    \/ TakeSnapshots
    \/ PersistIntent
    \/ PersistIntentFails
    \/ Stage
    \/ StageFails
    \/ CheckBase
    \/ Replace
    \/ ReplaceFails
    \/ PersistCommitted
    \/ PersistCommittedFails
    \/ Restage
    \/ RollBackTarget
    \/ RollBackMode
    \/ RollBackFails
    \/ RollBackEnds
    \/ DropRestaged
    \/ PersistFailure
    \/ PersistFailureFails
    \/ Discard
    \/ InterruptTry
    \/ InterruptPersist
    \/ Escape

Next ==
    \/ BatchStep
    \/ Crash
    \/ \E k \in Ops : Edit(k)

Spec == Init /\ [][Next]_vars

----------------------------------------------------------------------------
(* Properties *)

\* Every variable keeps its type; above all, only writes ever have a staged copy
\* and the loops stay within the batch.
TypeOK ==
    /\ file \in [Ops -> Values]
    /\ edits \in 0..MaxEdits
    /\ evidence \in {"none", "in_progress", "committed", "rolled_back", "uncertain"}
    /\ durable \in BOOLEAN
    /\ staged \subseteq Writes /\ orphans \subseteq Writes
    /\ restaged \subseteq Writes /\ lost \subseteq Writes
    /\ snap \in [Ops -> Values]
    /\ applied \in 0..N
    /\ cursor \in 0..N
    /\ started \in BOOLEAN /\ rollbackErrors \in BOOLEAN /\ interrupted \in BOOLEAN
    /\ pc \in PCs
    /\ outcome \in Outcomes

\* How the evidence reads to anybody who finds it.
Verdict == IF evidence \in {"in_progress", "uncertain"} THEN "open" ELSE evidence

Atomic == INSTANCE AtomicCommit WITH verdict <- Verdict

\* The batch implements the transaction it promises: targets change only while
\* the evidence says a commit is open, and the evidence settles only on a
\* workspace that is exactly the candidate or exactly the original.
ImplementsAtomicCommit == Atomic!Spec

\* What the caller is told agrees with the durable evidence: a committed result
\* only with COMMITTED evidence, and an ordinary failure only when nothing was
\* changed or everything is back, never over open evidence.
CallerToldTheTruth ==
    /\ outcome = "committed" => evidence = "committed"
    /\ outcome = "failed" =>
          /\ evidence \in {"none", "rolled_back"}
          /\ \A k \in Ops : file[k] \in {"base", "other"}

\* An open transaction that is partly applied can still be completed: every
\* write that does not hold its candidate has a staged copy of it on disk,
\* but for copies that an I/O error made impossible to re-create (reported)
\* and targets that somebody else wrote.
PartialCommitCanBeCompleted ==
    (Verdict = "open" /\ \E k \in Ops : file[k] = "new")
      => \A k \in Writes : file[k] \in {"base", "unmoded"} => k \in staged \cup lost

\* A batch that told its caller a settled result leaves no temp file beside a
\* source file.
SettledBatchLeavesNoCopy ==
    pc = "done" /\ outcome \in {"committed", "failed"} => staged \cup orphans = {}

\* Step 3 of the docstring of commit_revision_grounded_batch: no byte, not even
\* a staged copy, reaches the workspace before durable evidence says that a
\* commit began.
DurableIntentFirst ==
    (staged # {} \/ \E k \in Ops : file[k] = "new") => durable
=============================================================================
