------------------------- MODULE RunLifecycle_proofs -------------------------
(***************************************************************************)
(* Theorems about RunLifecycle for every set Tx of transaction ids, and    *)
(* about RunLease for any number of waits, work units and ticks.           *)
(*                                                                         *)
(* The invariant is stated of a record, so that each operation of          *)
(* RunRecord has one lemma saying that it preserves it; the theorems lift  *)
(* those lemmas to the state machine.                                      *)
(***************************************************************************)
EXTENDS RunLease, RunRecord_proofs

\* OpenCommitIsVisible and TerminalTellsTheTruth of one record value.
Visible(r) ==
    /\ \A i \in Unsettled(r) :
          i = Len(r.commits) /\ r.lifecycle = "COMMIT_ELIGIBLE"
    /\ (OpenCycles(r) \ Unsettled(r) # {}) => r.lifecycle = "UNCERTAIN"

Truthful(r) ==
    /\ r.lifecycle = "SUCCESS" =>
          /\ OpenCycles(r) = {}
          /\ r.commits # << >> => LastResult(r.commits) = "COMMITTED"
    /\ r.lifecycle \in {"FAILURE", "RECOVERED"} => OpenCycles(r) = {}
    /\ Terminal(r) =>
          /\ HasCommitted(r) =>
                r.commit_result \in {"COMMITTED", "PARTIALLY_COMMITTED", "UNCERTAIN"}
          /\ r.commit_result \in {"COMMITTED", "PARTIALLY_COMMITTED"} =>
                HasCommitted(r)
    /\ r.lifecycle = "RECOVERED" /\ HasCommitted(r) =>
          r.terminal_status = "NEEDS_REVIEW"

Sound(r) == r \in Record /\ Visible(r) /\ Truthful(r)

----------------------------------------------------------------------------
(* Each operation of a run record keeps it sound *)

\* No cycle is unsettled outside COMMIT_ELIGIBLE, and none is open before
\* a terminal state.
LEMMA NothingOpen ==
    ASSUME NEW r, Sound(r)
    PROVE  /\ r.lifecycle # "COMMIT_ELIGIBLE" => Unsettled(r) = {}
           /\ r.lifecycle \notin {"COMMIT_ELIGIBLE", "UNCERTAIN"} => OpenCycles(r) = {}
BY DEF Sound, Visible

\* A record operation that leaves commits, lifecycle and result alone.
LEMMA ToolSound ==
    ASSUME NEW r, Sound(r), NEW t \in ToolStates
    PROVE  Sound([r EXCEPT !.tool = t])
<1>1. [r EXCEPT !.tool = t] \in Record
  BY DEF Sound, Record
<1>2. QED
  BY <1>1 DEF Sound, Record, Visible, Truthful, Unsettled, OpenCycles, Cycles,
              HasCommitted, Terminal, LastResult

\* transition() to a stage.
LEMMA MarkSound ==
    ASSUME NEW r, Sound(r), NEW s \in Stages, CanMark(r, s)
    PROVE  Sound(Mark(r, s))
<1> DEFINE q == Mark(r, s)
<1>1. /\ r \in Record /\ q \in Record
      /\ q.commits = r.commits /\ q.lifecycle = s
  BY DEF Sound, Record, Mark, Lifecycles
<1>2. /\ r.lifecycle \notin {"COMMIT_ELIGIBLE", "UNCERTAIN"}
      /\ s \notin Terminals
  BY DEF CanMark, StageEdges, Terminal, Terminals, Stages
<1>3. OpenCycles(q) = {} /\ Unsettled(q) = {}
  BY <1>1, <1>2, NothingOpen DEF OpenCycles, Unsettled, Cycles
<1>4. Visible(q)
  BY <1>3 DEF Visible
<1>5. Truthful(q)
  BY <1>1, <1>2 DEF Truthful, Terminal, Terminals
<1>6. QED
  BY <1>1, <1>4, <1>5 DEF Sound

\* transition(SUCCESS)
LEMMA SucceedSound ==
    ASSUME NEW r, Sound(r), CanSucceed(r),
           NEW explicit \in {"none", "DIRECT_TOOL_EXECUTION"}
    PROVE  Sound(Succeed(r, explicit))
<1> DEFINE q == Succeed(r, explicit)
<1>1. r \in Record /\ r.commits \in Seq(Cycle)
  BY DEF Sound, Record
<1>2. \A i \in DOMAIN r.commits : r.commits[i].result \in Proven
  BY <1>1, SummaryTruth DEF CanSucceed
<1>3. r.commits # << >> => LastResult(r.commits) = "COMMITTED"
  BY <1>1, SummaryTruth DEF CanSucceed
<1>4. /\ q \in Record /\ q.commits = r.commits /\ q.lifecycle = "SUCCESS"
      /\ q.commit_result = IF explicit # "none" /\ r.commits = << >>
                           THEN explicit ELSE Summary(r.commits)
  BY <1>1, SummaryTruth DEF Record, Succeed, Lifecycles, Terminals
<1>5. OpenCycles(q) = {} /\ Unsettled(q) = {}
  BY <1>2, <1>4 DEF OpenCycles, Unsettled, Cycles, Proven
<1>6. Visible(q)
  BY <1>5 DEF Visible
<1>7. HasCommitted(q) =>
        q.commit_result \in {"COMMITTED", "PARTIALLY_COMMITTED", "UNCERTAIN"}
  BY <1>1, <1>4, SummaryTruth DEF HasCommitted, Cycles
<1>8. q.commit_result \in {"COMMITTED", "PARTIALLY_COMMITTED"} => HasCommitted(q)
  BY <1>1, <1>4, SummaryTruth DEF HasCommitted, Cycles
<1>9. Truthful(q)
  BY <1>3, <1>4, <1>5, <1>7, <1>8 DEF Truthful
<1>10. QED
  BY <1>4, <1>6, <1>9 DEF Sound

\* transition(FAILURE)
LEMMA FailSound ==
    ASSUME NEW r, Sound(r), CanFail(r),
           NEW explicit \in {"none", "DIRECT_TOOL_EXECUTION"}
    PROVE  Sound(Fail(r, explicit))
<1> DEFINE q == Fail(r, explicit)
<1>1. r \in Record /\ r.commits \in Seq(Cycle)
  BY DEF Sound, Record
<1>2. OpenCycles(r) = {}
  BY DEF CanFail, CommitStateUnknown
<1>3. Summary(r.commits) \in Settled \cup {"NO_COMMIT", "PARTIALLY_COMMITTED"}
  BY <1>1, SummaryTruth
<1>4. /\ q \in Record /\ q.commits = r.commits /\ q.lifecycle = "FAILURE"
      /\ q.commit_result = IF r.commits # << >> THEN Summary(r.commits)
                           ELSE IF explicit # "none" THEN explicit ELSE "NOT_COMMITTED"
  BY <1>1, <1>3 DEF Record, Fail, Lifecycles, Terminals, Settled, Proven
<1>5. OpenCycles(q) = {} /\ Unsettled(q) = {}
  BY <1>2, <1>4 DEF OpenCycles, Unsettled, Cycles, Proven
<1>6. Visible(q)
  BY <1>5 DEF Visible
<1>7. r.commits = << >> => ~HasCommitted(q)
  BY <1>1, <1>4 DEF HasCommitted, Cycles
<1>8. HasCommitted(q) =>
        q.commit_result \in {"COMMITTED", "PARTIALLY_COMMITTED", "UNCERTAIN"}
  BY <1>1, <1>4, <1>7, SummaryTruth DEF HasCommitted, Cycles
<1>9. q.commit_result \in {"COMMITTED", "PARTIALLY_COMMITTED"} => HasCommitted(q)
  BY <1>1, <1>4, SummaryTruth DEF HasCommitted, Cycles
<1>10. Truthful(q)
  BY <1>4, <1>5, <1>8, <1>9 DEF Truthful
<1>11. QED
  BY <1>4, <1>6, <1>10 DEF Sound

\* The UNCERTAIN exit is sound whatever the record said before.
LEMMA UncertainSound ==
    ASSUME NEW r \in Record
    PROVE  Sound(BecomeUncertain(r))
<1> DEFINE q == BecomeUncertain(r)
<1>1. r.commits \in Seq(Cycle)
  BY DEF Record
<1>2. /\ q \in Record /\ q.lifecycle = "UNCERTAIN"
      /\ q.commit_result = "UNCERTAIN" /\ q.commits = Closed(r.commits)
  BY <1>1, ClosedProperties DEF Record, BecomeUncertain, Lifecycles, Terminals, Settled
<1>3. Unsettled(q) = {}
  BY <1>1, <1>2, ClosedProperties DEF Unsettled, Cycles
<1>4. Visible(q)
  BY <1>2, <1>3 DEF Visible
<1>5. Truthful(q)
  BY <1>2 DEF Truthful
<1>6. QED
  BY <1>2, <1>4, <1>5 DEF Sound

\* begin_commit
LEMMA BeginSound ==
    ASSUME NEW r, Sound(r), NEW tx \in Tx, CanBeginCommit(r, tx)
    PROVE  Sound(BeginCommit(r, tx))
<1> DEFINE q == BeginCommit(r, tx)
           n == Len(r.commits)
           cycle == [tx |-> tx, result |-> "open"]
<1>1. r \in Record /\ r.commits \in Seq(Cycle) /\ n \in Nat
  BY DEF Sound, Record
<1>2. cycle \in Cycle
  BY DEF Cycle, Results
<1>3. /\ q.commits = Append(r.commits, cycle)
      /\ q.lifecycle = "COMMIT_ELIGIBLE"
      /\ q.commits \in Seq(Cycle)
      /\ Len(q.commits) = n + 1
      /\ DOMAIN q.commits = 1..(n + 1)
      /\ \A i \in 1..n : q.commits[i] = r.commits[i]
  BY <1>1, <1>2 DEF BeginCommit, Record
<1>4. q \in Record
  BY <1>1, <1>3 DEF BeginCommit, Record, Lifecycles, Stages
<1>5. \A i \in 1..n : r.commits[i].result \in Proven
  <2>1. OpenCycles(r) = {}
    BY NothingOpen DEF CanBeginCommit, CommitSources
  <2>2. QED
    BY <1>1, <2>1 DEF OpenCycles, Cycles
<1>6. \A i \in Cycles(q) : q.commits[i].result \notin Proven => i = n + 1
  BY <1>1, <1>3, <1>5 DEF Cycles
<1>7. q.commits[n + 1].result = "open"
  BY <1>1, <1>3
<1>8. Visible(q)
  BY <1>1, <1>3, <1>6, <1>7 DEF Visible, Unsettled, OpenCycles, Cycles, Proven
<1>9. Truthful(q)
  BY <1>3 DEF Truthful, Terminal, Terminals
<1>10. QED
  BY <1>4, <1>8, <1>9 DEF Sound

\* settle_commit
LEMMA SettleSound ==
    ASSUME NEW r, Sound(r), NEW result \in Settled, CanSettleCommit(r)
    PROVE  Sound(SettleCommit(r, result))
<1> DEFINE q == SettleCommit(r, result)
           w == WithLastResult(r, result)
           n == Len(r.commits)
<1>1. r \in Record /\ r.commits \in Seq(Cycle) /\ r.commits # << >>
  BY DEF Sound, Record, CanSettleCommit, Unsettled, Cycles
<1>2. w \in Record
  BY <1>1, WithLastResultProperties
<1>3. CASE result = "UNCERTAIN"
  BY <1>2, <1>3, UncertainSound DEF SettleCommit
<1>4. CASE result # "UNCERTAIN"
  <2>1. result \in Proven
    BY <1>4 DEF Settled
  <2>2. /\ q \in Record /\ q.commits = w.commits
        /\ q.lifecycle \in {"COMMITTED", "CANDIDATE"}
    BY <1>2, <1>4, <2>1 DEF SettleCommit, Record, Lifecycles, Stages, Settled
  <2>3. \A i \in DOMAIN r.commits : i # n => r.commits[i].result \in Proven
    BY DEF Sound, Visible, CanSettleCommit, Unsettled, OpenCycles, Cycles
  <2>4. \A i \in DOMAIN q.commits : q.commits[i].result \in Proven
    BY <1>1, <2>1, <2>2, <2>3, WithLastResultProperties
  <2>5. OpenCycles(q) = {} /\ Unsettled(q) = {}
    BY <2>4 DEF OpenCycles, Unsettled, Cycles, Proven
  <2>6. Visible(q)
    BY <2>5 DEF Visible
  <2>7. Truthful(q)
    BY <2>2 DEF Truthful, Terminal, Terminals
  <2>8. QED
    BY <2>2, <2>6, <2>7 DEF Sound
<1>5. QED
  BY <1>3, <1>4

\* recover
LEMMA RecoverSound ==
    ASSUME NEW r, Sound(r), NEW proof \in [OpenCycles(r) -> Proven]
    PROVE  Sound(Recover(r, proof))
<1> DEFINE q == Recover(r, proof)
           c == ProvedBy(r.commits, proof)
<1>1. r \in Record /\ r.commits \in Seq(Cycle) /\ OpenCycles(r) \subseteq DOMAIN r.commits
  BY DEF Sound, Record, OpenCycles, Cycles
<1>2. c \in Seq(Cycle) /\ DOMAIN c = DOMAIN r.commits
  BY <1>1, ProvedByProperties
<1>3. \A i \in DOMAIN c : c[i].result \in Proven
  BY <1>1, <1>2, ProvedByProperties DEF OpenCycles, Cycles
<1>4. /\ q \in Record /\ q.lifecycle = "RECOVERED" /\ q.commits = c
      /\ q.commit_result = Summary(c)
      /\ (\E i \in DOMAIN c : c[i].result = "COMMITTED") => q.terminal_status = "NEEDS_REVIEW"
  BY <1>1, <1>2, SummaryTruth DEF Recover, Record, Lifecycles, Terminals
<1>5. OpenCycles(q) = {} /\ Unsettled(q) = {}
  BY <1>3, <1>4 DEF OpenCycles, Unsettled, Cycles, Proven
<1>6. Visible(q)
  BY <1>5 DEF Visible
<1>7. /\ HasCommitted(q) => q.commit_result \in {"COMMITTED", "PARTIALLY_COMMITTED", "UNCERTAIN"}
      /\ q.commit_result \in {"COMMITTED", "PARTIALLY_COMMITTED"} => HasCommitted(q)
      /\ HasCommitted(q) => q.terminal_status = "NEEDS_REVIEW"
  BY <1>2, <1>4, SummaryTruth DEF HasCommitted, Cycles
<1>8. Truthful(q)
  BY <1>4, <1>5, <1>7 DEF Truthful
<1>9. QED
  BY <1>4, <1>6, <1>8 DEF Sound

\* _fail_active_run
LEMMA FailureOutcomeSound ==
    ASSUME NEW r, Sound(r), ~Terminal(r), NEW uncertainError \in BOOLEAN
    PROVE  Sound(FailureOutcome(r, uncertainError))
<1>1. CASE CommitStateUnknown(r) \/ uncertainError
  BY <1>1, UncertainSound DEF FailureOutcome, Sound
<1>2. CASE ~(CommitStateUnknown(r) \/ uncertainError)
  BY <1>2, FailSound DEF FailureOutcome, CanFail
<1>3. QED
  BY <1>1, <1>2

----------------------------------------------------------------------------
(* The state machine *)

\* The inductive invariant.
IInv == Sound(record) /\ live \in BOOLEAN

LEMMA InitSound == Init => Sound(record) /\ live \in BOOLEAN
<1> SUFFICES ASSUME Init PROVE Sound(record) /\ live \in BOOLEAN
  OBVIOUS
<1>1. record = NewRecord /\ live \in BOOLEAN
  BY DEF Init
<1>2. NewRecord.commits = << >> /\ NewRecord \in Record /\ NewRecord.lifecycle = "NEW"
  BY EmptySeq DEF NewRecord, Record, Lifecycles, Stages, Settled, ToolStates
<1>3. QED
  BY <1>1, <1>2 DEF Sound, Visible, Truthful, Unsettled, OpenCycles, Cycles,
                    Terminal, Terminals

LEMMA NextSound ==
    Sound(record) /\ live \in BOOLEAN /\ [Next]_vars => Sound(record') /\ live' \in BOOLEAN
<1> SUFFICES ASSUME Sound(record), live \in BOOLEAN, [Next]_vars
             PROVE  Sound(record') /\ live' \in BOOLEAN
  OBVIOUS
<1> USE DEF ToolStates
<1>1. ASSUME NEW s \in Stages, MarkStage(s) PROVE Sound(record') /\ live' \in BOOLEAN
  BY <1>1, MarkSound DEF MarkStage
<1>2. ASSUME StartTool PROVE Sound(record') /\ live' \in BOOLEAN
  <2>1. Sound(Mark(record, "RUNNING"))
    BY <1>2, MarkSound DEF StartTool, Stages
  <2>2. QED
    BY <1>2, <2>1, ToolSound DEF StartTool
<1>3. ASSUME FinishTool PROVE Sound(record') /\ live' \in BOOLEAN
  <2>1. CASE CanSucceed(record) /\ record' = [Succeed(record, "DIRECT_TOOL_EXECUTION")
                                               EXCEPT !.tool = "completed"]
    BY <1>3, <2>1, SucceedSound, ToolSound DEF FinishTool
  <2>2. CASE CanFail(record) /\ record' = [Fail(record, "DIRECT_TOOL_EXECUTION")
                                            EXCEPT !.tool = "failed"]
    BY <1>3, <2>2, FailSound, ToolSound DEF FinishTool
  <2>3. QED
    BY <1>3, <2>1, <2>2 DEF FinishTool
<1>4. ASSUME NEW tx \in Tx, BeginRunCommit(tx) PROVE Sound(record') /\ live' \in BOOLEAN
  BY <1>4, BeginSound DEF BeginRunCommit
<1>5. ASSUME NEW result \in Settled, SettleRunCommit(result)
      PROVE  Sound(record') /\ live' \in BOOLEAN
  BY <1>5, SettleSound DEF SettleRunCommit
<1>6. ASSUME NEW uncertainError \in BOOLEAN, FailActiveRun(uncertainError)
      PROVE  Sound(record') /\ live' \in BOOLEAN
  BY <1>6, FailureOutcomeSound DEF FailActiveRun
<1>7. ASSUME NEW unitsVerified \in BOOLEAN, CompleteRun(unitsVerified)
      PROVE  Sound(record') /\ live' \in BOOLEAN
  <2>1. CASE unitsVerified /\ CanSucceed(record)
    BY <1>7, <2>1, SucceedSound DEF CompleteRun
  <2>2. CASE ~(unitsVerified /\ CanSucceed(record))
    BY <1>7, <2>2, FailureOutcomeSound DEF CompleteRun
  <2>3. QED
    BY <2>1, <2>2
<1>8. ASSUME ExitRun PROVE Sound(record') /\ live' \in BOOLEAN
  BY <1>8, FailureOutcomeSound DEF ExitRun
<1>9. ASSUME ExitUnsaved PROVE Sound(record') /\ live' \in BOOLEAN
  BY <1>9 DEF ExitUnsaved
<1>10. ASSUME RecoverRun PROVE Sound(record') /\ live' \in BOOLEAN
  BY <1>10, RecoverSound DEF RecoverRun
<1>11. ASSUME AbandonRun PROVE Sound(record') /\ live' \in BOOLEAN
  BY <1>11, ToolSound DEF AbandonRun, AbandonTool
<1>12. CASE UNCHANGED vars
  BY <1>12 DEF vars
<1>13. QED
  BY <1>1, <1>2, <1>3, <1>4, <1>5, <1>6, <1>7, <1>8, <1>9, <1>10, <1>11, <1>12 DEF Next

\* Every reachable record is sound: the invariant the next theorems read.
THEOREM SoundAlways == Spec => []IInv
<1>1. Init => IInv
  BY InitSound DEF IInv
<1>2. IInv /\ [Next]_vars => IInv'
  BY NextSound DEF IInv
<1>3. QED
  BY <1>1, <1>2, PTL DEF Spec

\* Every record and lease the run, an operator or a crash leaves is well typed.
THEOREM TypeCorrect == Spec => []TypeOK
<1>1. IInv => TypeOK
  BY DEF IInv, Sound, TypeOK
<1>2. QED
  BY <1>1, SoundAlways, PTL

\* A commit whose outcome is unknown is visible to the next run's gate, for
\* any number of commit cycles.
THEOREM OpenCommitAlwaysVisible == Spec => []OpenCommitIsVisible
<1>1. IInv => OpenCommitIsVisible
  BY DEF IInv, Sound, Visible, OpenCommitIsVisible
<1>2. QED
  BY <1>1, SoundAlways, PTL

\* No terminal record misreports what reached the workspace.
THEOREM TerminalAlwaysTellsTheTruth == Spec => []TerminalTellsTheTruth
<1>1. IInv => TerminalTellsTheTruth
  BY DEF IInv, Sound, Truthful, TerminalTellsTheTruth
<1>2. QED
  BY <1>1, SoundAlways, PTL

----------------------------------------------------------------------------
(* Commit history *)

\* What an operation may do to a record's cycles.
Kept(r, q) ==
    /\ Len(q.commits) \in Len(r.commits) .. Len(r.commits) + 1
    /\ \A i \in Cycles(r) :
          /\ q.commits[i].tx = r.commits[i].tx
          /\ r.commits[i].result \in Proven
                => q.commits[i].result = r.commits[i].result

\* An operation that leaves the commits alone keeps history.
LEMMA SameCommitsKept ==
    ASSUME NEW r \in Record, NEW q, q.commits = r.commits
    PROVE  Kept(r, q)
BY CommitsDomain DEF Kept, Cycles

LEMMA UncertainKept ==
    ASSUME NEW r \in Record
    PROVE  Kept(r, BecomeUncertain(r))
<1>1. r.commits \in Seq(Cycle) /\ BecomeUncertain(r).commits = Closed(r.commits)
  BY DEF Record, BecomeUncertain
<1>2. QED
  BY <1>1, ClosedProperties, CommitsDomain DEF Kept, Cycles, Proven

LEMMA FailureOutcomeKept ==
    ASSUME NEW r \in Record, NEW uncertainError \in BOOLEAN
    PROVE  Kept(r, FailureOutcome(r, uncertainError))
<1>1. Fail(r, "none").commits = r.commits
  BY DEF Fail, Record
<1>2. QED
  BY <1>1, UncertainKept, SameCommitsKept DEF FailureOutcome

LEMMA BeginKept ==
    ASSUME NEW r \in Record, NEW tx \in Tx
    PROVE  Kept(r, BeginCommit(r, tx))
<1>1. /\ r.commits \in Seq(Cycle) /\ [tx |-> tx, result |-> "open"] \in Cycle
      /\ BeginCommit(r, tx).commits = Append(r.commits, [tx |-> tx, result |-> "open"])
  BY DEF Record, BeginCommit, Cycle, Results
<1>2. QED
  BY <1>1, CommitsDomain DEF Kept, Cycles

\* The settled cycle was unsettled, so settling it changes no proven result.
LEMMA SettleKept ==
    ASSUME NEW r, Sound(r), NEW result \in Settled, CanSettleCommit(r)
    PROVE  Kept(r, SettleCommit(r, result))
<1> DEFINE w == WithLastResult(r, result)
           n == Len(r.commits)
<1>1. r \in Record /\ r.commits # << >> /\ n \in Nat
  BY CommitsDomain DEF Sound, CanSettleCommit, Unsettled, Cycles, Record
<1>2. r.commits[n].result \notin Proven
  BY DEF Sound, Visible, CanSettleCommit, Unsettled, Proven
<1>3. /\ w \in Record /\ Len(w.commits) = n /\ DOMAIN w.commits = DOMAIN r.commits
      /\ \A i \in DOMAIN r.commits :
            /\ w.commits[i].tx = r.commits[i].tx
            /\ i # n => w.commits[i].result = r.commits[i].result
  BY <1>1, WithLastResultProperties
<1>4. Kept(r, w)
  BY <1>1, <1>2, <1>3 DEF Kept, Cycles
<1>5. CASE result = "UNCERTAIN"
  <2>1. SettleCommit(r, result) = BecomeUncertain(w)
    BY <1>5 DEF SettleCommit
  <2>2. Kept(w, BecomeUncertain(w))
    BY <1>3, UncertainKept
  <2>3. \A i \in Cycles(r) : r.commits[i].result \in Proven
           => w.commits[i].result \in Proven /\ i \in Cycles(w)
    BY <1>2, <1>3 DEF Cycles
  <2>4. Len(BecomeUncertain(w).commits) = n
    BY <1>3, ClosedProperties DEF BecomeUncertain, Record
  <2>5. QED
    BY <1>1, <1>3, <1>4, <2>1, <2>2, <2>3, <2>4 DEF Kept, Cycles
<1>6. CASE result # "UNCERTAIN"
  <2>1. SettleCommit(r, result).commits = w.commits
    BY <1>3, <1>6 DEF SettleCommit, Record
  <2>2. QED
    BY <1>4, <2>1 DEF Kept
<1>7. QED
  BY <1>5, <1>6

LEMMA RecoverKept ==
    ASSUME NEW r \in Record, NEW proof \in [OpenCycles(r) -> Proven]
    PROVE  Kept(r, Recover(r, proof))
<1>1. /\ r.commits \in Seq(Cycle) /\ OpenCycles(r) \in SUBSET (DOMAIN r.commits)
      /\ Recover(r, proof).commits = ProvedBy(r.commits, proof)
  BY DEF Record, Recover, OpenCycles, Cycles
<1>2. /\ Len(ProvedBy(r.commits, proof)) = Len(r.commits)
      /\ \A i \in DOMAIN r.commits :
           /\ ProvedBy(r.commits, proof)[i].tx = r.commits[i].tx
           /\ i \notin OpenCycles(r) => ProvedBy(r.commits, proof)[i] = r.commits[i]
  BY <1>1, ProvedByProperties, Zenon
<1>3. Len(Recover(r, proof).commits) \in Len(r.commits) .. Len(r.commits) + 1
  BY <1>1, <1>2, CommitsDomain
<1>4. ASSUME NEW i \in Cycles(r), r.commits[i].result \in Proven PROVE i \notin OpenCycles(r)
  BY <1>4 DEF OpenCycles
<1>5. QED
  BY <1>1, <1>2, <1>3, <1>4 DEF Kept, Cycles

LEMMA NextKept == IInv /\ [Next]_vars => Kept(record, record')
<1> SUFFICES ASSUME Sound(record), record \in Record, [Next]_vars
             PROVE  Kept(record, record')
  BY DEF IInv, Sound
<1>1. ASSUME NEW s \in Stages, MarkStage(s) PROVE Kept(record, record')
  BY <1>1, SameCommitsKept DEF MarkStage, Mark, Record
<1>2. ASSUME StartTool PROVE Kept(record, record')
  <2>1. Mark(record, "RUNNING").commits = record.commits
    BY DEF Mark, Record
  <2>2. record'.commits = Mark(record, "RUNNING").commits
    BY <1>2 DEF StartTool, Mark, Record
  <2>3. QED
    BY <2>1, <2>2, SameCommitsKept
<1>3. ASSUME FinishTool PROVE Kept(record, record')
  BY <1>3, SameCommitsKept DEF FinishTool, Succeed, Fail, Record
<1>4. ASSUME NEW tx \in Tx, BeginRunCommit(tx) PROVE Kept(record, record')
  BY <1>4, BeginKept DEF BeginRunCommit
<1>5. ASSUME NEW result \in Settled, SettleRunCommit(result) PROVE Kept(record, record')
  BY <1>5, SettleKept DEF SettleRunCommit
<1>6. ASSUME NEW uncertainError \in BOOLEAN, FailActiveRun(uncertainError)
      PROVE  Kept(record, record')
  BY <1>6, FailureOutcomeKept DEF FailActiveRun
<1>7. ASSUME NEW unitsVerified \in BOOLEAN, CompleteRun(unitsVerified)
      PROVE  Kept(record, record')
  <2>1. Succeed(record, "none").commits = record.commits
    BY DEF Succeed, Record
  <2>2. QED
    BY <1>7, <2>1, SameCommitsKept, FailureOutcomeKept DEF CompleteRun
<1>8. ASSUME ExitRun PROVE Kept(record, record')
  BY <1>8, SameCommitsKept, FailureOutcomeKept DEF ExitRun
<1>9. ASSUME UNCHANGED record PROVE Kept(record, record')
  BY <1>9, SameCommitsKept
<1>10. ASSUME RecoverRun PROVE Kept(record, record')
  BY <1>10, RecoverKept DEF RecoverRun
<1>11. ASSUME AbandonRun PROVE Kept(record, record')
  BY <1>11, SameCommitsKept DEF AbandonRun, AbandonTool, Record
<1>12. QED
  BY <1>1, <1>2, <1>3, <1>4, <1>5, <1>6, <1>7, <1>8, <1>9, <1>10, <1>11
     DEF Next, ExitUnsaved, vars

\* The cycle history of a run is append-only and its proven results are final.
THEOREM HistoryAlwaysKept == Spec => HistoryIsKept
<1>1. IInv /\ [Next]_vars => [HistoryKept]_vars
  BY NextKept DEF Kept, HistoryKept
<1>2. QED
  BY <1>1, SoundAlways, PTL DEF Spec, HistoryIsKept

----------------------------------------------------------------------------
(* Terminal states *)

\* What a step may do to a terminal record.
Final == Terminal(record) =>
            \/ SameEnding
            \/ record.lifecycle = "UNCERTAIN" /\ record'.lifecycle = "RECOVERED"

LEMMA NextFinal == IInv /\ [Next]_vars => Final
<1> SUFFICES ASSUME record \in Record, Terminal(record), [Next]_vars
             PROVE  Final
  BY DEF Final, IInv, Sound
<1>1. ~CanSucceed(record) /\ ~CanFail(record) /\ ~CanSettleCommit(record)
  BY DEF CanSucceed, CanFail, CanSettleCommit, Terminal, Terminals
<1>2. \A s : ~CanMark(record, s)
  BY DEF CanMark
<1>3. \A tx : ~CanBeginCommit(record, tx)
  BY DEF CanBeginCommit, CommitSources, Terminal, Terminals
<1>4. CASE ExitRun
  BY <1>4 DEF ExitRun, Final, SameEnding
<1>5. CASE RecoverRun
  <2>1. record.lifecycle = "UNCERTAIN"
    BY <1>5 DEF RecoverRun, NeedsRecovery
  <2>2. record'.lifecycle = "RECOVERED"
    BY <1>5 DEF RecoverRun, Recover, Record
  <2>3. QED
    BY <2>1, <2>2 DEF Final
<1>6. CASE AbandonRun
  BY <1>6 DEF AbandonRun, AbandonTool, Record, Final, SameEnding
<1>7. CASE UNCHANGED record
  BY <1>7 DEF Final, SameEnding
<1>8. QED
  BY <1>1, <1>2, <1>3, <1>4, <1>5, <1>6, <1>7
     DEF Next, MarkStage, StartTool, FinishTool, BeginRunCommit, SettleRunCommit,
         FailActiveRun, CompleteRun, ExitUnsaved, vars

\* No step revives a finished run or rewrites what it recorded, and only an
\* UNCERTAIN one is recovered.
THEOREM FinishedRunsStayFinished == Spec => FinishedStaysFinished
<1>1. IInv /\ [Next]_vars =>
        [Terminal(record) =>
           \/ SameEnding
           \/ record.lifecycle = "UNCERTAIN" /\ record'.lifecycle = "RECOVERED"]_vars
  BY NextFinal DEF Final
<1>2. QED
  BY <1>1, SoundAlways, PTL DEF Spec, FinishedStaysFinished

----------------------------------------------------------------------------
(* The lease *)

\* The lease adds a clock to the run and takes nothing from it: what is proved
\* of a run holds of a run with its lease.
THEOREM LeaseKeepsTheRun == LeaseSpec => Spec
<1>1. LeaseInit => Init
  BY DEF LeaseInit
<1>2. [LeaseNext]_leaseVars => [Next]_vars
  BY DEF LeaseNext, ClockNext, Claim, Follow, Ask, Answered, Tick, leaseVars, vars
<1>3. QED
  BY <1>1, <1>2, PTL DEF LeaseSpec, Spec

ClockTyped ==
    /\ now \in Nat /\ worked \in Nat
    /\ human_wait_started \in Int /\ generation_clock \in Int
    /\ budget_started \in [Followers -> Int]

\* A wait began in the past.
WaitBegan == asking # {} => human_wait_started \in 0..now

\* Before the first claim nothing is counted and nobody has a copy.
Unclaimed ==
    generation_clock = Unset => worked = 0 /\ \A s \in Followers : budget_started[s] = Unset

\* BudgetCountsWorkOnly, after the run too.
Counted ==
    generation_clock # Unset =>
        /\ generation_clock \in Nat
        /\ now - Effective(generation_clock) = worked
        /\ \A s \in Followers : budget_started[s] # Unset =>
              /\ budget_started[s] <= Effective(generation_clock)
              /\ asking = {} => budget_started[s] = generation_clock

ClockInv == ClockTyped /\ WaitBegan /\ Unclaimed /\ Counted

\* A claim changes nothing for those who claimed before; the first one starts
\* with nothing spent.
LEMMA ClaimCounts ==
    ASSUME ClockInv
    PROVE  /\ Claimed \in Nat /\ Effective(Claimed) \in Nat
           /\ now - Effective(Claimed) = worked
           /\ generation_clock # Unset => Claimed = generation_clock
<1>1. CASE generation_clock = Unset
  <2>1. Claimed = ClockStart /\ worked = 0
    BY <1>1 DEF Claimed, ClockInv, Unclaimed
  <2>2. ClockStart \in Nat /\ Effective(ClockStart) = now
    BY DEF ClockStart, Effective, ClockInv, ClockTyped, WaitBegan
  <2>3. QED
    BY <1>1, <2>1, <2>2 DEF ClockInv, ClockTyped
<1>2. CASE generation_clock # Unset
  <2>1. Claimed = generation_clock
    BY <1>2 DEF Claimed
  <2>2. generation_clock \in Nat /\ now - Effective(generation_clock) = worked
    BY <1>2 DEF ClockInv, Counted
  <2>3. Effective(generation_clock) \in Nat
    BY <2>2 DEF Effective, ClockInv, ClockTyped, WaitBegan
  <2>4. QED
    BY <2>1, <2>2, <2>3
<1>3. QED
  BY <1>1, <1>2

LEMMA ClaimKeeps == ASSUME ClockInv, Claim PROVE ClockInv'
<1>1. generation_clock' = Claimed /\ Claimed \in Nat /\ Claimed # Unset
  BY ClaimCounts DEF Claim, Unset
<1>2. UNCHANGED <<now, asking, human_wait_started, budget_started, worked>>
  BY DEF Claim
<1>3. Effective(generation_clock)' = Effective(Claimed)
  BY <1>1, <1>2 DEF Effective
<1>4. Counted'
  BY <1>1, <1>2, <1>3, ClaimCounts DEF Counted, ClockInv, Unclaimed
<1>5. QED
  BY <1>1, <1>2, <1>4 DEF ClockInv, ClockTyped, WaitBegan, Unclaimed

LEMMA FollowKeeps == ASSUME ClockInv, NEW s \in Followers, Follow(s) PROVE ClockInv'
<1>1. generation_clock' = Claimed /\ Claimed \in Nat /\ Claimed # Unset
  BY ClaimCounts DEF Follow, Unset
<1>2. /\ UNCHANGED <<now, asking, human_wait_started, worked>>
      /\ budget_started' = [budget_started EXCEPT ![s] = Effective(Claimed)]
  BY DEF Follow
<1>3. Effective(generation_clock)' = Effective(Claimed)
  BY <1>1, <1>2 DEF Effective
<1>4. asking = {} => Effective(Claimed) = Claimed
  BY DEF Effective
<1>5. \A q \in Followers : budget_started'[q] # Unset =>
        /\ budget_started'[q] <= Effective(Claimed)
        /\ asking = {} => budget_started'[q] = Claimed
  BY <1>2, <1>4, ClaimCounts DEF Counted, ClockInv, Unclaimed, ClockTyped
<1>6. Counted'
  BY <1>1, <1>2, <1>3, <1>5, ClaimCounts DEF Counted
<1>7. QED
  BY <1>1, <1>2, <1>6, ClaimCounts DEF ClockInv, ClockTyped, WaitBegan, Unclaimed

LEMMA AskKeeps == ASSUME ClockInv, NEW w \in Waiters, Ask(w) PROVE ClockInv'
<1>1. UNCHANGED <<now, generation_clock, budget_started, worked>>
  BY DEF Ask
<1>2. human_wait_started' \in 0..now /\ asking' # {}
  BY DEF Ask, ClockInv, ClockTyped, WaitBegan
<1>3. Effective(generation_clock)' = Effective(generation_clock)
  BY DEF Ask, Effective, ClockInv, ClockTyped
<1>4. QED
  BY <1>1, <1>2, <1>3 DEF ClockInv, ClockTyped, WaitBegan, Unclaimed, Counted

\* The last to leave credits the wait: what was told of the clock becomes the clock.
LEMMA AnsweredKeeps == ASSUME ClockInv, NEW w \in Waiters, Answered(w) PROVE ClockInv'
<1>1. UNCHANGED <<now, worked>> /\ asking # {}
  BY DEF Answered
<1>2. CASE asking' = {} /\ generation_clock # Unset
  <2>1. generation_clock' = Effective(generation_clock) /\ human_wait_started' = Unset
    BY <1>1, <1>2 DEF Answered, Credit, Effective
  <2>2. generation_clock' \in Nat /\ generation_clock' # Unset
    BY <1>1, <1>2, <2>1 DEF Effective, ClockInv, ClockTyped, WaitBegan, Counted, Unset
  <2>3. Effective(generation_clock)' = generation_clock'
    BY <1>2 DEF Effective
  <2>4. budget_started' = [s \in Followers |-> IF budget_started[s] = Unset THEN Unset ELSE generation_clock']
    BY <1>2 DEF Answered, Credit
  <2>5. now - generation_clock' = worked
    BY <1>2, <2>1 DEF ClockInv, Counted
  <2>6. QED
    BY <1>1, <1>2, <2>1, <2>2, <2>3, <2>4, <2>5
    DEF ClockInv, ClockTyped, WaitBegan, Unclaimed, Counted, Unset
<1>3. CASE ~(asking' = {} /\ generation_clock # Unset)
  <2>1. UNCHANGED <<generation_clock, budget_started>>
    BY <1>3 DEF Answered
  <2>2. CASE asking' # {}
    <3>1. UNCHANGED human_wait_started /\ Effective(generation_clock)' = Effective(generation_clock)
      BY <1>1, <2>1, <2>2 DEF Answered, Effective
    <3>2. QED
      BY <1>1, <2>1, <2>2, <3>1 DEF ClockInv, ClockTyped, WaitBegan, Unclaimed, Counted
  <2>3. CASE asking' = {} /\ generation_clock = Unset
    BY <1>1, <2>1, <2>3 DEF Answered, ClockInv, ClockTyped, WaitBegan, Unclaimed, Counted, Unset
  <2>4. QED
    BY <1>3, <2>2, <2>3
<1>4. QED
  BY <1>2, <1>3

LEMMA TickKeeps == ASSUME ClockInv, Tick PROVE ClockInv'
<1>1. UNCHANGED <<asking, human_wait_started, generation_clock, budget_started>> /\ now' = now + 1
  BY DEF Tick
<1>2. CASE generation_clock = Unset
  BY <1>1, <1>2 DEF Tick, ClockInv, ClockTyped, WaitBegan, Unclaimed, Counted
<1>3. CASE generation_clock # Unset /\ asking = {}
  BY <1>1, <1>3 DEF Tick, ClockInv, ClockTyped, WaitBegan, Unclaimed, Counted, Effective
<1>4. CASE generation_clock # Unset /\ asking # {}
  <2>1. worked' = worked /\ human_wait_started \in 0..now
    BY <1>4 DEF Tick, ClockInv, WaitBegan
  <2>2. Effective(generation_clock)' = Effective(generation_clock) + 1
    BY <1>1, <1>4, <2>1 DEF Effective, ClockInv, ClockTyped, Counted
  <2>3. Effective(generation_clock) \in Int
    BY <1>4, <2>1 DEF Effective, ClockInv, ClockTyped, Counted
  <2>4. QED
    BY <1>1, <1>4, <2>1, <2>2, <2>3 DEF ClockInv, ClockTyped, WaitBegan, Unclaimed, Counted
<1>5. QED
  BY <1>2, <1>3, <1>4

\* The budget of a run counts its work and nothing else, for any number of waits
\* however they overlap (claim_run_generation_clock, generation_clock_paused).
THEOREM BudgetAlwaysCountsWorkOnly == LeaseSpec => []BudgetCountsWorkOnly
<1>1. LeaseInit => ClockInv
  BY DEF LeaseInit, ClockInv, ClockTyped, WaitBegan, Unclaimed, Counted, Unset
<1>2. ClockInv /\ [LeaseNext]_leaseVars => ClockInv'
  <2>1. ASSUME ClockInv, UNCHANGED clock PROVE ClockInv'
    BY <2>1 DEF clock, ClockInv, ClockTyped, WaitBegan, Unclaimed, Counted, Effective
  <2>2. QED
    BY <2>1, ClaimKeeps, FollowKeeps, AskKeeps, AnsweredKeeps, TickKeeps DEF LeaseNext, ClockNext, leaseVars
<1>3. ClockInv => BudgetCountsWorkOnly
  BY DEF ClockInv, Counted, BudgetCountsWorkOnly
<1>4. QED
  BY <1>1, <1>2, <1>3, PTL DEF LeaseSpec
=============================================================================
